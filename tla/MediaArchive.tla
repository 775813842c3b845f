--------------------------- MODULE MediaArchive ---------------------------
(***************************************************************************)
(* Media archival of succeeded YouTube runs: MediaArchiver::archive_video  *)
(* over the accounting of crates/persistence (media_archives, artifacts)   *)
(* and the blob store, with several runs at once, rows that expire, and    *)
(* calls of delete_expired_media.                                          *)
(*                                                                         *)
(* Each statement or transaction is one step.  No service and no test      *)
(* calls delete_expired_media or remove_digest.  Here a call of the first  *)
(* may begin at any time or never, and no bytes are ever removed.          *)
(***************************************************************************)
EXTENDS Faults, Integers, FiniteSets

CONSTANTS Runs,      \* succeeded runs, each archived once
          VideoOf,   \* the video of each run
          MediaOf,   \* the files (by digest) that a download of a video may give
          Length,    \* the length of each file
          MaxItem,   \* youtube.media.max_item_bytes
          Budget     \* youtube.media.total_budget_bytes

Digests == UNION {MediaOf[VideoOf[r]] : r \in Runs}

ASSUME MediaAssumption ==
    /\ Length \in [Digests -> Nat \ {0}]
    /\ {MaxItem, Budget} \subseteq Nat \ {0}
    /\ MaxItem <= Budget  \* demanded by validate_youtube

VARIABLES rows,       \* media_archives
          artifacts,  \* rows of extractor.artifacts of kind archived_media
          files,      \* digests in the blob store
          job,        \* the local state of each archival attempt
          workdirs,   \* attempts whose working directory exists
          purge       \* a call of delete_expired_media: its next statement, the rows selected

mediaVars == <<rows, artifacts, files, job, workdirs, purge, faults>>

(* Where an attempt is in archive_video; media.enabled is true. *)
Phases == {"idle", "budget", "download", "copy", "reserve", "done"}

Archivals == {"none", "skipped_duplicate", "skipped_budget", "failed", "stored", "error", "crashed"}

Unexpired == {m \in rows : ~m.expired}

Expired == {m \in rows : m.expired}

(* The bytes that the unexpired rows account for: one for each position in *)
(* the file of each row, also when two rows have the same file.            *)
Accounted == UNION {{m} \X (1 .. Length[m.digest]) : m \in Unexpired}

(* unexpired_media_bytes. *)
UsedBytes == Cardinality(Accounted)

MediaInit ==
    /\ rows = {}
    /\ artifacts = {}
    /\ files = {}
    /\ job = [r \in Runs |-> [pc |-> "idle", used |-> 0, digest |-> "none", outcome |-> "none"]]
    /\ workdirs = {}
    /\ purge = [step |-> "idle", selected |-> {}]
    /\ faults = 0

(* Every exit after the working directory exists calls remove_dir. *)
Exit(r, outcome) ==
    /\ job' = [job EXCEPT ![r].pc = "done", ![r].outcome = outcome]
    /\ workdirs' = workdirs \ {r}

(* A statement, create_dir_all, the opening of the file or the store       *)
(* fails: an infrastructure error.                                         *)
Fails(r) == Fault /\ Exit(r, "error") /\ UNCHANGED <<rows, artifacts, files>>

(* has_unexpired_media_for_video. *)
CheckDuplicate(r) ==
    /\ job[r].pc = "idle"
    /\ \/ Fails(r)
       \/ /\ IF \E m \in Unexpired : m.video = VideoOf[r]
             THEN Exit(r, "skipped_duplicate")
             ELSE job' = [job EXCEPT ![r].pc = "budget"] /\ UNCHANGED workdirs
          /\ UNCHANGED <<rows, artifacts, files, faults>>
    /\ UNCHANGED purge

(* The first look at the budget, before the download. *)
CheckBudget(r) ==
    /\ job[r].pc = "budget"
    /\ \/ Fails(r)
       \/ /\ IF UsedBytes >= Budget
             THEN Exit(r, "skipped_budget")
             ELSE /\ job' = [job EXCEPT ![r].pc = "download", ![r].used = UsedBytes]
                  /\ workdirs' = workdirs \cup {r}
          /\ UNCHANGED <<rows, artifacts, files, faults>>
    /\ UNCHANGED purge

(* YtDlpDownloader::download: it times out, exits with an error, gives too *)
(* much diagnostic output or an oversized item, or one of the files.       *)
Download(r) ==
    /\ job[r].pc = "download"
    /\ \/ Exit(r, "failed")
       \/ \E d \in MediaOf[VideoOf[r]] :
            IF Length[d] > MaxItem
            THEN Exit(r, "skipped_budget")
            ELSE job' = [job EXCEPT ![r].pc = "copy", ![r].digest = d] /\ UNCHANGED workdirs
    /\ UNCHANGED <<rows, artifacts, files, purge, faults>>

(* The cap of the copy is the smaller of the item cap and what was left at *)
(* the first look.                                                         *)
WithinCopyCap(r) == Length[job[r].digest] <= MaxItem /\ Length[job[r].digest] <= Budget - job[r].used

(* store of the capped file stream: all of the file, or nothing.  A read   *)
(* that fails is an error of the stream, and so reported as an item over   *)
(* the cap.                                                                *)
Copy(r) ==
    /\ job[r].pc = "copy"
    /\ \/ /\ WithinCopyCap(r)
          /\ files' = files \cup {job[r].digest}
          /\ job' = [job EXCEPT ![r].pc = "reserve"]
          /\ UNCHANGED <<rows, artifacts, workdirs, faults>>
       \/ /\ (~WithinCopyCap(r) /\ UNCHANGED faults) \/ Fault
          /\ Exit(r, "skipped_budget")
          /\ UNCHANGED <<rows, artifacts, files>>
       \/ Fails(r)
    /\ UNCHANGED purge

Row(r) == [run |-> r, video |-> VideoOf[r], digest |-> job[r].digest, expired |-> FALSE]

(* Variant: the first look at the budget is trusted. *)
Reserve_StaleBudget(r) ==
    /\ job[r].pc = "reserve"
    /\ rows' = rows \cup {Row(r)}
    /\ artifacts' = artifacts \cup {[run |-> r, digest |-> job[r].digest]}
    /\ Exit(r, "stored")
    /\ UNCHANGED <<files, purge, faults>>

(* reserve_media_archive: the sum, the check and both inserts in one       *)
(* transaction under the advisory lock.                                    *)
Reserve(r) ==
    /\ job[r].pc = "reserve"
    /\ \/ /\ UsedBytes + Length[job[r].digest] <= Budget
          /\ rows' = rows \cup {Row(r)}
          /\ artifacts' = artifacts \cup {[run |-> r, digest |-> job[r].digest]}
          /\ Exit(r, "stored")
          /\ UNCHANGED <<files, faults>>
       \/ /\ UsedBytes + Length[job[r].digest] > Budget
          /\ Exit(r, "skipped_budget")
          /\ UNCHANGED <<rows, artifacts, files, faults>>
       \/ Fails(r)
    /\ UNCHANGED purge

(* The process dies in the middle of an attempt. *)
Crash(r) ==
    /\ job[r].pc \notin {"idle", "done"}
    /\ Fault
    /\ job' = [job EXCEPT ![r].pc = "done", ![r].outcome = "crashed"]
    /\ UNCHANGED <<rows, artifacts, files, workdirs, purge>>

(* expires_at of a row passes. *)
Expire(m) ==
    /\ ~m.expired
    /\ rows' = (rows \ {m}) \cup {[m EXCEPT !.expired = TRUE]}
    /\ UNCHANGED <<artifacts, files, job, workdirs, purge, faults>>

(* delete_expired_media, first statement: the expired rows, for the list   *)
(* of digests that the call returns.                                       *)
PurgeSelect ==
    /\ purge.step = "idle"
    /\ Expired # {}
    /\ purge' = [step |-> "artifacts", selected |-> Expired]
    /\ UNCHANGED <<rows, artifacts, files, job, workdirs, faults>>

(* Second statement: artifact rows joined to expired rows by digest. *)
PurgeArtifacts ==
    /\ purge.step = "artifacts"
    /\ artifacts' = {a \in artifacts : ~\E m \in Expired : m.digest = a.digest}
    /\ purge' = [purge EXCEPT !.step = "rows"]
    /\ UNCHANGED <<rows, files, job, workdirs, faults>>

(* Variant: rows are found through the artifact rows just deleted. *)
PurgeRows_ThroughArtifacts ==
    /\ purge.step = "rows"
    /\ rows' = {m \in rows : ~m.expired \/ ~\E a \in artifacts : a.digest = m.digest}
    /\ purge' = [step |-> "idle", selected |-> {}]
    /\ UNCHANGED <<artifacts, files, job, workdirs, faults>>

(* Third statement: the expired rows.  The call returns the digests of the *)
(* rows it selected.                                                       *)
PurgeRows ==
    /\ purge.step = "rows"
    /\ rows' = Unexpired
    /\ purge' = [step |-> "idle", selected |-> {}]
    /\ UNCHANGED <<artifacts, files, job, workdirs, faults>>

(* A statement fails or the purging process dies. *)
PurgeFails ==
    /\ purge.step # "idle"
    /\ Fault
    /\ purge' = [step |-> "idle", selected |-> {}]
    /\ UNCHANGED <<rows, artifacts, files, job, workdirs>>

PurgeStep == PurgeSelect \/ PurgeArtifacts \/ PurgeRows

ArchiveStep(r) == CheckDuplicate(r) \/ CheckBudget(r) \/ Download(r) \/ Copy(r) \/ Reserve(r)

MediaNext ==
    \/ PurgeStep
    \/ PurgeFails
    \/ \E m \in rows : Expire(m)
    \/ \E r \in Runs : ArchiveStep(r) \/ Crash(r)

MediaSpec == MediaInit /\ [][MediaNext]_mediaVars

---------------------------------------------------------------------------

MediaRows == [run : Runs, video : {VideoOf[r] : r \in Runs}, digest : Digests, expired : BOOLEAN]

MediaTypeOK ==
    /\ rows \subseteq MediaRows
    /\ artifacts \subseteq [run : Runs, digest : Digests]
    /\ files \subseteq Digests
    /\ \A r \in Runs : job[r].pc \in Phases /\ job[r].outcome \in Archivals /\ job[r].used \in 0 .. Budget
    /\ workdirs \subseteq Runs
    /\ purge.step \in {"idle", "artifacts", "rows"} /\ purge.selected \subseteq MediaRows

(* The unexpired rows never account for more than the budget, however many *)
(* attempts looked at it before any of them reserved, and each of them is  *)
(* within the item cap and has its bytes in the store, wherever an attempt *)
(* failed or died (archive_video, reserve_media_archive).  The types hold. *)
BudgetHolds ==
    /\ MediaTypeOK
    /\ UsedBytes <= Budget
    /\ \A m \in Unexpired : Length[m.digest] <= MaxItem /\ m.digest \in files

(* A call of delete_expired_media that returns leaves no row it selected   *)
(* and no artifact row of one, whatever was reserved or expired between    *)
(* its three statements; and none of them takes a row that still counts.   *)
(* A row that expires after the first statement goes without its digest in *)
(* the list, and an unexpired row may lose its artifact row to an expired  *)
(* one with the same bytes: the property permits both, for the code does   *)
(* both.                                                                   *)
PurgeFinishesWhatItSelected ==
    [][/\ purge' # purge => Unexpired \subseteq rows'
       /\ PurgeRows => \A m \in purge.selected :
            m \notin rows' /\ [run |-> m.run, digest |-> m.digest] \notin artifacts']_mediaVars
=============================================================================
