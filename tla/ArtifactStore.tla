--------------------------- MODULE ArtifactStore ---------------------------
(***************************************************************************)
(* A response body on its way into the content-addressed store:            *)
(* store_response of crates/safe-fetch (limits on wire and decoded bytes)  *)
(* over BlobStore::store (staging file, hard link at the digest, removal   *)
(* of the staging file), for concurrent calls on one store root, with      *)
(* cancelled calls, failing file operations and process crashes.           *)
(*                                                                         *)
(* A body is a model value with its sizes; what is read of it, written or  *)
(* hashed, is a prefix.  A staging file is named by its call, for the code *)
(* draws a fresh UUID.  Dropping a future stops the call, but a file       *)
(* operation that tokio already handed to its blocking pool still happens. *)
(*                                                                         *)
(* The decoders stop at the end of the first gzip member, zstd frame or    *)
(* brotli stream, so an encoded body may go on behind what is decoded.     *)
(***************************************************************************)
EXTENDS Faults

CONSTANTS Calls,       \* calls of store_response
          Bodies,      \* response bodies
          WireSize,    \* encoded size of each body
          MemberWire,  \* encoded size of its first member; all of an identity body
          PlainSize,   \* decoded size of its first member
          Declared,    \* bodies that come with a Content-Length
          MaxWire,     \* fetch.max_wire_bytes
          MaxDecoded,  \* fetch.max_decoded_bytes
          MaxChunk     \* bound on what one read returns

ASSUME StoreAssumption ==
    /\ {WireSize, MemberWire, PlainSize} \subseteq [Bodies -> Nat]
    /\ \A b \in Bodies : MemberWire[b] <= WireSize[b] /\ (PlainSize[b] > 0 => MemberWire[b] > 0)
    /\ Declared \subseteq Bodies
    /\ {MaxWire, MaxDecoded, MaxChunk} \subseteq Nat

VARIABLES call,     \* the local state of each call
          staging,  \* call -> bytes in its staging file, for files that exist
          blobs     \* digest path -> what the file there holds

storeVars == <<call, staging, blobs, faults>>

Whole(b) == [body |-> b, bytes |-> PlainSize[b]]

Prefixes == [body : Bodies, bytes : 0 .. MaxDecoded]

Outcomes == {"none", "Fresh", "DeclaredBodyTooLarge", "UnsupportedEncoding", "WireBodyTooLarge",
             "DecodedBodyTooLarge", "MalformedEncoding", "TimeoutReadIdle", "Artifact", "Cancelled", "Crashed"}

Phases == {"idle", "head", "first", "create", "copy", "sync", "link", "unlink", "compare", "discard", "done"}

Put(f, k, v) == [x \in DOMAIN f \cup {k} |-> IF x = k THEN v ELSE f[x]]

Cut(f, k) == [x \in DOMAIN f \ {k} |-> f[x]]

StoreInit ==
    /\ \E b \in Bodies : call = [c \in Calls |->
            [pc |-> "idle", body |-> b, wire |-> 0, decoded |-> 0, outcome |-> "none"]]
    /\ staging = << >>
    /\ blobs = << >>
    /\ faults = 0

End(c, outcome) == call' = [call EXCEPT ![c].pc = "done", ![c].outcome = outcome]

Goto(c, pc) == call' = [call EXCEPT ![c].pc = pc]

(* The discarded result of remove_file: the file goes, or it stays. *)
Discard(c) == \/ staging' = Cut(staging, c) /\ UNCHANGED faults
              \/ Fault /\ UNCHANGED staging

(* A 2xx answer with body b arrives. *)
Arrive(c, b) ==
    /\ call[c].pc = "idle"
    /\ call' = [call EXCEPT ![c].pc = "head", ![c].body = b]
    /\ UNCHANGED <<staging, blobs, faults>>

(* The checks before a byte is read: the declared length and the encoding. *)
CheckHead(c) ==
    /\ call[c].pc = "head"
    /\ IF call[c].body \in Declared /\ WireSize[call[c].body] > MaxWire
       THEN End(c, "DeclaredBodyTooLarge")
       ELSE Goto(c, "first") \/ End(c, "UnsupportedEncoding")
    /\ UNCHANGED <<staging, blobs, faults>>

(* One read_decoded: it pulls wire chunks and yields decoded bytes.  It    *)
(* yields nothing only at the end of the first member; what the body holds *)
(* behind it comes along in the last chunks or is never pulled.            *)
Reads(c) ==
    LET b == call[c].body
    IN  {r \in [wire : 0 .. MaxChunk, plain : 0 .. MaxChunk] :
            /\ call[c].wire + r.wire <= WireSize[b]
            /\ call[c].decoded + r.plain <= PlainSize[b]
            /\ r.plain > 0 => call[c].wire + r.wire > 0
            /\ r.plain = 0 => call[c].wire + r.wire >= MemberWire[b] /\ call[c].decoded = PlainSize[b]}

(* The wire counter passes its limit while the read pulls chunks. *)
OverWire(c, r) == call[c].wire + r.wire > MaxWire

(* The first read, into a prefix one byte longer than the decoded limit    *)
(* permits, before anything is stored.  The wire flag is looked at before  *)
(* the result of the read.                                                 *)
FirstRead(c) ==
    /\ call[c].pc = "first"
    /\ \/ \E e \in {"MalformedEncoding", "TimeoutReadIdle"} : End(c, e)
       \/ \E r \in Reads(c) :
            IF OverWire(c, r) THEN End(c, "WireBodyTooLarge")
            ELSE IF r.plain > MaxDecoded THEN End(c, "DecodedBodyTooLarge")
            ELSE call' = [call EXCEPT ![c].pc = "create", ![c].wire = @ + r.wire, ![c].decoded = r.plain]
    /\ UNCHANGED <<staging, blobs, faults>>

(* File::create in the staging directory; the prefix is the first chunk. *)
Create(c) ==
    /\ call[c].pc = "create"
    /\ \/ /\ staging' = Put(staging, c, call[c].decoded)
          /\ Goto(c, "copy")
          /\ UNCHANGED faults
       \/ Fault /\ End(c, "Artifact") /\ UNCHANGED staging
    /\ UNCHANGED blobs

(* Variant: a failed stream ends the copy like the end of the body. *)
Copy_ErrorIsEnd(c) ==
    /\ call[c].pc = "copy"
    /\ \/ Goto(c, "sync") /\ UNCHANGED staging
       \/ \E r \in Reads(c) :
            /\ r.plain > 0 /\ ~OverWire(c, r) /\ call[c].decoded + r.plain <= MaxDecoded
            /\ staging' = [staging EXCEPT ![c] = @ + r.plain]
            /\ call' = [call EXCEPT ![c].wire = @ + r.wire, ![c].decoded = @ + r.plain]
    /\ UNCHANGED <<blobs, faults>>

(* Variant: a chunk that could not be written is hashed all the same. *)
Copy_WriteIgnored(c) ==
    /\ call[c].pc = "copy"
    /\ \E r \in Reads(c) :
        IF r.plain = 0 THEN Goto(c, "sync") /\ UNCHANGED <<staging, faults>>
        ELSE /\ \/ staging' = [staging EXCEPT ![c] = @ + r.plain] /\ UNCHANGED faults
                \/ Fault /\ UNCHANGED staging
             /\ call' = [call EXCEPT ![c].wire = @ + r.wire, ![c].decoded = @ + r.plain]
    /\ UNCHANGED blobs

(* The copy loop of store: one item of the stream.  A failed item and a    *)
(* failed write both discard the staging file.                             *)
Copy(c) ==
    /\ call[c].pc = "copy"
    /\ \/ \E e \in {"MalformedEncoding", "TimeoutReadIdle"} : End(c, e) /\ Discard(c)
       \/ Fault /\ End(c, "Artifact") /\ staging' \in {staging, Cut(staging, c)}
       \/ \E r \in Reads(c) :
            IF OverWire(c, r) THEN End(c, "WireBodyTooLarge") /\ Discard(c)
            ELSE IF r.plain = 0 THEN Goto(c, "sync") /\ UNCHANGED <<staging, faults>>
            ELSE IF call[c].decoded + r.plain > MaxDecoded THEN End(c, "DecodedBodyTooLarge") /\ Discard(c)
            ELSE /\ staging' = [staging EXCEPT ![c] = @ + r.plain]
                 /\ call' = [call EXCEPT ![c].wire = @ + r.wire, ![c].decoded = @ + r.plain]
                 /\ UNCHANGED faults
    /\ UNCHANGED blobs

(* flush, sync_all and the digest directory.  These failures return with   *)
(* the staging file in place.                                              *)
Sync(c) ==
    /\ call[c].pc = "sync"
    /\ \/ Goto(c, "link") /\ UNCHANGED faults
       \/ Fault /\ End(c, "Artifact")
    /\ UNCHANGED <<staging, blobs>>

(* The digest path that the hasher computed for the bytes of the call. *)
Digest(c) == [body |-> call[c].body, bytes |-> call[c].decoded]

(* hard_link from the staging file to the digest path. *)
Link(c) ==
    /\ call[c].pc = "link"
    /\ \/ /\ Digest(c) \notin DOMAIN blobs
          /\ blobs' = Put(blobs, Digest(c), [body |-> call[c].body, bytes |-> staging[c]])
          /\ Goto(c, "unlink")
          /\ UNCHANGED <<staging, faults>>
       \/ /\ Digest(c) \in DOMAIN blobs
          /\ Goto(c, "compare")
          /\ UNCHANGED <<staging, blobs, faults>>
       \/ /\ Fault
          /\ End(c, "Artifact")
          /\ staging' \in {staging, Cut(staging, c)}
          /\ UNCHANGED blobs

(* remove_file of the linked staging file; its failure fails the call. *)
Unlink(c) ==
    /\ call[c].pc = "unlink"
    /\ \/ staging' = Cut(staging, c) /\ End(c, "Fresh") /\ UNCHANGED faults
       \/ Fault /\ End(c, "Artifact") /\ UNCHANGED staging
    /\ UNCHANGED blobs

(* What the comparison found, kept until the staging file is gone. *)
Verified(c, outcome) == call' = [call EXCEPT ![c].pc = "discard", ![c].outcome = outcome]

(* Variant: an existing digest path is believed. *)
Compare_Believed(c) ==
    /\ call[c].pc = "compare"
    /\ Verified(c, "Fresh")
    /\ UNCHANGED <<staging, blobs, faults>>

(* verify_file of the existing file: it is open to read errors too. *)
Compare(c) ==
    /\ call[c].pc = "compare"
    /\ \/ /\ Verified(c, IF Digest(c) \in DOMAIN blobs /\ blobs[Digest(c)] = Digest(c) THEN "Fresh" ELSE "Artifact")
          /\ UNCHANGED faults
       \/ Fault /\ Verified(c, "Artifact")
    /\ UNCHANGED <<staging, blobs>>

(* After the comparison the staging file goes, and the call returns what   *)
(* was found.                                                              *)
Remove(c) ==
    /\ call[c].pc = "discard"
    /\ Goto(c, "done")
    /\ Discard(c)
    /\ UNCHANGED blobs

(* The total deadline drops the future between two operations, or while    *)
(* one is with the blocking pool, which completes it.                      *)
Cancel(c) ==
    /\ call[c].pc \notin {"idle", "done"}
    /\ Fault
    /\ End(c, "Cancelled")
    /\ \/ UNCHANGED <<staging, blobs>>
       \/ call[c].pc = "create" /\ staging' = Put(staging, c, 0) /\ UNCHANGED blobs
       \/ /\ call[c].pc = "link"
          /\ Digest(c) \notin DOMAIN blobs
          /\ blobs' = Put(blobs, Digest(c), [body |-> call[c].body, bytes |-> staging[c]])
          /\ UNCHANGED staging
       \/ call[c].pc \in {"unlink", "discard"} /\ staging' = Cut(staging, c) /\ UNCHANGED blobs

(* The process dies and starts again; prepare removes every staging file   *)
(* before any task runs.                                                   *)
Restart ==
    /\ Fault
    /\ call' = [c \in Calls |-> IF call[c].pc \in {"idle", "done"} THEN call[c]
                                ELSE [call[c] EXCEPT !.pc = "done", !.outcome = "Crashed"]]
    /\ staging' = << >>
    /\ UNCHANGED blobs

(* The file at a digest path loses its end: a fault of the medium. *)
Damage(d) ==
    /\ d \in DOMAIN blobs
    /\ blobs[d].bytes > 0
    /\ Fault
    /\ blobs' = [blobs EXCEPT ![d].bytes = @ - 1]
    /\ UNCHANGED <<call, staging>>

StoreNext ==
    \/ Restart
    \/ \E d \in DOMAIN blobs : Damage(d)
    \/ \E c \in Calls :
        \/ \E b \in Bodies : Arrive(c, b)
        \/ CheckHead(c) \/ FirstRead(c) \/ Create(c) \/ Copy(c) \/ Sync(c) \/ Link(c) \/ Unlink(c)
        \/ Compare(c) \/ Remove(c) \/ Cancel(c)

StoreSpec == StoreInit /\ [][StoreNext]_storeVars

---------------------------------------------------------------------------

StoreTypeOK ==
    /\ \A c \in Calls :
        /\ call[c].pc \in Phases
        /\ call[c].outcome \in Outcomes
        /\ call[c].wire \in 0 .. MaxWire
        /\ call[c].decoded \in 0 .. MaxDecoded
    /\ DOMAIN staging \subseteq Calls
    /\ \A c \in DOMAIN staging : staging[c] \in 0 .. MaxDecoded
    /\ DOMAIN blobs \subseteq Prefixes
    /\ \A d \in DOMAIN blobs : blobs[d] \in Prefixes

(* A file appears at a digest path only with exactly the bytes that have   *)
(* this digest, and once there no call changes it: not a call that fails   *)
(* or is dropped, nor a second call with the same body (BlobStore::store). *)
(* A damaged medium is the only thing that alters it.                      *)
BlobsAreImmutable ==
    [][\A d \in DOMAIN blobs' :
        \/ d \notin DOMAIN blobs /\ blobs'[d] = d
        \/ d \in DOMAIN blobs /\ blobs'[d] = blobs[d]
        \/ Damage(d)]_storeVars

(* A call that returns a reference had its digest path hold its bytes: it  *)
(* linked them there, or it read them there, whoever put them; a damaged   *)
(* file is refused.  The path then exists until the call returns           *)
(* (BlobStore::store).  The medium may damage the file after the link or   *)
(* the comparison, which no later step of the call looks at.               *)
ReferencesResolve ==
    [][\A c \in Calls :
        /\ call[c].pc = "link" /\ call'[c].pc = "unlink" => blobs'[Digest(c)] = Digest(c)
        /\ call[c].pc = "compare" /\ call'[c].outcome = "Fresh" =>
            Digest(c) \in DOMAIN blobs /\ blobs[Digest(c)] = Digest(c)
        /\ call[c].pc # "done" /\ call'[c].pc = "done" /\ call'[c].outcome = "Fresh" =>
            /\ call[c].pc = "unlink" \/ (call[c].pc = "discard" /\ call[c].outcome = "Fresh")
            /\ Digest(c) \in DOMAIN blobs]_storeVars

(* Whatever is published is the whole first member of a body, which fits   *)
(* both byte limits, by whatever reads it arrived and however its stream   *)
(* failed (store_response): no read that stops early gets a digest.  The   *)
(* rest of a body of several members is left out, and is held to no limit  *)
(* when no read pulls it.  The types hold.                                 *)
PublishedIsFirstMember ==
    /\ StoreTypeOK
    /\ \A d \in DOMAIN blobs : d = Whole(d.body) /\ MemberWire[d.body] <= MaxWire /\ PlainSize[d.body] <= MaxDecoded
=============================================================================
