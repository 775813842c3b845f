---------------------------- MODULE MCSafeFetch ----------------------------
(* A small instance of SafeFetch: pages on two names, an address that may  *)
(* be fetched, and redirects that the policies refuse.                     *)
EXTENDS SafeFetch

CONSTANTS f1, f2

TwoFetches == {f1, f2}

Page == [absolute |-> TRUE, scheme |-> "https", host |-> <<"domain", <<"www", "reddit", "com">>>>, plain |-> TRUE,
         userinfo |-> FALSE, port |-> NoPort, path |-> <<"a">>, query |-> << <<"id", "id=1">> >>, fragment |-> FALSE]

Other == [Page EXCEPT !.host = <<"domain", <<"reddit", "com", "test">>>>, !.path = <<"a.pdf">>, !.query = <<>>]

(* Spellings of Page and Other, two URLs that are neither, and URLs that   *)
(* the intake refuses: its length is 4 parts.                              *)
Commands ==
    {Page,
     [Page EXCEPT !.query = << <<"utm_source", "utm_source=x">>, <<"id", "id=1">> >>, !.fragment = TRUE],
     [Page EXCEPT !.query = << <<"id", "id=1">>, <<"gclid", "gclid=x">>, <<"fbclid", "fbclid=y">> >>],
     [Page EXCEPT !.query = << <<"id", "id=1">>, <<"id", "id=2">>, <<"utm_term", "utm_term=y">> >>],
     [Page EXCEPT !.query = << <<"id", "id=2">>, <<"id", "id=1">> >>],
     [Page EXCEPT !.query = << <<"id", "%69d=2">>, <<"id", "id=1">> >>],
     [Page EXCEPT !.query = << <<"id", "id=1">>, <<"gclid", "gclid=x">>, <<"fbclid", "fbclid=y">>, <<"id", "id=2">> >>],
     [Other EXCEPT !.scheme = "http", !.query = << <<"utm_source", "utm_source=x">> >>, !.port = 80],
     [Other EXCEPT !.scheme = "http", !.query = << <<"", "">> >>],
     [Other EXCEPT !.scheme = "http"],
     [Other EXCEPT !.port = 8443],
     [Other EXCEPT !.userinfo = TRUE],
     [Other EXCEPT !.host = <<"v4", <<10, 0, 0, 1>>>>]}

Public == <<"v4", <<8, 8, 8, 8>>>>
Private == <<"v4", <<192, 168, 0, 1>>>>
MappedPrivate == <<"v6", <<Zero, Zero, Zero, Zero, Zero, <<255, 255>>, <<192, 168>>, <<0, 1>>>>>>

Targets ==
    {Page,
     [Other EXCEPT !.query = << <<"utm_source", "utm_source=x">> >>],
     [Other EXCEPT !.scheme = "ftp"],
     [Other EXCEPT !.host = <<"v4", <<1, 1, 1, 1>>>>],
     [Other EXCEPT !.host = MappedPrivate]}

(* An address of 2001::/23 outside the blocks that blocked_ipv6 names. *)
Unnamed == <<"v6", <<<<\h20, \h01>>, <<0, 5>>, Zero, Zero, Zero, Zero, Zero, <<0, 1>>>>>>

AnswerSets == {{}, {Public}, {Public, Private}, {Unnamed, MappedPrivate}, {Unnamed}}
=============================================================================
