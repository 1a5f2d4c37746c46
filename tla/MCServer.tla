------------------------------ MODULE MCServer ------------------------------
(***************************************************************************)
(* The server on a small instance: paths of every kind the routes and the  *)
(* clean path tell apart, two users of whom one has two passwords.         *)
(***************************************************************************)
EXTENDS Server

TwoUsers == << <<"u", "p1">>, <<"v", "q">>, <<"u", "p2">> >>

KeyPath == <<"/", "streams", "/", "a">>

\* Creating and publishing with every credential; a request for every other
\* answer; and those that are redirected once or, by way of http, twice.
Requests ==
  [method : {"POST", "PUT"}, path : {KeyPath, <<"/", "streams">>}, proto : {"https"},
   cred : {<< >>, <<"u", "p2">>, <<"v", "p1">>}]
  \cup
  [method : {"GET"}, proto : {"https"}, cred : {<< >>},
   path : {<<"/">>, <<"/", "health">>, <<"/", "streams", "/">>, KeyPath, KeyPath \o <<"/">>,
           <<"/", "streams", "/", "\n">>, <<"/", "streams", "/", "/", "a">>}]
  \cup
  [method : {"PUT", "CONNECT"}, proto : {"http"}, cred : {<<"u", "p2">>},
   path : {KeyPath \o <<"/", "..">>}]
=============================================================================
