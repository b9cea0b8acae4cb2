---------------------------- MODULE MCHttpWorker ----------------------------
(***************************************************************************)
(* Instances of HttpWorker.  The requests are one of each kind the worker  *)
(* tells apart: an upload that waits for "100 Continue", an upload whose   *)
(* framing breaks, a request without a body, and requests the worker       *)
(* refuses itself.                                                         *)
(***************************************************************************)
EXTENDS HttpWorker

Req(op, close, expect, framing, body) ==
    [op |-> op, close |-> close, expect |-> expect, framing |-> framing,
     body |-> body]

Upload == Req("PutObject", FALSE, "continue", "ok", <<"b", "b">>)
Garbled == Req("PutObject", FALSE, "none", "ok", <<"b", "x">>)
Plain == Req("PutObject", FALSE, "none", "ok", <<>>)
LastOne == Req("PutObject", TRUE, "none", "ok", <<>>)
BadExpect == Req("PutObject", FALSE, "bad", "ok", <<>>)
TooLarge == Req("PutObject", FALSE, "none", "bad", <<"b">>)
Short == Req("PutObject", FALSE, "none", "ok", <<"b">>)

AllRequests == {Upload, Garbled, Plain, LastOne, BadExpect, TooLarge, Short}
AllBatches ==
    {<<r>> : r \in AllRequests \ {Short, Plain}} \cup {<<Short, Plain>>}
=============================================================================
