--------------------------- MODULE MCExecutorCalls ---------------------------
(***************************************************************************)
(* Three applications, of which one cannot be loaded, and a fourth that    *)
(* was not prepared; requests of which each is about a few of the things   *)
(* that applications do.                                                   *)
(***************************************************************************)
EXTENDS ExecutorCalls, TLC

MCApps == 1 .. 3
MCLibrary == <<"object", "source", "noDispatcher", "nothing">>
MCPrepared == <<3, 1, 2>>
MCWays == ("owned" :> 0) @@ ("user" :> 1)
MCOwnerOf == ("owned" :> 1) @@ ("user" :> 2)
MCLength == ("pay" :> 3)

Request(callList, clocks, controlled, does, attached) ==
    [app |-> 1, callList |-> callList, maxClocks |-> clocks, controlled |-> controlled,
     does |-> does, declaresArg |-> "store" \notin does, attached |-> attached]

\* A user's message for one of its nonces, and one for the application's account, whose
\* bytes happen to be the key of somebody.
Paid(nonce, signed) ==
    [issuer |-> "user", text |-> TextFor("pay", 1, nonce), signed |-> signed]
Forged == [issuer |-> "owned", text |-> TextFor("pay", 1, NoNonce), signed |-> TRUE]

MCRequests ==
    {Request(<<1, 2>>, 24, TRUE, {"store", "fail"}, << >>),
     Request(<<1, 2, 3>>, 8, TRUE, {"lock", "defer"}, << >>),
     Request(<<1, 2>>, 8, TRUE, {"sign", "verify"}, << >>),
     \* The first nonce's message is attached twice, and once not signed.
     Request(<<1, 2>>, 16, TRUE, {"verify", "fail"},
             <<Paid(0, FALSE), Paid(0, TRUE), Forged, Paid(0, TRUE), Paid(1, TRUE)>>),
     Request(<<1, 2, 3>>, 0, FALSE, {"lock", "defer"}, << >>),
     Request(<<1>>, 0, FALSE, {"sign"}, << >>),
     Request(<<1>>, 8, TRUE, {"check", "sign"}, <<Paid(0, FALSE), Paid(0, TRUE)>>),
     Request(<<1>>, 4, TRUE, {"store", "check"}, << >>),
     Request(<<1>>, 4, TRUE, {"store", "verify"}, << >>),
     Request(<<1, 4>>, 8, TRUE, {"store"}, << >>)}

\* Nothing can fail here but the calls that take too long.
MCTimeoutRequests == {Request(<<1, 2>>, 8, TRUE, {"store"}, << >>)}
==============================================================================
