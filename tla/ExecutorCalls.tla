--------------------------- MODULE ExecutorCalls ---------------------------
(***************************************************************************)
(* Executor::executeOne: one request, and the calls its applications make. *)
(* A controlled request runs every call in a thread of its own, with a     *)
(* share of the gas, a timer and a saved version of the heap; a failed     *)
(* call is an answer to its caller.  An optimistic request runs all calls  *)
(* in one thread, and a failed call is the end of the block.               *)
(*                                                                         *)
(* Of the heap there are the nonces, and one block that stands for all     *)
(* that applications store in; both are the version lists of the modifier. *)
(* Applications do whatever argC lets them.  The handler of a signal       *)
(* decides on what guardedArea and the signal mask are at that moment; a   *)
(* timer that expires while they are being changed may end the process.    *)
(***************************************************************************)
EXTENDS VirtualSignatures, VersionLists, AppTables

CONSTANTS Prepared,     \* the applications given to prepareApps
          Forwards,     \* bytes an application passes as forwarded_gas
          MaxDepth,     \* MAX_CALL_DEPTH
          MinClocks,    \* min_clocks
          MaxVersion,   \* MAX_VERSION
          Requests,     \* [app, callList, maxClocks, controlled, does, declaresArg, attached]
          MaxCalls,     \* bound of the model: handlers made for a request
          MaxDeferred,  \* bound of the model: deferred calls of a context
          MaxMessages,  \* bound of the model: messages signed
          MaxFrames     \* bound of the model: nested contexts

NoApp == 0    \* the application of executeOne's own context

ASSUME ExecutorCallsAssumption ==
    /\ Apps \subseteq Int /\ NoApp \notin Apps /\ Listed(Prepared) \subseteq DOMAIN Library
    /\ Forwards \subseteq 0 .. 255
    /\ MaxDepth \in Nat \ {0} /\ MinClocks \in Nat /\ MaxVersion \in Nat
    /\ MaxCalls \in Nat /\ MaxDeferred \in Nat /\ MaxMessages \in Nat
    /\ MaxFrames \in Nat
    /\ \A r \in Requests :
          /\ r.maxClocks \in Nat /\ r.app \in Apps
          /\ r.controlled \in BOOLEAN /\ r.declaresArg \in BOOLEAN
          /\ r.attached \in Seq([issuer : Accounts, text : Texts, signed : BOOLEAN])
          /\ r.callList \in Seq(Int)
          /\ \A i, j \in DOMAIN r.callList : i < j => r.callList[i] < r.callList[j]

VARIABLES request,
          frames,          \* the CallContexts; the first is that of executeOne
          resources,       \* the CallResourceHandlers that are alive
          callDepth,       \* of FailureManager
          lastGeneratedID, \* of FailureManager
          isLocked,
          context,         \* the application the heap modifier is loaded for
          currentVersion,  \* of the heap modifier
          heap,            \* version lists: of the marks of who has stored, and of nonces
          guardedArea,
          granted,         \* history: gas of all the threads that were started
          failed,          \* history: ids of calls that were taken back
          outcome          \* running, done, or how the session was lost

vars == <<request, frames, resources, callDepth, lastGeneratedID, isLocked, context,
          currentVersion, heap, guardedArea, granted, failed, outcome, sigVars>>

\* A context and the thread it is called in.  The timer belongs to the thread, and
\* so does blocked, the signal mask.
Frame(app, kind, timer) ==
    [app |-> app, kind |-> kind, pc |-> IF kind = "root" THEN "start" ELSE "entering",
     hasLock |-> FALSE, deferred |-> << >>,
     timer |-> timer, blocked |-> timer = "armed" /\ kind = "call", ok |-> TRUE]

Handler(id, gas, external) ==
    [id |-> id, gas |-> gas, remaining |-> external, external |-> external,
     before |-> granted, version |-> currentVersion]

\* The call table of a request.
AppCache == PrepareApps(<< >>, Prepared)
Table == BuildAppTable(AppCache, request.callList)

\* What executeOne makes for itself: a context, and a handler with all of the gas.
RootContext == Frame(NoApp, "root", IF request.controlled THEN "none" ELSE "armed")
RootHandler == Handler(1, 0, request.maxClocks)

Init ==
    /\ request \in Requests
    /\ frames = <<RootContext>>
    /\ callDepth = IF request.controlled THEN 1 ELSE 0
    /\ lastGeneratedID = callDepth
    /\ isLocked = [a \in Apps |-> FALSE]
    /\ context = NoApp
    /\ currentVersion = 0
    /\ heap = [stored |-> << >>,
               nonce |-> [c \in Accounts |-> [w \in NonceTable[c] |-> << >>]]]
    /\ guardedArea = FALSE
    /\ granted = 0
    /\ failed = {}
    \* The request is made from what the block declares for it.
    /\ outcome = IF CanBuild(AppCache, request.callList) THEN "running" ELSE "blockError"
    /\ messages = SigManagerFor(request.attached)
    /\ cost = 0
    /\ accepted = [once |-> << >>, again |-> {}]
    /\ resources = IF request.controlled THEN <<RootHandler>> ELSE << >>
-----------------------------------------------------------------------------
(* The stack *)

Depth == Len(frames)
Top == frames[Depth]
Resources == resources[Len(resources)]

Pop(s) == SubSeq(s, 1, Len(s) - 1)

\* The frame at which the running thread begins.  Deferred calls, and all calls of an
\* optimistic request, run in the thread of their caller.
ThreadOf(fs) ==
    IF request.controlled
    THEN CHOOSE i \in DOMAIN fs :
            fs[i].kind # "deferred" /\ \A j \in i + 1 .. Len(fs) : fs[j].kind = "deferred"
    ELSE 1
Base == ThreadOf(frames)

At(pc) == outcome = "running" /\ Top.pc = pc
Does(what) == At("app") /\ what \in request.does

\* maskSignals
Masked(fs, thread, blocked) ==
    IF request.controlled THEN [fs EXCEPT ![thread].blocked = blocked] ELSE fs

\* unGuard_ lets signals in before it leaves the guarded area: a signal that is
\* pending calls std::terminate.
UnGuard(fs, thread) ==
    \/ ~request.controlled
       /\ frames' = fs /\ UNCHANGED <<guardedArea, outcome>>
    \/ request.controlled /\ fs[thread].timer # "pending"
       /\ frames' = Masked(fs, thread, FALSE)
       /\ guardedArea' = FALSE /\ UNCHANGED outcome
    \/ request.controlled /\ fs[thread].timer = "pending"
       /\ frames' = fs /\ outcome' = "terminated" /\ UNCHANGED guardedArea

Guarded(fs, thread) ==
    /\ frames' = Masked(fs, thread, TRUE)
    /\ guardedArea' = request.controlled
    /\ UNCHANGED outcome

\* No lock is released.
LocksKept(first) == isLocked

\* The locks once the contexts from some depth on are gone.
LocksWithout(first) ==
    [a \in Apps |-> isLocked[a] /\ ~\E i \in first .. Depth : frames[i].hasLock /\ frames[i].app = a]

\* The session ends at once.
Lose(how) ==
    /\ outcome' = how
    /\ UNCHANGED <<frames, guardedArea, isLocked, context>>

\* The frames once an error has left the first dependant_call of the thread: the
\* destructors of its contexts have run, and their guards have ended.
Unwound(fs) ==
    [SubSeq(fs, 1, Base) EXCEPT ![Base].pc = "returning", ![Base].ok = FALSE,
                                ![Base].hasLock = FALSE, ![Base].deferred = << >>]

FailFrom(fs) ==
    \/ /\ request.controlled
       /\ UnGuard(Unwound(fs), Base)
       /\ isLocked' = LocksWithout(Base)
       /\ context' = frames[Base - 1].app
    \/ /\ ~request.controlled
       /\ Lose("blockError")

handlerVars == <<resources, callDepth, lastGeneratedID, currentVersion, granted, failed>>
-----------------------------------------------------------------------------
(* executeApp: beginning a call *)

\* executeOne calls the application of the request; applications call any other.
Calls(app, forwarded) ==
    \/ At("app") /\ forwarded \in Forwards
    \/ At("start") /\ app = request.app /\ forwarded = 255

GasFor(forwarded) == (Resources.remaining * forwarded) \div 256

\* The caller keeps what it forwards.
ForwardingNothing(gas) == resources

Forwarding(gas) == [resources EXCEPT ![Len(resources)].remaining = @ - gas]

\* calculateExternalGas
ExternalGas(gas) == (2 * gas) \div 3

AfterCall(i) == IF frames[i].kind = "root" THEN "returned" ELSE "app"

NextInvocation ==
    /\ lastGeneratedID' = lastGeneratedID + 1
    /\ callDepth' = callDepth + 1

\* getStackSize
TooDeep == callDepth + 1 > MaxDepth

\* The constructor of the CallResourceHandler throws before it changes anything.
InvokeWithoutGas(app, forwarded) ==
    /\ Calls(app, forwarded) /\ request.controlled
    /\ GasFor(forwarded) <= MinClocks
    /\ UnGuard([frames EXCEPT ![Depth].pc = AfterCall(Depth)], Base)
    /\ UNCHANGED <<request, handlerVars, isLocked, context, heap, sigVars>>

\* saveVersion throws: the destructor of the handler does not run, and
\* currentResources points to what was on the stack.
InvokeWithoutVersion(app, forwarded) ==
    /\ Calls(app, forwarded)
    /\ currentVersion = MaxVersion
    /\ \/ ~request.controlled /\ Lose("blockError")
       \/ request.controlled /\ GasFor(forwarded) > MinClocks /\ Lose("danglingResources")
    /\ UNCHANGED <<request, handlerVars, heap, sigVars>>

\* getStackSize throws: the handler is destroyed, the gas is not given back.
InvokeTooDeep(app, forwarded) ==
    /\ Calls(app, forwarded) /\ request.controlled
    /\ GasFor(forwarded) > MinClocks /\ currentVersion < MaxVersion
    /\ TooDeep /\ lastGeneratedID < MaxCalls
    /\ lastGeneratedID' = lastGeneratedID + 1
    /\ resources' = Forwarding(GasFor(forwarded))
    /\ context' = Top.app
    /\ UnGuard([frames EXCEPT ![Depth].pc = AfterCall(Depth)], Base)
    /\ UNCHANGED <<request, callDepth, currentVersion, granted, failed, isLocked, heap, sigVars>>

\* The thread of the callee inherits the mask of its caller, and its timer is set.
Invoke(app, forwarded) ==
    /\ Calls(app, forwarded) /\ request.controlled
    /\ GasFor(forwarded) > MinClocks /\ currentVersion < MaxVersion
    /\ ~TooDeep
    /\ lastGeneratedID < MaxCalls /\ Depth < MaxFrames
    /\ NextInvocation
    /\ resources' = Append(Forwarding(GasFor(forwarded)),
                           Handler(lastGeneratedID + 1, GasFor(forwarded),
                                   ExternalGas(GasFor(forwarded))))
    /\ currentVersion' = currentVersion + 1
    /\ granted' = granted + GasFor(forwarded)
    /\ Guarded(Append([frames EXCEPT ![Depth].pc = "waiting"], Frame(app, "call", "armed")), Base)
    /\ UNCHANGED <<request, isLocked, context, failed, heap, sigVars>>

\* OptimisticCaller::executeApp
InvokeOptimistic(app, forwarded) ==
    /\ Calls(app, forwarded) /\ ~request.controlled
    /\ currentVersion < MaxVersion /\ Depth < MaxFrames
    /\ resources' = Append(resources, Handler(0, 0, 0))
    /\ currentVersion' = currentVersion + 1
    /\ Guarded(Append([frames EXCEPT ![Depth].pc = "waiting"], Frame(app, "call", "none")), Base)
    /\ UNCHANGED <<request, callDepth, lastGeneratedID, granted, failed, isLocked, context,
                   heap, sigVars>>
-----------------------------------------------------------------------------
(* dependant_call, in the thread of the callee *)

Exists == CheckApp(Table, Top.app) = "ok"

\* The constructor of the CallContext
CallsSelf == Top.app = frames[Depth - 1].app

Accepts == Exists /\ ~CallsSelf

\* The code of the application begins in the guarded area.
EnterGuarded ==
    /\ At("entering") /\ Accepts
    /\ context' = Top.app
    /\ frames' = [frames EXCEPT ![Depth].pc = "app"]
    /\ UNCHANGED <<request, handlerVars, guardedArea, outcome, isLocked, heap, sigVars>>

\* The CallContext is made, and its code begins in the destructor of the guard.
Enter ==
    /\ At("entering") /\ Accepts
    /\ context' = Top.app
    /\ UnGuard([frames EXCEPT ![Depth].pc = "app"], Base)
    /\ UNCHANGED <<request, handlerVars, isLocked, heap, sigVars>>

\* There is no context yet.  The thread of a call ends with an error, in its guarded
\* area; a deferred call takes the one that deferred it along.
EnterRefused ==
    /\ At("entering") /\ ~Accepts
    /\ IF request.controlled /\ Top.kind = "call"
       THEN /\ frames' = [frames EXCEPT ![Depth].pc = "returning", ![Depth].ok = FALSE]
            /\ UNCHANGED <<guardedArea, outcome, isLocked, context>>
       ELSE FailFrom(frames)
    /\ UNCHANGED <<request, handlerVars, heap, sigVars>>

SetLock(held) ==
    /\ isLocked' = [isLocked EXCEPT ![Top.app] = held]
    /\ frames' = [frames EXCEPT ![Depth].hasLock = held]

EnterArea ==
    /\ Does("lock") /\ ~Top.hasLock
    /\ IF isLocked[Top.app]
       THEN FailFrom(frames)
       ELSE SetLock(TRUE) /\ UNCHANGED <<guardedArea, outcome, context>>
    /\ UNCHANGED <<request, handlerVars, heap, sigVars>>

ExitArea ==
    /\ Does("lock") /\ Top.hasLock
    /\ SetLock(FALSE)
    /\ UNCHANGED <<request, handlerVars, guardedArea, outcome, context, heap, sigVars>>

\* What a load finds in the heap: the marks of the calls that have stored in it, and
\* the nonces.
View == Seen(heap.stored, currentVersion, {})
NonceOf(account, way) == Seen(heap.nonce[account][way], currentVersion, 0)

Load ==
    /\ Does("store")
    /\ heap' = [heap EXCEPT !.stored = SyncTo(@, currentVersion)]
    /\ UNCHANGED <<request, handlerVars, frames, guardedArea, outcome, isLocked, context, sigVars>>

\* Any store into the heap, marked with the call that makes it.
Store ==
    /\ Does("store")
    /\ heap' = [heap EXCEPT !.stored = WithLast(@, currentVersion, View \cup {Resources.id})]
    /\ UNCHANGED <<request, handlerVars, frames, guardedArea, outcome, isLocked, context, sigVars>>

InvokeDeferred(app) ==
    /\ Does("defer") /\ Len(Top.deferred) < MaxDeferred /\ Depth < MaxFrames
    /\ frames' = [frames EXCEPT ![Depth].deferred = Append(@, app)]
    /\ UNCHANGED <<request, handlerVars, guardedArea, outcome, isLocked, context, heap, sigVars>>

\* revert, a status of 400 or more, a refused access of the heap.
AppFails ==
    /\ Does("fail")
    /\ FailFrom(frames)
    /\ UNCHANGED <<request, handlerVars, heap, sigVars>>

\* The application returns: the lock is released before the deferred calls are made.
Return ==
    /\ At("app")
    /\ frames' = [frames EXCEPT ![Depth].pc = "finishing", ![Depth].hasLock = FALSE]
    /\ isLocked' = LocksWithout(Depth)
    /\ UNCHANGED <<request, handlerVars, guardedArea, outcome, context, heap, sigVars>>

StartDeferred ==
    /\ At("finishing") /\ Top.deferred # << >>
    /\ Guarded(Append([frames EXCEPT ![Depth].deferred = Tail(@)],
                      Frame(Head(Top.deferred), "deferred", "none")), Base)
    /\ UNCHANGED <<request, handlerVars, isLocked, context, heap, sigVars>>

\* The heap modifier stays loaded for the callee.
RestoreNothing == UNCHANGED context

\* ~CallContext, and once more the destructor of the handler.
RestoreContext == context' = frames[Depth - 1].app

\* The CallContext is destroyed.  In a thread of its own the call is answered; a
\* deferred or an optimistic call is where its caller goes on.
LeaveContext ==
    /\ At("finishing") /\ Top.deferred = << >>
    /\ RestoreContext
    /\ IF Top.kind = "deferred"
       THEN UNCHANGED handlerVars /\ frames' = Pop(frames)
       ELSE IF request.controlled
       THEN UNCHANGED handlerVars /\ frames' = [frames EXCEPT ![Depth].pc = "returning"]
       ELSE /\ resources' = Pop(resources)
            /\ frames' = [Pop(frames) EXCEPT ![Depth - 1].pc = AfterCall(Depth - 1)]
            /\ UNCHANGED <<callDepth, lastGeneratedID, currentVersion, granted, failed>>
    /\ UNCHANGED <<request, guardedArea, outcome, isLocked, heap, sigVars>>
-----------------------------------------------------------------------------
(* executeApp: the end of a call *)

\* Ids are given in the order in which calls begin: those from the failed call's on
\* are its own and its callees'.
TakenBack == Resources.id .. lastGeneratedID

\* A failed call is completed.
SettleAll ==
    /\ failed' = IF Top.ok THEN failed ELSE failed \cup TakenBack
    /\ UNCHANGED currentVersion

\* The call was completed, or the version it has saved is restored: its number is
\* current again, and what the call has stored stays in the lists.
Settle ==
    IF Top.ok
    THEN UNCHANGED <<currentVersion, failed>>
    ELSE /\ currentVersion' = Resources.version
         /\ failed' = failed \cup TakenBack

\* The call is counted for ever.
CompleteNothing == UNCHANGED callDepth

CompleteInvocation == callDepth' = callDepth - 1

\* The thread is joined, its handler is destroyed.  The status decides.
Join ==
    /\ At("returning")
    /\ resources' = Pop(resources)
    /\ CompleteInvocation
    /\ RestoreContext
    /\ Settle
    /\ UnGuard([Pop(frames) EXCEPT ![Depth - 1].pc = AfterCall(Depth - 1)],
               ThreadOf(Pop(frames)))
    /\ UNCHANGED <<request, lastGeneratedID, granted, isLocked, heap, sigVars>>

\* writeToHeap and the response; then the version lists are gone with the session.
Finish ==
    /\ At("returned")
    /\ outcome' = "done"
    /\ UNCHANGED <<request, handlerVars, frames, guardedArea, isLocked, context, heap, sigVars>>
-----------------------------------------------------------------------------
(* Signatures *)

\* virtual_sign and verifyByAccount load the context of the ARG application.  If the
\* request declares none of its chunks, chunks becomes a null pointer there, and
\* loadChunk follows it; of the three functions only verify_by_acc is not guarded.
LoadsNoChunks ==
    /\ ~request.declaresArg
    /\ \/ /\ Does("sign") \/ Does("verify")
          /\ Lose(IF request.controlled THEN "terminated" ELSE "blockError")
       \/ Does("check") /\ FailFrom(frames)
    /\ UNCHANGED <<request, handlerVars, heap, sigVars>>

LoadsArgContext(what) == Does(what) /\ request.declaresArg

\* The heap once some nonces of an account were loaded.
Reading(account, ways) ==
    [heap EXCEPT !.nonce[account] =
        [w \in DOMAIN @ |-> IF w \in ways THEN SyncTo(@[w], currentVersion) ELSE @[w]]]

\* The decision nonce is always loaded; an account with one nonce has no other.
DecisionNonce(account) == {w \in NonceTable[account] : Ways[account] = 1}

\* virtual_sign: an application signs a text for an account it owns.
VirtualSign(account, body, spender) ==
    LET text == TextFor(body, spender, NoNonce)
    IN  /\ LoadsArgContext("sign") /\ Len(messages) < MaxMessages
        /\ heap' = Reading(account, DecisionNonce(account))
        /\ \/ /\ ~OwnedByApp(account) \/ OwnerOf[account] # Top.app
              /\ FailFrom(frames) /\ UNCHANGED sigVars
           \/ /\ OwnedByApp(account) /\ OwnerOf[account] = Top.app
              /\ Sign(text, account)
              /\ UNCHANGED <<frames, guardedArea, outcome, isLocked, context, accepted>>
           \* What sign throws is no Executor::Error: it leaves the thread of the call.
           \/ /\ OwnedByApp(account) /\ OwnerOf[account] = Top.app
              /\ TooManySignatures(text)
              /\ Lose(IF request.controlled THEN "terminated" ELSE "blockError")
              /\ cost' = CostAfter(text) /\ UNCHANGED <<messages, accepted>>
        /\ UNCHANGED <<request, handlerVars>>

\* History: what verify_by_acc_once and verify_by_acc have answered with true, and for
\* what is used up by it, in which call.
AcceptOnce(account, text, index) ==
    accepted' = [accepted EXCEPT !.once =
        Append(@, [index |-> index, issuer |-> account, text |-> text, by |-> Resources.id])]

AcceptAgain(account, text, index) ==
    accepted' = [accepted EXCEPT !.again =
        @ \cup {[index |-> index, issuer |-> account, text |-> text]}]

appVars == <<request, handlerVars, frames, guardedArea, outcome, isLocked, context>>

\* An empty message is accepted for any account, and whatever the index is: nothing is
\* verified and nothing used up.
VerifyEmpty(account) ==
    /\ LoadsArgContext("verify") \/ LoadsArgContext("check")
    /\ heap' = Reading(account, DecisionNonce(account))
    /\ AcceptAgain(account, Used, 0)
    /\ UNCHANGED <<appVars, messages, cost>>

\* verify_by_acc: the message is compared as it is, with the spender and the nonce that
\* its sender has put into it, and can be verified again.
VerifyByAcc(index) ==
    LET account == messages[index].issuer
    IN  /\ LoadsArgContext("check") /\ messages[index].text # Used
        /\ heap' = Reading(account, DecisionNonce(account))
        /\ VerifyOnly(messages[index].text, account, index)
        /\ AcceptAgain(account, messages[index].text, index)
        /\ UNCHANGED appVars

\* verify_by_acc_once returns true: for an account of an application the message is
\* used up, for a user's account its nonce.
VerifyByApp(account, body, index) ==
    LET text == TextFor(body, Top.app, NoNonce)
    IN  /\ LoadsArgContext("verify") /\ OwnedByApp(account)
        /\ VerifyAndInvalidate(text, account, index)
        /\ AcceptOnce(account, text, index)
        /\ UNCHANGED <<appVars, heap>>

VerifyWithNonce(account, body, index) ==
    LET slot == NonceSlot(account, body)
        nonce == NonceOf(account, slot)
        text == TextFor(body, Top.app, nonce)
    IN  /\ LoadsArgContext("verify") /\ ~OwnedByApp(account) /\ nonce < NonceMax
        /\ VerifyOnly(text, account, index)
        /\ AcceptOnce(account, text, index)
        /\ heap' = [heap EXCEPT !.nonce[account][slot] = WithLast(@, currentVersion, nonce + 1)]
        /\ UNCHANGED appVars

\* A wrong index is answered with false by either function, once the nonce was loaded.
VerifyRefused(account, body) ==
    /\ \/ /\ LoadsArgContext("verify") /\ ~OwnedByApp(account)
          /\ heap' = Reading(account, {NonceSlot(account, body)})
       \/ /\ LoadsArgContext("check")
          /\ heap' = Reading(account, DecisionNonce(account))
    /\ UNCHANGED <<appVars, sigVars>>
-----------------------------------------------------------------------------
(* Signals *)

Spent(i) == [frames EXCEPT ![i].timer = "spent"]

\* The timer of a controlled thread.  While the signal is blocked it waits.  Otherwise
\* the handler jumps to the context of the current call; if a guarded function runs,
\* the signal waits for its end and ends the process there, as in UnGuard.  After its
\* context the thread has a timer still, but the current call is in another thread.
TimerExpires(i) ==
    /\ outcome = "running" /\ frames[i].timer = "armed" /\ request.controlled
    /\ \/ /\ frames[i].blocked
          /\ frames' = [frames EXCEPT ![i].timer = "pending"]
          /\ UNCHANGED <<guardedArea, outcome, isLocked, context>>
       \/ /\ ~frames[i].blocked /\ Top.pc \in {"app", "finishing"}
          /\ FailFrom(Spent(i))
       \/ /\ ~frames[i].blocked /\ Top.pc \in {"app", "finishing"}
          /\ Lose("terminated")
       \/ /\ ~frames[i].blocked /\ Top.pc = "returning"
          /\ Lose("strayJump")
    /\ UNCHANGED <<request, handlerVars, heap, sigVars>>

\* The timer of an optimistic request: guards do nothing, and every call that fails is
\* a BlockError.  Before the current context has called sigsetjmp there is nothing to
\* jump to.
OptimisticTimerExpires ==
    /\ outcome = "running" /\ ~request.controlled
    /\ \/ Top.pc \notin {"start", "returned"} /\ Depth > 2 /\ Lose("blockError")
       \/ Top.pc \in {"app", "finishing"} /\ Lose("blockError")
       \/ Top.pc \in {"start", "returned", "entering"} /\ Lose("strayJump")
    /\ UNCHANGED <<request, handlerVars, heap, sigVars>>

\* A stack overflow or another fault in a guarded function.
FaultInGuardedArea ==
    /\ Does("fail") /\ request.controlled
    /\ Lose("terminated")
    /\ UNCHANGED <<request, handlerVars, heap, sigVars>>
-----------------------------------------------------------------------------
InvokeAny(app, forwarded) ==
    \/ InvokeWithoutGas(app, forwarded)
    \/ InvokeWithoutVersion(app, forwarded)
    \/ InvokeTooDeep(app, forwarded)
    \/ Invoke(app, forwarded)
    \/ InvokeOptimistic(app, forwarded)

RootCall == At("start") /\ \E app \in Apps : InvokeAny(app, 255)

Application ==
    \/ \E app \in Apps, forwarded \in Forwards : At("app") /\ InvokeAny(app, forwarded)
    \/ EnterArea \/ ExitArea \/ Load \/ Store \/ AppFails \/ Return \/ FaultInGuardedArea \/ LoadsNoChunks
    \/ \E app \in Apps : InvokeDeferred(app)
    \/ \E account \in Accounts : VerifyEmpty(account)
    \/ \E index \in DOMAIN messages : VerifyByAcc(index)
    \/ \E account \in Accounts, body \in Bodies :
          \/ \E spender \in Apps : VirtualSign(account, body, spender)
          \/ VerifyRefused(account, body)
          \/ \E index \in DOMAIN messages :
                VerifyByApp(account, body, index) \/ VerifyWithNonce(account, body, index)

Machine == RootCall \/ Enter \/ EnterRefused \/ StartDeferred \/ LeaveContext \/ Join \/ Finish

Timer == (\E i \in DOMAIN frames : TimerExpires(i)) \/ OptimisticTimerExpires

Next == Application \/ Machine \/ Timer

Spec == Init /\ [][Next]_vars

\* Threads run, and the clock of a thread that runs application code runs out.
FairSpec == Spec /\ WF_vars(Machine) /\ WF_vars(Timer)
-----------------------------------------------------------------------------
(* Properties *)

Running == outcome = "running"

\* enter_area and exit_area (invoke.cpp:28-50): the table of locks says what the
\* contexts hold.  An application is locked by one context that has its lock, and
\* whatever way that context is left, by its end, an error or a signal, the lock goes
\* with it, even if it was left from inside of a deferred call.
LocksMatch ==
    Running => \A a \in Apps :
        LET holders == {i \in DOMAIN frames : frames[i].app = a /\ frames[i].hasLock}
        IN  Cardinality(holders) = IF isLocked[a] THEN 1 ELSE 0

\* Code of an application works on the heap of that application: after any call,
\* deferred call, failure or timeout the modifier is loaded for the context that goes
\* on (Executor.cpp:158-168, 291-292).
ContextFollows == At("app") => context = Top.app

\* callDepth counts the handlers that are alive, also when a call was refused or timed
\* out, and there are never more than MAX_CALL_DEPTH (FailureManager.cpp:46-48).
DepthCounts == request.controlled /\ Running => callDepth = Len(resources) /\ callDepth <= MaxDepth

\* "the geometric series approaches 1 / (1 - q) so the total amount of externalGas
\* would be 2 * currentGas" (Executor.cpp:255): all the threads below a call, however
\* deep and however many, are started with at most twice its gas; those of the request
\* with at most three times its clocks.
GasShared ==
    request.controlled =>
        LET h == Resources
        IN  granted - h.before - h.gas <= IF Len(resources) = 1 THEN 3 * request.maxClocks
                                          ELSE 2 * h.gas

\* What is visible of calls that have failed, themselves or in a call that made them.
Trace == View \cap failed

\* saveVersion makes a number current that is still in the list, from a failed call.
Revives == currentVersion' = currentVersion + 1 /\ currentVersion' \in DOMAIN heap.stored

\* restoreVersion puts nothing back, it makes an older number current
\* (Executor.cpp:288-290).  From the moment a failed call is joined, nothing can be seen
\* in the heap of what it or any call it made has stored, completed or not; and nothing
\* an application does brings it back.  The one step that does is a saveVersion, in the
\* beginning of a later call, that meets a left over entry of the list.
FailedLeaveNoTrace == [][Revives \/ Trace' \subseteq Trace]_vars

\* A message that is used up by its verification is used once, and by the one who was
\* meant to (auth.cpp:42-89): of the messages that verify_by_acc_once has accepted, and
\* that no failure has taken back, no two of an application's account have the same
\* index, and no two of a user have the same text, nonce included.  Every message that
\* either function has ever accepted was attached to the request for that user, word for
\* word, and verified with the user's key (RequestScheduler.cpp:193-219), or an
\* application has signed it for an account that is not a user's.  The empty message is
\* no message here: it is accepted for any account, as often as one likes
\* (auth.cpp:48, :83), and a message given to verify_by_acc stays good.
AuthenticOnce ==
    Running =>
        /\ \A i, j \in DOMAIN accepted.once : i # j =>
              LET m == accepted.once[i]
                  n == accepted.once[j]
              IN  m.by \notin failed /\ n.by \notin failed =>
                      IF OwnedByApp(m.issuer) THEN m.index # n.index
                      ELSE m.issuer # n.issuer \/ m.text # n.text
        /\ \A m \in {accepted.once[i] : i \in DOMAIN accepted.once} \cup accepted.again :
              m.text # Used =>
                  IF m.index \in DOMAIN request.attached
                  THEN /\ ~OwnedByApp(m.issuer)
                       /\ request.attached[m.index] =
                              [issuer |-> m.issuer, text |-> m.text, signed |-> TRUE]
                  ELSE OwnedByApp(m.issuer)

\* "A sorted list of applications that the request will call" (info.h:165): only
\* applications that the request has declared, and that were loaded, ever run for it,
\* and the bisection refuses none that is declared.
CallListKept ==
    Running =>
        /\ \A i \in 2 .. Depth : frames[i].pc \in {"waiting", "app", "finishing"} =>
              frames[i].app \in Listed(request.callList) /\ Loads(frames[i].app)
        /\ \A app \in Apps :
              CheckApp(Table, app) = "limit_violated" <=> app \notin Listed(request.callList)

\* Code of an application can be stopped: outside of the guarded functions nothing
\* keeps the signal of its timer away, which is still set (invoke.cpp:79-84).
Interruptible ==
    At("app") /\ request.controlled =>
        ~guardedArea /\ ~frames[Base].blocked /\ frames[Base].timer = "armed"

\* A request ends, even if its applications never return.
SessionEnds == <>(~Running)

\* A call that takes too long is answered with "cpu timer expired"
\* (tests/ascee/AsceeExecutorTest.cpp:237): no timer ends the process, or jumps into
\* the stack of another thread.
TimeoutContained == outcome \notin {"terminated", "strayJump"}
=============================================================================
