------------------------- MODULE VirtualSignatures -------------------------
(***************************************************************************)
(* VirtualSignatureManager and the authentication functions of argC: what  *)
(* an account has signed, as a list of messages that is kept outside of    *)
(* the heap, and the nonces that let a message of a user account be used   *)
(* once, which are kept in the heap.                                       *)
(*                                                                         *)
(* A text is a body together with what appendSpenderToMsg and              *)
(* appendNonceToMsg add to it: the application it is for and its nonce.    *)
(***************************************************************************)
EXTENDS Integers, Sequences, FiniteSets

CONSTANTS Apps,         \* applications
          Accounts,     \* issuers of messages
          Ways,         \* nonces of an account: 0 if an application owns it
          OwnerOf,      \* the owner stored in an account that an application owns
          Bodies,       \* messages before anything is appended
          Length,       \* length of a body
          NonceMax,     \* nonce16_max
          SigCost,      \* SIG_CONSTANT_COST
          MaxCost,      \* MAX_COST
          CostRange     \* size_t counts modulo this

ASSUME VirtualSignaturesAssumption ==
    /\ Ways \in [Accounts -> Nat]
    /\ OwnerOf \in [Accounts -> Apps]
    /\ "" \notin Bodies /\ Length \in [Bodies -> Nat]
    /\ NonceMax \in Nat /\ SigCost \in Nat /\ MaxCost \in Nat
    /\ CostRange \in Nat \ {0} /\ MaxCost < CostRange

VARIABLES messages,   \* per index, the issuer and the text; Used once invalidated
          cost,       \* what was charged for signing
          accepted    \* history: what was verified, to be used once, or again and again

sigVars == <<messages, cost, accepted>>

OwnedByApp(account) == Ways[account] = 0

\* The text the spender of a signature has to present.
TextFor(body, app, nonce) == [body |-> body, app |-> app, nonce |-> nonce]
NoNonce == NonceMax
Used == TextFor("", 0, NoNonce)    \* the empty message
Texts == [body : Bodies, app : Apps, nonce : 0 .. NonceMax]

Charge(text) == Length[text.body] + SigCost

\* verify: there is such an index, and its message is from the issuer.
Verifies(text, issuer, index) ==
    /\ index \in DOMAIN messages
    /\ messages[index] = [issuer |-> issuer, text |-> text]

\* getSigManagerFor: an attached message whose signature does not verify becomes empty.
\* An account of an application has no key.
SigManagerFor(attached) ==
    [i \in DOMAIN attached |->
        [issuer |-> attached[i].issuer,
         text |-> IF attached[i].signed /\ ~OwnedByApp(attached[i].issuer)
                  THEN attached[i].text ELSE Used]]

\* sign: the cost is charged before it is compared with the limit.
CostAfter(text) == (cost + Charge(text)) % CostRange
TooManySignatures(text) == CostAfter(text) > MaxCost
Sign(text, issuer) ==
    /\ ~TooManySignatures(text)
    /\ cost' = CostAfter(text)
    /\ messages' = Append(messages, [issuer |-> issuer, text |-> text])

\* The message stays in the list.
VerifyOnly(text, issuer, index) ==
    /\ Verifies(text, issuer, index)
    /\ UNCHANGED <<messages, cost>>

\* verifyAndInvalidate, when it returns true.
VerifyAndInvalidate(text, issuer, index) ==
    /\ Verifies(text, issuer, index)
    /\ messages' = [messages EXCEPT ![index].text = Used]
    /\ cost' = (cost - Charge(text)) % CostRange

\* verifyWithMultiwayNonce picks the nonce by the length of the message.
NonceSlot(account, body) == Length[body] % Ways[account]

\* The nonces of an account that has ways of them.
NonceTable == [account \in Accounts |-> 0 .. Ways[account] - 1]
=============================================================================
