------------------------- MODULE DurableNonceProofs -------------------------
(***************************************************************************)
(* Proofs about DurableNonce, for any number of sends, any age of a        *)
(* blockhash and any amount of meddling.                                   *)
(***************************************************************************)
EXTENDS DurableNonce, TLAPS

-----------------------------------------------------------------------------
(***************************************************************************)
(* Type correctness.                                                       *)
(***************************************************************************)

\* The fields of a bundle have their types.
LEMMA SendType ==
    ASSUME TypeOK, NEW s \in Send
    PROVE  /\ send[s] \in Bundles
           /\ send[s].nonce \in Nat
           /\ send[s].age \in 0..WINDOW
           /\ send[s].index \in Nat
           /\ nonce_account.nonce \in Nat
           /\ next_nonce \in Nat
           /\ transaction_index \in Nat \cup {-1}
           /\ DOMAIN send = Send
BY DEF TypeOK, Bundles, Accounts, NoMultisig

\* The nonce account keeps its type when it is provisioned or advanced.
LEMMA AccountType ==
    ASSUME TypeOK
    PROVE  /\ \A a \in {Paymaster, Stranger} :
                 Provisioned(a) =>
                    /\ nonce_account'.state = "nonce"
                    /\ nonce_account'.authority = a
                    /\ nonce_account'.nonce = next_nonce
                    /\ nonce_account' \in Accounts
                    /\ next_nonce' = next_nonce + 1
           /\ Advanced =>
                    /\ nonce_account'.state = "nonce"
                    /\ nonce_account'.authority = nonce_account.authority
                    /\ nonce_account'.nonce = next_nonce
                    /\ nonce_account' \in Accounts
                    /\ next_nonce' = next_nonce + 1
           /\ nonce_account.state # "nonce" => nonce_account.authority = Nobody
BY DEF TypeOK, Provisioned, Advanced, Nonce, Accounts, Absent, Lamports

\* The initial states are typed.
LEMMA InitTyped == Init => TypeOK
<1> SUFFICES ASSUME Init PROVE TypeOK
  OBVIOUS
<1>1. Unbuilt \in Bundles
  BY SetupAssumption DEF Unbuilt, Bundles
<1>2. send \in [Send -> Bundles]
  BY <1>1 DEF Init
<1>3. nonce_account \in Accounts
  BY DEF Init, Absent, Accounts
<1>8. \A s \in Send : send[s].index <= NextIndex
  BY DEF Init, Unbuilt, NextIndex, Initialized
<1>4. relay \in SetupKinds \cup {"idle", "confirmed"} /\ returned \in Nat
  BY DEF Init
<1>5. /\ setup_landed \in BOOLEAN
      /\ setup_wire \subseteq [kind : SetupKinds, age : 0..(WINDOW - 1), awaited : BOOLEAN]
  BY DEF Init
<1>6. meddling \in 0..MaxMeddling /\ next_nonce \in Nat
  BY SetupAssumption DEF Init
<1>7. transaction_index \in Nat \cup {NoMultisig} /\ nonce_account \in {Absent, Lamports}
  BY DEF Init
<1> QED
  BY <1>2, <1>3, <1>4, <1>5, <1>6, <1>7, <1>8 DEF TypeOK

\* The index of the next proposal never falls, and no step builds for one that
\* is beyond it.
LEMMA NextIndexGrows ==
    ASSUME TypeOK, NEW i \in Nat, i <= NextIndex,
           \/ UNCHANGED transaction_index
           \/ ~Initialized /\ transaction_index' \in {0, 1}
           \/ Initialized /\ transaction_index' = transaction_index + 1
    PROVE  i <= NextIndex'
<1>1. /\ transaction_index \in Nat \cup {-1}
      /\ Initialized <=> transaction_index \in Nat
  BY DEF TypeOK, NoMultisig, Initialized
<1> QED
  BY <1>1 DEF NextIndex, Initialized, NoMultisig

\* What a step does to the counter, and to the index of a bundle.
LEMMA CounterSteps ==
    ASSUME TypeOK, [Next]_vars
    PROVE  /\ \/ UNCHANGED transaction_index
              \/ ~Initialized /\ transaction_index' \in {0, 1}
              \/ Initialized /\ transaction_index' = transaction_index + 1
           /\ \A s \in Send : send'[s].index \in {send[s].index, NextIndex, 1}
<1> DEFINE Counts == \/ UNCHANGED transaction_index
                     \/ ~Initialized /\ transaction_index' \in {0, 1}
                     \/ Initialized /\ transaction_index' = transaction_index + 1
           Built == \A s \in Send : send'[s].index \in {send[s].index, NextIndex, 1}
<1>1. UNCHANGED send => Built
  OBVIOUS
<1>2. ASSUME NEW m \in setup_wire, SetupLands(m) PROVE Counts /\ Built
  <2>1. UNCHANGED send
    BY <1>2 DEF SetupLands
  <2>2. CASE SetupExecutable(m.kind)
    BY <1>1, <1>2, <2>1, <2>2 DEF SetupLands, SetupEffect, SetupExecutable
  <2>3. CASE ~SetupExecutable(m.kind)
    BY <1>1, <1>2, <2>1, <2>3 DEF SetupLands, chain
  <2> QED BY <2>2, <2>3
<1>3. ASSUME NEW s \in Send,
             Anchor(s) \/ BuildAndSign(s) \/ BuildOnReturned(s) \/ KeySign(s) \/ Broadcast(s)
      PROVE  Counts /\ Built
  <2>1. Counts
    BY <1>3 DEF Anchor, BuildAndSign, BuildOnReturned, KeySign, Broadcast, chain
  <2>2. \A u \in Send \ {s} : send'[u] = send[u]
    BY <1>3, SendType DEF Anchor, BuildAndSign, BuildOnReturned, KeySign, Broadcast
  <2>3. send'[s].index \in {send[s].index, NextIndex, 1}
    <3>1. CASE Anchor(s) \/ KeySign(s) \/ Broadcast(s)
      BY <3>1, SendType DEF Anchor, KeySign, Broadcast, Bundles
    <3>2. CASE BuildAndSign(s)
      BY <3>2, SendType DEF BuildAndSign, Bundles, predictNextTransactionPda, NextIndex
    <3>3. CASE BuildOnReturned(s)
      BY <3>3, SendType DEF BuildOnReturned, Bundles, predictNextTransactionPda
    <3> QED BY <1>3, <3>1, <3>2, <3>3
  <2> QED BY <2>1, <2>2, <2>3
<1>4. ASSUME NEW s \in Send, Land(s) PROVE Counts /\ Built
  <2>1. Counts
    BY <1>4, SendType DEF Land, Pay, Revert, IndexFits, Bundles
  <2>2. Built
    BY <1>4, SendType DEF Land, Pay, Revert, Bundles
  <2> QED BY <2>1, <2>2
<1>5. CASE Tick
  <2>1. UNCHANGED transaction_index
    BY <1>5 DEF Tick, chain
  <2>2. Built
    BY <1>5, SendType DEF Tick, Older, Bundles
  <2> QED BY <2>1, <2>2
<1>6. CASE UNCHANGED <<transaction_index, send>>
  BY <1>1, <1>6
<1>7. CASE StrangerInitializes
  BY <1>1, <1>7 DEF StrangerInitializes, Meddle
<1> QED
  BY <1>2, <1>3, <1>4, <1>5, <1>6, <1>7
  DEF Next, vars, chain, SetupCall, SetupReturns, SetupTimesOut, StrangerProvisions,
      StrangerFunds, StrangerWithdraws, StrangerHandsOver, AuthorityAdvances, Meddle

\* The bundles are built for no index beyond the next, after every step.
LEMMA NeverAhead ==
    ASSUME TypeOK, [Next]_vars, NEW s \in Send
    PROVE  send'[s].index <= NextIndex'
<1>1. /\ send[s].index \in Nat /\ send[s].index <= NextIndex
      /\ NextIndex \in Nat /\ 1 <= NextIndex
  BY SendType DEF TypeOK, NextIndex, NoMultisig, Initialized
<1> QED
  BY <1>1, CounterSteps, NextIndexGrows

\* Every step keeps the types.
LEMMA NextTyped == TypeOK /\ [Next]_vars => TypeOK'
<1> SUFFICES ASSUME TypeOK, [Next]_vars PROVE TypeOK'
  OBVIOUS
<1> USE SetupAssumption
<1> DEFINE SendOK == send \in [Send -> Bundles]
           AccountOK == /\ nonce_account \in Accounts
                        /\ nonce_account.state # "nonce" => nonce_account \in {Absent, Lamports}
                        /\ next_nonce \in Nat
           RelayOK == /\ relay \in SetupKinds \cup {"idle", "confirmed"}
                      /\ returned \in Nat
                      /\ setup_wire \subseteq
                            [kind : SetupKinds, age : 0..(WINDOW - 1), awaited : BOOLEAN]
           OtherOK == /\ transaction_index \in Nat \cup {NoMultisig}
                      /\ setup_landed \in BOOLEAN
                      /\ meddling \in 0..MaxMeddling
<1>0. \A s \in Send : send'[s].index <= NextIndex'
  BY NeverAhead
<1>19. SendOK /\ AccountOK /\ RelayOK /\ OtherOK
  BY DEF TypeOK
<1>20. SendOK' /\ AccountOK' /\ RelayOK' /\ OtherOK' => TypeOK'
  BY <1>0 DEF TypeOK
<1> HIDE DEF SendOK, AccountOK, RelayOK, OtherOK
<1>21. UNCHANGED send => SendOK'
  BY <1>19 DEF SendOK
<1>22. UNCHANGED <<nonce_account, next_nonce>> => AccountOK'
  BY <1>19 DEF AccountOK
<1>23. UNCHANGED <<relay, returned, setup_wire>> => RelayOK'
  BY <1>19 DEF RelayOK
<1>24. UNCHANGED <<transaction_index, setup_landed, meddling>> => OtherOK'
  BY <1>19 DEF OtherOK
<1> USE <1>21, <1>22, <1>23, <1>24
<1>1. ASSUME NEW kind \in SetupKinds, SetupCall(kind) PROVE TypeOK'
  <2>1. [kind |-> kind, age |-> 0, awaited |-> TRUE]
           \in [kind : SetupKinds, age : 0..(WINDOW - 1), awaited : BOOLEAN]
    OBVIOUS
  <2>2. RelayOK'
    BY <1>1, <1>19, <2>1 DEF SetupCall, RelayOK
  <2> QED BY <1>1, <1>20, <2>2 DEF SetupCall, chain
<1>2. CASE SetupReturns
  <2>1. RelayOK'
    BY <1>2, <1>19 DEF SetupReturns, RelayOK, AccountOK, Accounts
  <2> QED BY <1>2, <1>20, <2>1 DEF SetupReturns, chain
<1>3. CASE SetupTimesOut
  <2>1. \A m \in setup_wire : [m EXCEPT !.awaited = FALSE]
           \in [kind : SetupKinds, age : 0..(WINDOW - 1), awaited : BOOLEAN]
    BY <1>19 DEF RelayOK
  <2>2. RelayOK'
    BY <1>3, <1>19, <2>1 DEF SetupTimesOut, RelayOK
  <2> QED BY <1>3, <1>20, <2>2 DEF SetupTimesOut, chain
<1>4. ASSUME NEW m \in setup_wire, SetupLands(m) PROVE TypeOK'
  <2>1. AccountOK'
    BY <1>4, <1>19, AccountType DEF SetupLands, SetupEffect, AccountOK, chain
  <2>2. OtherOK'
    <3>1. CASE SetupExecutable(m.kind)
      BY <1>4, <1>19, <3>1 DEF SetupLands, SetupEffect, OtherOK
    <3>2. CASE ~SetupExecutable(m.kind)
      BY <1>4, <3>2 DEF SetupLands, chain
    <3> QED BY <3>1, <3>2
  <2>3. RelayOK'
    BY <1>4, <1>19 DEF SetupLands, RelayOK
  <2> QED BY <1>4, <1>20, <2>1, <2>2, <2>3 DEF SetupLands
<1>5. ASSUME NEW s \in Send, Anchor(s) PROVE TypeOK'
  <2>1. SendOK'
    <3>1. CASE send' = [send EXCEPT ![s] = [@ EXCEPT !.stage = "anchored", !.anchor = "durable",
                                                     !.nonce = nonce_account.nonce]]
      BY ZenonT(30), <1>19, <3>1, SendType DEF SendOK, Bundles
    <3>2. ASSUME NEW st \in {"anchored", "given_up"}, send' = [send EXCEPT ![s].stage = st]
          PROVE  SendOK'
      BY <1>19, <3>2 DEF SendOK, Bundles
    <3> QED BY <1>5, <3>1, <3>2 DEF Anchor
  <2> QED BY <1>5, <1>20, <2>1 DEF Anchor, chain, caller
<1>6. ASSUME NEW s \in Send, BuildAndSign(s) PROVE TypeOK'
  <2>1. SendOK'
    BY <1>6, <1>19 DEF BuildAndSign, SendOK, OtherOK, Bundles, predictNextTransactionPda,
                      Initialized, NoMultisig, SignedStages
  <2> QED BY <1>6, <1>20, <2>1 DEF BuildAndSign, chain, caller
<1>17. ASSUME NEW s \in Send, BuildOnReturned(s) PROVE TypeOK'
  <2>1. returned \in Nat /\ predictNextTransactionPda(0) \in Nat
    BY <1>19 DEF RelayOK, predictNextTransactionPda
  <2>2. SendOK'
    BY ZenonT(30), <1>17, <1>19, <2>1, SendType DEF BuildOnReturned, SendOK, Bundles, SignedStages
  <2> QED BY <1>17, <1>20, <2>2 DEF BuildOnReturned, chain, caller
<1>7. ASSUME NEW s \in Send, KeySign(s) PROVE TypeOK'
  <2>1. SendOK'
    BY <1>7, <1>19 DEF KeySign, SendOK, Bundles, SignedStages
  <2> QED BY <1>7, <1>20, <2>1 DEF KeySign, chain, caller
<1>8. ASSUME NEW s \in Send, Broadcast(s) PROVE TypeOK'
  <2>1. SendOK'
    BY <1>8, <1>19 DEF Broadcast, SendOK, Bundles, SignedStages
  <2> QED BY <1>8, <1>20, <2>1 DEF Broadcast, chain, caller
<1>9. ASSUME NEW s \in Send, Land(s) PROVE TypeOK'
  <2>1. SendOK'
    BY <1>9, <1>19 DEF Land, Pay, Revert, SendOK, Bundles
  <2>2. AccountOK'
    BY <1>9, <1>19, AccountType DEF Land, NonceAfter, AccountOK
  <2>3. OtherOK'
    <3>1. send[s].with_setup \in BOOLEAN
      BY <1>19 DEF SendOK, Bundles
    <3>2. CASE Pay(s)
      <4>1. setup_landed' \in BOOLEAN
        BY <3>2 DEF Pay
      <4>2. transaction_index' \in Nat \cup {NoMultisig}
        BY <1>19, <3>2 DEF Pay, IndexFits, Initialized, OtherOK, NoMultisig
      <4> QED BY <1>19, <4>1, <4>2, <1>9 DEF Land, OtherOK
    <3> QED BY <1>9, <1>19, <3>2 DEF Land, Revert, OtherOK
  <2> QED BY <1>9, <1>20, <2>1, <2>2, <2>3 DEF Land, caller
<1>10. CASE Tick
  <2>1. SendOK'
    BY <1>10, <1>19 DEF Tick, Older, Ages, SendOK, Bundles
  <2>2. RelayOK'
    BY <1>10, <1>19 DEF Tick, Older, RelayOK, caller
  <2> QED BY <1>10, <1>20, <2>1, <2>2 DEF Tick, chain
<1>18. Meddle => SendOK' /\ RelayOK' /\ meddling' \in 0..MaxMeddling /\ setup_landed' \in BOOLEAN
  <2>1. ASSUME Meddle PROVE meddling' \in 0..MaxMeddling /\ setup_landed' \in BOOLEAN
    BY <1>19, <2>1 DEF Meddle, OtherOK
  <2> QED BY <2>1 DEF Meddle, caller
<1>11. CASE StrangerInitializes
  BY <1>11, <1>18, <1>20 DEF StrangerInitializes, OtherOK
<1>12. CASE StrangerProvisions \/ AuthorityAdvances
  <2>1. AccountOK'
    BY <1>12, <1>19, AccountType DEF StrangerProvisions, AuthorityAdvances, AccountOK
  <2> QED BY <1>12, <1>18, <1>20, <1>19, <2>1 DEF StrangerProvisions, AuthorityAdvances, OtherOK
<1>13. CASE StrangerFunds \/ StrangerWithdraws
  <2>1. AccountOK'
    BY <1>13, <1>19 DEF StrangerFunds, StrangerWithdraws, AccountOK, Lamports, Absent, Accounts
  <2> QED BY <1>13, <1>18, <1>20, <1>19, <2>1 DEF StrangerFunds, StrangerWithdraws, OtherOK
<1>14. CASE StrangerHandsOver
  <2>1. AccountOK'
    <3>1. nonce_account.state = "nonce"
      BY <1>14, AccountType DEF StrangerHandsOver
    <3> QED BY <1>14, <1>19, <3>1 DEF StrangerHandsOver, AccountOK, Accounts
  <2> QED BY <1>14, <1>18, <1>20, <1>19, <2>1 DEF StrangerHandsOver, OtherOK
<1>16. CASE UNCHANGED vars
  BY <1>16, <1>20 DEF vars, chain, caller
<1> QED
  BY <1>1, <1>2, <1>3, <1>4, <1>5, <1>6, <1>7, <1>8, <1>9, <1>10, <1>11, <1>12, <1>13, <1>14,
     <1>16, <1>17 DEF Next

\* The type invariant holds for any number of sends.
THEOREM TypeCorrect == Spec => []TypeOK
BY InitTyped, NextTyped, PTL DEF Spec

-----------------------------------------------------------------------------
(***************************************************************************)
(* The values of the nonce.                                                *)
(*                                                                         *)
(* A bundle's value was the account's once; the account never takes a      *)
(* value twice.  So a value that a processed bundle spent, or that the     *)
(* account has left, does not come back.                                   *)
(***************************************************************************)

Durable(s) == send[s].anchor = "durable"

ValuesInOrder ==
    /\ nonce_account.nonce < next_nonce
    /\ nonce_account.state = "nonce" => nonce_account.nonce >= 1
    /\ returned < next_nonce
    /\ \A s \in Send : Durable(s) => send[s].nonce >= 1 /\ send[s].nonce < next_nonce

SpentIsGone ==
    \A s \in Processed : Durable(s) => send[s].nonce # nonce_account.nonce

NonceInv == ValuesInOrder /\ SpentIsGone /\ NonceSpentOnce

\* What a step may do to the account,
SameValue ==
    /\ nonce_account'.nonce = nonce_account.nonce
    /\ nonce_account'.state = nonce_account.state
    /\ UNCHANGED next_nonce

FreshValue ==
    /\ nonce_account'.nonce = next_nonce
    /\ next_nonce' = next_nonce + 1

ValueGone ==
    /\ nonce_account'.nonce = 0
    /\ nonce_account'.state # "nonce"
    /\ UNCHANGED next_nonce

\* to what setupMultisigAndNonce returned,
Returns ==
    \/ UNCHANGED returned
    \/ SameValue /\ returned' = nonce_account.nonce

\* and to a bundle.
SameAnchor(s) ==
    /\ send'[s].anchor = send[s].anchor
    /\ send'[s].nonce = send[s].nonce
    /\ send'[s].stage \in {"paid", "failed"} => send[s].stage \in {"paid", "failed"}

TakesValue(s) ==
    /\ SameValue
    /\ \/ nonce_account.state = "nonce" /\ send'[s].nonce = nonce_account.nonce
       \/ returned # 0 /\ send'[s].nonce = returned
    /\ send'[s].stage \notin {"paid", "failed"}

SpendsValue(s) ==
    /\ send'[s].anchor = send[s].anchor
    /\ send'[s].nonce = send[s].nonce
    /\ IF Durable(s) THEN FreshValue /\ send[s].nonce = nonce_account.nonce
                     ELSE FreshValue \/ SameValue

NonceStep ==
    \/ /\ SameValue \/ FreshValue \/ ValueGone
       /\ Returns
       /\ \A s \in Send : SameAnchor(s)
    \/ /\ UNCHANGED returned
       /\ \E s \in Send : /\ TakesValue(s) \/ SpendsValue(s)
                          /\ \A u \in Send \ {s} : SameAnchor(u)

\* A step that leaves the bundles alone.
LEMMA SendsKept == UNCHANGED send => \A s \in Send : SameAnchor(s)
BY DEF SameAnchor

\* Every step is one of these.
LEMMA NonceSteps == TypeOK /\ [Next]_vars => NonceStep
<1> SUFFICES ASSUME TypeOK, [Next]_vars PROVE NonceStep
  OBVIOUS
<1>1. CASE UNCHANGED <<nonce_account, next_nonce, send, returned>>
  BY <1>1, SendsKept DEF NonceStep, SameValue, Returns
<1>9. CASE SetupReturns
  BY <1>9, SendsKept DEF SetupReturns, chain, NonceStep, SameValue, Returns
<1>2. ASSUME NEW m \in setup_wire, SetupLands(m) PROVE NonceStep
  BY <1>2, SendsKept, AccountType
  DEF SetupLands, SetupEffect, NonceStep, SameValue, FreshValue, Returns, chain
<1>3. ASSUME NEW s \in Send, Anchor(s) \/ BuildOnReturned(s) PROVE NonceStep
  <2>1. SameValue /\ UNCHANGED returned
    BY <1>3 DEF Anchor, BuildOnReturned, chain, caller, SameValue
  <2>2. \A u \in Send \ {s} : SameAnchor(u)
    BY <1>3, SendType DEF Anchor, BuildOnReturned, SameAnchor
  <2>3. CASE /\ nonce_account.state = "nonce"
             /\ send' = [send EXCEPT ![s] = [@ EXCEPT !.stage = "anchored", !.anchor = "durable",
                                                      !.nonce = nonce_account.nonce]]
    <3>1. send'[s].nonce = nonce_account.nonce /\ send'[s].stage = "anchored"
      BY <2>3, SendType DEF Bundles
    <3> QED BY <2>1, <2>2, <2>3, <3>1 DEF NonceStep, TakesValue
  <2>4. ASSUME NEW st \in {"anchored", "given_up"}, send' = [send EXCEPT ![s].stage = st]
        PROVE  NonceStep
    <3>1. SameAnchor(s)
      BY <2>4, SendType DEF SameAnchor, Bundles
    <3> QED BY <2>1, <2>2, <3>1 DEF NonceStep, Returns
  <2>5. CASE BuildOnReturned(s)
    <3>1. send'[s].nonce = returned /\ send'[s].stage = "wallet_signed" /\ returned # 0
      BY <2>5, SendType DEF BuildOnReturned, Bundles
    <3> QED BY <2>1, <2>2, <3>1 DEF NonceStep, TakesValue
  <2> QED BY <1>3, <2>3, <2>4, <2>5 DEF Anchor
<1>4. ASSUME NEW s \in Send, BuildAndSign(s) \/ KeySign(s) \/ Broadcast(s) PROVE NonceStep
  <2>1. SameValue /\ UNCHANGED returned
    BY <1>4 DEF BuildAndSign, KeySign, Broadcast, chain, caller, SameValue
  <2>2. \A u \in Send : SameAnchor(u)
    BY <1>4, SendType DEF BuildAndSign, KeySign, Broadcast, SameAnchor, Bundles
  <2> QED BY <2>1, <2>2 DEF NonceStep, Returns
<1>5. ASSUME NEW s \in Send, Land(s) PROVE NonceStep
  <2>1. /\ \A u \in Send \ {s} : SameAnchor(u)
        /\ send'[s].anchor = send[s].anchor
        /\ send'[s].nonce = send[s].nonce
        /\ UNCHANGED returned
    BY <1>5, SendType DEF Land, Pay, Revert, SameAnchor, Bundles, caller
  <2>2. Durable(s) => FreshValue /\ send[s].nonce = nonce_account.nonce
    BY <1>5, AccountType DEF Land, AnchorHolds, AnchorLost, NonceAfter, Durable, FreshValue
  <2>3. FreshValue \/ SameValue
    BY <1>5, AccountType DEF Land, NonceAfter, FreshValue, SameValue
  <2> QED BY <2>1, <2>2, <2>3 DEF NonceStep, SpendsValue
<1>6. CASE Tick
  <2>1. \A u \in Send : SameAnchor(u)
    BY <1>6, SendType DEF Tick, Older, SameAnchor, Bundles
  <2> QED BY <1>6, <2>1 DEF Tick, chain, caller, NonceStep, SameValue, Returns
<1>7. CASE StrangerProvisions \/ AuthorityAdvances
  BY <1>7, SendsKept, AccountType
  DEF StrangerProvisions, AuthorityAdvances, Meddle, NonceStep, FreshValue, Returns, caller
<1>8. CASE StrangerFunds \/ StrangerWithdraws
  BY <1>8, SendsKept
  DEF StrangerFunds, StrangerWithdraws, Meddle, NonceStep, ValueGone, Lamports, Absent, Returns,
      caller
<1>10. CASE StrangerHandsOver
  <2>1. SameValue
    BY <1>10 DEF StrangerHandsOver, SameValue, TypeOK, Accounts
  <2> QED BY <1>10, <2>1, SendsKept DEF StrangerHandsOver, Meddle, NonceStep, Returns, caller
<1> QED
  BY <1>1, <1>2, <1>3, <1>4, <1>5, <1>6, <1>7, <1>8, <1>9, <1>10
  DEF Next, vars, chain, caller, SetupCall, SetupTimesOut, StrangerInitializes, Meddle

\* The invariant about values is inductive.
LEMMA NonceInduction == TypeOK /\ NonceInv /\ [Next]_vars => NonceInv'
<1> SUFFICES ASSUME TypeOK, NonceInv, NonceStep PROVE NonceInv'
  BY NonceSteps
<1> USE DEF NonceInv
<1>1. /\ nonce_account.nonce \in Nat /\ next_nonce \in Nat /\ returned \in Nat
      /\ \A s \in Send : send[s].nonce \in Nat
  BY SendType DEF TypeOK, Accounts
<1>2. CASE /\ SameValue \/ FreshValue \/ ValueGone
           /\ Returns
           /\ \A s \in Send : SameAnchor(s)
  <2>1. ValuesInOrder'
    BY <1>1, <1>2 DEF ValuesInOrder, Durable, SameValue, FreshValue, ValueGone, SameAnchor, Returns
  <2>2. Processed' \subseteq Processed
    BY <1>2 DEF Processed, Stage, SameAnchor
  <2>3. SpentIsGone'
    BY <1>1, <1>2, <2>2 DEF SpentIsGone, ValuesInOrder, Durable, SameValue, FreshValue,
                            ValueGone, SameAnchor, Processed
  <2>5. NonceSpentOnce'
    BY <1>2, <2>2 DEF NonceSpentOnce, SameAnchor, Processed
  <2> QED BY <2>1, <2>3, <2>5
<1>3. ASSUME NEW s \in Send, TakesValue(s), UNCHANGED returned, \A u \in Send \ {s} : SameAnchor(u)
      PROVE  NonceInv'
  <2>1. ValuesInOrder'
    <3>1. send'[s].nonce >= 1 /\ send'[s].nonce < next_nonce
      BY <1>1, <1>3 DEF TakesValue, ValuesInOrder
    <3> QED BY <1>1, <1>3, <3>1 DEF ValuesInOrder, Durable, SameValue, TakesValue, SameAnchor
  <2>2. Processed' \subseteq Processed \ {s}
    BY <1>3 DEF Processed, Stage, SameAnchor, TakesValue
  <2>3. SpentIsGone'
    BY <1>1, <1>3, <2>2 DEF SpentIsGone, Durable, SameValue, SameAnchor, TakesValue, Processed
  <2>5. NonceSpentOnce'
    BY <1>3, <2>2 DEF NonceSpentOnce, SameAnchor, Processed
  <2> QED BY <2>1, <2>3, <2>5
<1>4. ASSUME NEW s \in Send, SpendsValue(s), UNCHANGED returned,
             \A u \in Send \ {s} : SameAnchor(u)
      PROVE  NonceInv'
  <2>1. ValuesInOrder'
    BY <1>1, <1>4 DEF ValuesInOrder, Durable, SameValue, FreshValue, SpendsValue, SameAnchor
  <2>2. Processed' \subseteq Processed \cup {s}
    BY <1>4 DEF Processed, Stage, SameAnchor
  <2>3. SpentIsGone'
    BY <1>1, <1>4, <2>2 DEF SpentIsGone, ValuesInOrder, Durable, SameValue, FreshValue,
                            SameAnchor, SpendsValue, Processed
  <2>5. \A u \in Processed \ {s} : Durable(s) /\ Durable(u) => send[u].nonce # send[s].nonce
    BY <1>4 DEF SpentIsGone, SpendsValue
  <2>6. NonceSpentOnce'
    BY <1>4, <2>2, <2>5 DEF NonceSpentOnce, Durable, SameAnchor, SpendsValue, Processed
  <2> QED BY <2>1, <2>3, <2>6
<1> QED
  BY <1>2, <1>3, <1>4 DEF NonceStep

\* It holds initially.
LEMMA NonceInitially == Init => NonceInv
BY DEF Init, NonceInv, ValuesInOrder, SpentIsGone, NonceSpentOnce, Durable,
       Processed, Stage, Unbuilt, Absent

\* The invariant about values.
LEMMA NonceInvariant == Spec => []NonceInv
<1>1. Spec => []TypeOK
  BY TypeCorrect
<1> QED
  BY <1>1, NonceInitially, NonceInduction, PTL DEF Spec

\* No two processed bundles used one value of the nonce.
THEOREM SpentOnce == Spec => []NonceSpentOnce
<1>1. NonceInv => NonceSpentOnce
  BY DEF NonceInv
<1> QED
  BY <1>1, NonceInvariant, PTL

-----------------------------------------------------------------------------
(***************************************************************************)
(* The indexes of the bundles, and the setup.                              *)
(*                                                                         *)
(* A bundle is built for an index that is never ahead of the multisig's    *)
(* next one, or together with the initialization for the first; a          *)
(* multisig that does not exist has no nonce account.                      *)
(***************************************************************************)

BuiltInTime ==
    \A s \in Send :
        /\ Stage(s) \in {"idle", "anchored"} => ~send[s].with_setup
        /\ IF send[s].with_setup THEN send[s].anchor = "live" /\ send[s].index = 1
                                 ELSE send[s].index <= transaction_index + 1

NonceFollowsMultisig == ~Initialized => nonce_account.state # "nonce"

IndexInv == BuiltInTime /\ PaidByIndex /\ NonceFollowsMultisig /\ SetupIsOurs

\* A step that pays nothing keeps the indexes of what is paid.
SameIndexes ==
    /\ Paid' = Paid
    /\ \A s \in Paid : send'[s].index = send[s].index

\* It may only create the multisig.
LEMMA IndexesKept ==
    ASSUME TypeOK, PaidByIndex, SameIndexes,
           transaction_index' = transaction_index \/ (transaction_index = -1 /\ transaction_index' = 0)
    PROVE  PaidByIndex'
<1>1. { send'[s].index : s \in Paid' } = { send[s].index : s \in Paid }
  BY DEF SameIndexes
<1>2. (1..transaction_index)' = 1..transaction_index
  BY SendType
<1>3. \A s, u \in Paid' : send'[s].index = send'[u].index => s = u
  BY DEF SameIndexes, PaidByIndex
<1> QED
  BY <1>1, <1>2, <1>3 DEF PaidByIndex

\* Paying one more bundle, for the next index.
LEMMA IndexPaid ==
    ASSUME TypeOK, PaidByIndex, NEW s \in Send, s \notin Paid, Paid' = Paid \cup {s},
           \A u \in Send : send'[u].index = send[u].index,
           transaction_index' \in Nat \ {0}, send[s].index = transaction_index',
           (1..transaction_index') = (1..transaction_index) \cup {send[s].index},
           send[s].index \notin 1..transaction_index
    PROVE  PaidByIndex'
<1>1. \A u \in Paid' : u \in Send
  BY DEF Paid
<1>2. { send'[u].index : u \in Paid' } = { send[u].index : u \in Paid' }
  BY <1>1
<1>3. { send[u].index : u \in Paid' } = { send[u].index : u \in Paid } \cup {send[s].index}
  OBVIOUS
<1>4. { send[u].index : u \in Paid } = 1..transaction_index
  BY DEF PaidByIndex
<1>5. \A u \in Paid : send[u].index # send[s].index
  BY <1>4
<1>6. \A u, v \in Paid' : send'[u].index = send'[v].index => u = v
  BY <1>1, <1>5 DEF PaidByIndex
<1> QED
  BY <1>2, <1>3, <1>4, <1>6 DEF PaidByIndex

\* A step that leaves the bundles alone.
LEMMA IndexesOfSame == UNCHANGED send => SameIndexes
BY DEF SameIndexes, Paid, Stage

\* The invariant about indexes is inductive.
LEMMA IndexInduction == TypeOK /\ IndexInv /\ [Next]_vars => IndexInv'
<1> SUFFICES ASSUME TypeOK, IndexInv, [Next]_vars PROVE IndexInv'
  OBVIOUS
<1> USE DEF IndexInv
<1>1. /\ transaction_index \in Nat \cup {-1}
      /\ Initialized <=> transaction_index \in Nat
      /\ ~Initialized <=> transaction_index = -1
      /\ \A s \in Send : send[s].index \in Nat
  <2>1. transaction_index \in Nat \cup {-1}
    BY DEF TypeOK, NoMultisig
  <2>2. ~Initialized <=> transaction_index = -1
    BY DEF Initialized, NoMultisig
  <2>3. \A s \in Send : send[s].index \in Nat
    BY SendType
  <2> QED BY <2>1, <2>2, <2>3
<1>2. CASE UNCHANGED <<transaction_index, nonce_account, send, setup_landed>>
  BY <1>2 DEF BuiltInTime, PaidByIndex, NonceFollowsMultisig, SetupIsOurs, Initialized, Paid, Stage
<1>3. ASSUME NEW m \in setup_wire, SetupLands(m) PROVE IndexInv'
  <2>1. CASE ~SetupExecutable(m.kind)
    BY <1>2, <1>3, <2>1 DEF SetupLands, chain
  <2>2. CASE SetupExecutable(m.kind)
    <3>1. UNCHANGED send /\ SetupEffect(m.kind)
      BY <1>3, <2>2 DEF SetupLands
    <3>2. \/ m.kind = "provision" /\ Initialized /\ Provisionable
          \/ m.kind \in {"setup", "initialize"} /\ ~Initialized
      BY <2>2 DEF SetupExecutable
    <3>3. \/ transaction_index' = transaction_index /\ Initialized
          \/ transaction_index = -1 /\ transaction_index' = 0
      BY <1>1, <3>1, <3>2 DEF SetupEffect
    <3>4. BuiltInTime'
      BY <1>1, <3>1, <3>3 DEF BuiltInTime, Stage
    <3>5. PaidByIndex'
      BY <3>1, <3>3, IndexesOfSame, IndexesKept
    <3>6. Initialized'
      BY <1>1, <3>3 DEF Initialized, NoMultisig
    <3>7. NonceFollowsMultisig'
      BY <3>6 DEF NonceFollowsMultisig
    <3>8. SetupIsOurs'
      <4>1. CASE m.kind # "initialize" /\ Provisionable
        BY <3>1, <3>6, <4>1, AccountType DEF SetupEffect, SetupIsOurs
      <4>2. CASE ~(m.kind # "initialize" /\ Provisionable)
        <5>1. UNCHANGED nonce_account
          BY <3>1, <4>2 DEF SetupEffect
        <5>2. m.kind # "setup"
          BY <2>2, <4>2 DEF SetupExecutable
        <5>3. setup_landed' => setup_landed
          BY <3>1, <5>2 DEF SetupEffect
        <5> QED BY <3>6, <5>1, <5>3 DEF SetupIsOurs
      <4> QED BY <4>1, <4>2
    <3> QED BY <3>4, <3>5, <3>7, <3>8
  <2> QED BY <2>1, <2>2
<1>4. ASSUME NEW s \in Send,
             Anchor(s) \/ BuildAndSign(s) \/ BuildOnReturned(s) \/ KeySign(s) \/ Broadcast(s)
      PROVE  IndexInv'
  <2>1. UNCHANGED <<transaction_index, nonce_account, setup_landed>>
    BY <1>4 DEF Anchor, BuildAndSign, BuildOnReturned, KeySign, Broadcast, chain
  <2>2. SameIndexes
    <3>1. /\ \A u \in Send \ {s} : send'[u] = send[u]
          /\ send'[s].stage # "paid" /\ Stage(s) # "paid"
      BY ZenonT(30), <1>4, SendType
      DEF Anchor, BuildAndSign, BuildOnReturned, KeySign, Broadcast, Stage, Bundles
    <3> QED BY <3>1 DEF SameIndexes, Paid, Stage
  <2>3. PaidByIndex'
    BY <2>1, <2>2, IndexesKept
  <2>4. BuiltInTime'
    <3>1. \A u \in Send \ {s} : send'[u] = send[u]
      BY <1>4, SendType DEF Anchor, BuildAndSign, BuildOnReturned, KeySign, Broadcast
    <3>2. CASE Anchor(s)
      <4>1. ~send[s].with_setup
        BY <3>2 DEF Anchor, BuiltInTime
      <4>2. send'[s].with_setup = send[s].with_setup /\ send'[s].index = send[s].index
        <5>2. CASE send' = [send EXCEPT ![s] = [@ EXCEPT !.stage = "anchored",
                                           !.anchor = "durable", !.nonce = nonce_account.nonce]]
          <6>1. send'[s] = [send[s] EXCEPT !.stage = "anchored", !.anchor = "durable",
                                           !.nonce = nonce_account.nonce]
            BY <5>2, SendType
          <6> QED BY <6>1, SendType DEF Bundles
        <5>3. ASSUME NEW st \in {"anchored", "given_up"}, send' = [send EXCEPT ![s].stage = st]
              PROVE  send'[s].with_setup = send[s].with_setup /\ send'[s].index = send[s].index
          BY <5>3, SendType DEF Bundles
        <5> QED BY <3>2, <5>2, <5>3 DEF Anchor
      <4> QED BY <2>1, <3>1, <4>1, <4>2 DEF BuiltInTime, Stage
    <3>3. CASE BuildAndSign(s)
      <4>1. ~send[s].with_setup
        BY <3>3 DEF BuildAndSign, BuiltInTime
      <4>2. \/ /\ send'[s].index = transaction_index + 1
               /\ send'[s].with_setup = send[s].with_setup
            \/ /\ send'[s].index = 1
               /\ send[s].anchor = "live" /\ send'[s].anchor = "live"
               /\ send'[s].with_setup = TRUE
               /\ send'[s].stage = "wallet_signed"
            \/ /\ send'[s].index = send[s].index
               /\ send'[s].with_setup = send[s].with_setup
        BY <3>3, SendType DEF BuildAndSign, Bundles, predictNextTransactionPda
      <4>3. send[s].index <= transaction_index + 1
        BY <4>1 DEF BuiltInTime
      <4> QED BY <1>1, <2>1, <3>1, <4>1, <4>2, <4>3 DEF BuiltInTime, Stage
    <3>5. CASE BuildOnReturned(s)
      <4>1. /\ ~send[s].with_setup
            /\ transaction_index = 0
        BY <3>5 DEF BuildOnReturned, BuiltInTime
      <4>2. send'[s] = [send[s] EXCEPT !.stage = "wallet_signed", !.anchor = "durable",
                          !.nonce = returned, !.index = predictNextTransactionPda(0)]
        BY <3>5, SendType DEF BuildOnReturned
      <4>3. /\ send'[s].index = 1
            /\ send'[s].with_setup = send[s].with_setup
            /\ send'[s].stage = "wallet_signed"
        BY <4>2, SendType DEF Bundles, predictNextTransactionPda
      <4> QED BY <2>1, <3>1, <4>1, <4>3 DEF BuiltInTime, Stage
    <3>4. CASE KeySign(s) \/ Broadcast(s)
      BY <2>1, <3>1, <3>4, SendType DEF KeySign, Broadcast, BuiltInTime, Stage, Bundles
    <3> QED BY <1>4, <3>2, <3>3, <3>4, <3>5
  <2>5. NonceFollowsMultisig' /\ SetupIsOurs'
    BY <2>1 DEF NonceFollowsMultisig, SetupIsOurs, Initialized
  <2> QED BY <2>3, <2>4, <2>5
<1>5. ASSUME NEW s \in Send, Land(s) PROVE IndexInv'
  <2>1. /\ \A u \in Send \ {s} : send'[u] = send[u]
        /\ send'[s].index = send[s].index
        /\ send'[s].anchor = send[s].anchor
        /\ send'[s].with_setup = send[s].with_setup
        /\ send'[s].stage \in {"paid", "failed"}
        /\ Stage(s) = "sent"
    BY <1>5, SendType DEF Land, Pay, Revert, Bundles
  <2>2. CASE Pay(s)
    <3>1. send'[s].stage = "paid"
      BY <2>2, SendType DEF Pay, Bundles
    <3>2. Paid' = Paid \cup {s} /\ s \notin Paid
      BY <2>1, <3>1 DEF Paid, Stage
    <3>3. CASE send[s].with_setup
      <4>1. ~Initialized /\ Provisionable /\ transaction_index' = 1 /\ setup_landed'
        BY <2>2, <3>3 DEF Pay, IndexFits
      <4>2. send[s].anchor = "live" /\ send[s].index = 1
        BY <3>3 DEF BuiltInTime
      <4>3. Provisioned(Paymaster)
        BY <1>5, <3>1, <3>3, <4>2 DEF Land, NonceAfter
      <4>4. PaidByIndex'
        BY <1>1, <2>1, <3>2, <4>1, <4>2, IndexPaid
      <4>5. Initialized'
        BY <4>1 DEF Initialized, NoMultisig
      <4>6. BuiltInTime'
        BY <1>1, <2>1, <4>1 DEF BuiltInTime, Stage
      <4> QED BY <4>3, <4>4, <4>5, <4>6, AccountType DEF NonceFollowsMultisig, SetupIsOurs
    <3>4. CASE ~send[s].with_setup
      <4>1. /\ Initialized /\ transaction_index' = transaction_index + 1
            /\ send[s].index = transaction_index + 1
            /\ setup_landed' => setup_landed
        BY <2>2, <3>4 DEF Pay, IndexFits
      <4>2. PaidByIndex'
        BY <1>1, <2>1, <3>2, <4>1, IndexPaid
      <4>3. Initialized'
        BY <1>1, <4>1 DEF Initialized, NoMultisig
      <4>4. BuiltInTime'
        BY <1>1, <2>1, <4>1 DEF BuiltInTime, Stage
      <4>5. Advanced \/ UNCHANGED nonce_account
        BY <1>5, <3>4 DEF Land, NonceAfter
      <4>6. SetupIsOurs'
        BY <4>1, <4>3, <4>5, AccountType DEF SetupIsOurs
      <4> QED BY <4>2, <4>3, <4>4, <4>6 DEF NonceFollowsMultisig
    <3> QED BY <3>3, <3>4
  <2>3. CASE Revert(s)
    <3>1. send'[s].stage = "failed" /\ UNCHANGED <<transaction_index, setup_landed>>
      BY <2>3, SendType DEF Revert, Bundles
    <3>2. SameIndexes
      BY <2>1, <3>1 DEF SameIndexes, Paid, Stage
    <3>3. PaidByIndex'
      BY <3>1, <3>2, IndexesKept
    <3>4. BuiltInTime'
      BY <2>1, <3>1 DEF BuiltInTime, Stage
    <3>5. \/ UNCHANGED nonce_account
          \/ nonce_account.state = "nonce" /\ Advanced
      BY <1>5, <3>1, AccountType, SetupAssumption DEF Land, NonceAfter, AnchorHolds
    <3>6. NonceFollowsMultisig' /\ SetupIsOurs'
      BY <3>1, <3>5, AccountType DEF NonceFollowsMultisig, SetupIsOurs, Initialized
    <3> QED BY <3>3, <3>4, <3>6
  <2> QED BY <1>5, <2>2, <2>3 DEF Land
<1>6. CASE Tick
  <2>1. UNCHANGED <<transaction_index, nonce_account, setup_landed>>
    BY <1>6 DEF Tick, chain
  <2>2. \A s \in Send :
           /\ send'[s].index = send[s].index
           /\ send'[s].anchor = send[s].anchor
           /\ send'[s].with_setup = send[s].with_setup
           /\ send'[s].stage = send[s].stage
    BY <1>6, SendType DEF Tick, Older, Bundles
  <2>3. SameIndexes
    BY <2>2 DEF SameIndexes, Paid, Stage
  <2>4. PaidByIndex'
    BY <2>1, <2>3, IndexesKept
  <2>5. BuiltInTime'
    BY <2>1, <2>2 DEF BuiltInTime, Stage
  <2> QED BY <2>1, <2>4, <2>5 DEF NonceFollowsMultisig, SetupIsOurs, Initialized
<1>7. CASE StrangerInitializes
  <2>1. transaction_index = -1 /\ transaction_index' = 0 /\ UNCHANGED <<send, nonce_account, setup_landed>>
    BY <1>1, <1>7 DEF StrangerInitializes, Meddle
  <2>2. PaidByIndex'
    BY <2>1, IndexesOfSame, IndexesKept
  <2>3. BuiltInTime'
    BY <1>1, <2>1 DEF BuiltInTime, Stage
  <2>4. NonceFollowsMultisig' /\ SetupIsOurs'
    BY <2>1 DEF NonceFollowsMultisig, SetupIsOurs, Initialized, NoMultisig
  <2> QED BY <2>2, <2>3, <2>4
<1>8. CASE StrangerProvisions \/ StrangerFunds \/ StrangerWithdraws \/ StrangerHandsOver
             \/ AuthorityAdvances
  <2>1. UNCHANGED <<send, transaction_index, setup_landed>>
    BY <1>8 DEF StrangerProvisions, StrangerFunds, StrangerWithdraws, StrangerHandsOver,
                AuthorityAdvances, Meddle
  <2>2. BuiltInTime' /\ PaidByIndex'
    BY <2>1 DEF BuiltInTime, PaidByIndex, Paid, Stage
  <2>3. NonceFollowsMultisig'
    <3>1. CASE StrangerHandsOver
      BY <2>1, <3>1 DEF NonceFollowsMultisig, Initialized, StrangerHandsOver, TypeOK, Accounts
    <3> QED BY <1>8, <2>1, <3>1 DEF NonceFollowsMultisig, Initialized, StrangerProvisions,
                  StrangerFunds, StrangerWithdraws, AuthorityAdvances, Lamports, Absent
  <2>4. SetupIsOurs'
    <3>1. CASE StrangerProvisions \/ StrangerFunds
      BY <2>1, <3>1 DEF SetupIsOurs, StrangerProvisions, StrangerFunds, Provisionable
    <3>2. CASE StrangerWithdraws \/ StrangerHandsOver
      BY <2>1, <3>2, SetupAssumption DEF SetupIsOurs, StrangerWithdraws, StrangerHandsOver
    <3>3. CASE AuthorityAdvances
      BY <2>1, <3>3, AccountType DEF SetupIsOurs, AuthorityAdvances, Initialized
    <3> QED BY <1>8, <3>1, <3>2, <3>3
  <2> QED BY <2>2, <2>3, <2>4
<1> QED
  BY <1>2, <1>3, <1>4, <1>5, <1>6, <1>7, <1>8
  DEF Next, vars, chain, SetupCall, SetupReturns, SetupTimesOut

\* It holds initially.
LEMMA IndexInitially == Init => IndexInv
<1> SUFFICES ASSUME Init PROVE IndexInv
  OBVIOUS
<1>1. Paid = {} /\ 1..transaction_index = {}
  BY DEF Init, Paid, Stage, Unbuilt, NoMultisig
<1>2. PaidByIndex
  BY <1>1 DEF PaidByIndex
<1>3. BuiltInTime
  BY DEF Init, BuiltInTime, Stage, Unbuilt, NoMultisig
<1> QED
  BY <1>2, <1>3 DEF Init, IndexInv, NonceFollowsMultisig, SetupIsOurs, Absent

\* The invariant about indexes.
LEMMA IndexInvariant == Spec => []IndexInv
<1>1. Spec => []TypeOK
  BY TypeCorrect
<1> QED
  BY <1>1, IndexInitially, IndexInduction, PTL DEF Spec

\* The paid bundles have the indexes up to the multisig's, one each.
THEOREM PaidInOrder == Spec => []PaidByIndex
<1>1. IndexInv => PaidByIndex
  BY DEF IndexInv
<1> QED
  BY <1>1, IndexInvariant, PTL

\* A setup that landed in one transaction is the relay's.
THEOREM OwnSetup == Spec => []SetupIsOurs
<1>1. IndexInv => SetupIsOurs
  BY DEF IndexInv
<1> QED
  BY <1>1, IndexInvariant, PTL

-----------------------------------------------------------------------------
(***************************************************************************)
(* The promise: the steps of the flow are steps of PaymentFate.            *)
(***************************************************************************)

\* The terms a bundle was signed on do not change, and time only passes.
SameTerms(s) ==
    /\ send'[s].anchor = send[s].anchor
    /\ send'[s].nonce = send[s].nonce
    /\ send'[s].index = send[s].index
    /\ send'[s].with_setup = send[s].with_setup
    /\ send'[s].age >= send[s].age

Rests(s) == SameTerms(s) /\ send'[s].stage = send[s].stage

Moves(s) ==
    \/ /\ Stage(s) \in {"idle", "anchored"}
       /\ send'[s].stage # "paid"
    \/ /\ Stage(s) \in {"wallet_signed", "key_signed"}
       /\ UNCHANGED chain
       /\ SameTerms(s)
       /\ send'[s].age = send[s].age
       /\ \/ send'[s].stage \in {"key_signed", "given_up"}
          \/ send'[s].stage = "sent" /\ Alive(s)
    \/ /\ Stage(s) = "sent"
       /\ \/ send'[s].stage = "paid" /\ Alive(s)
          \/ send'[s].stage = "failed"

\* One bundle moves at a time.
LEMMA OneMoves ==
    ASSUME TypeOK, [Next]_vars
    PROVE  \/ \A s \in Send : Rests(s)
           \/ \E s \in Send : Moves(s) /\ \A u \in Send \ {s} : Rests(u)
<1>1. ASSUME UNCHANGED send PROVE \A s \in Send : Rests(s)
  BY <1>1, SendType DEF Rests, SameTerms
<1>2. CASE Tick
  <2>1. \A s \in Send : Rests(s)
    <3> SUFFICES ASSUME NEW s \in Send PROVE Rests(s)
      OBVIOUS
    <3>1. CASE Ages(s)
      <4>1. send'[s] = [send[s] EXCEPT !.age = send[s].age + 1]
        BY <1>2, <3>1 DEF Tick, Older
      <4> QED BY <4>1, SendType DEF Bundles, Rests, SameTerms
    <3>2. CASE ~Ages(s)
      <4>1. send'[s] = send[s]
        BY <1>2, <3>2 DEF Tick
      <4> QED BY <4>1, SendType DEF Rests, SameTerms
    <3> QED BY <3>1, <3>2
  <2> QED BY <2>1
<1>3. ASSUME NEW s \in Send, \/ Anchor(s) \/ BuildAndSign(s) \/ BuildOnReturned(s)
                             \/ KeySign(s) \/ Broadcast(s) \/ Land(s)
      PROVE  Moves(s) /\ \A u \in Send \ {s} : Rests(u)
  <2>1. \A u \in Send \ {s} : send'[u] = send[u]
    BY <1>3, SendType
    DEF Anchor, BuildAndSign, BuildOnReturned, KeySign, Broadcast, Land, Pay, Revert
  <2>2. \A u \in Send \ {s} : Rests(u)
    BY <2>1, SendType DEF Rests, SameTerms
  <2>3. CASE Anchor(s) \/ BuildAndSign(s) \/ BuildOnReturned(s)
    <3>1. Stage(s) \in {"idle", "anchored"} /\ send'[s].stage # "paid"
      BY <2>3, SendType DEF Anchor, BuildAndSign, BuildOnReturned, Stage, Bundles
    <3> QED BY <2>2, <3>1 DEF Moves
  <2>4. ASSUME NEW st \in {"key_signed", "sent", "given_up", "paid", "failed"},
               send' = [send EXCEPT ![s].stage = st]
        PROVE  SameTerms(s) /\ send'[s].age = send[s].age /\ send'[s].stage = st
    BY <2>4, SendType DEF SameTerms, Bundles
  <2>5. CASE KeySign(s)
    BY <2>2, <2>4, <2>5 DEF KeySign, Moves
  <2>6. CASE Broadcast(s)
    BY <2>2, <2>4, <2>6 DEF Broadcast, Landable, AnchorHolds, Alive, Moves
  <2>7. CASE Land(s)
    BY <2>2, <2>4, <2>7 DEF Land, Pay, Revert, AnchorHolds, Alive, Moves
  <2> QED BY <1>3, <2>3, <2>5, <2>6, <2>7
<1> QED
  BY <1>1, <1>2, <1>3
  DEF Next, vars, chain, SetupCall, SetupReturns, SetupTimesOut, SetupLands, StrangerInitializes,
      StrangerProvisions, StrangerFunds, StrangerWithdraws, StrangerHandsOver, AuthorityAdvances,
      Meddle

\* The index only grows.
LEMMA IndexGrows ==
    ASSUME TypeOK, [Next]_vars
    PROVE  /\ transaction_index' \in Nat \cup {-1}
           /\ transaction_index' >= transaction_index
<1>1. /\ transaction_index \in Nat \cup {-1}
      /\ ~Initialized => transaction_index = -1
      /\ Initialized => transaction_index \in Nat
  BY DEF TypeOK, NoMultisig, Initialized
<1> QED
  BY <1>1, CounterSteps

\* Before there is a multisig, a nonce address with lamports keeps them.
LEMMA LamportsStay ==
    ASSUME TypeOK, IndexInv, [Next]_vars, ~Initialized, ~Provisionable
    PROVE  Initialized' \/ ~Provisionable'
<1>1. nonce_account = Lamports
  BY DEF TypeOK, IndexInv, NonceFollowsMultisig, Provisionable, Absent
<1>2. CASE UNCHANGED nonce_account
  BY <1>2 DEF Provisionable
<1>3. ASSUME NEW m \in setup_wire, SetupLands(m) PROVE ~Provisionable'
  BY <1>3, AccountType DEF SetupLands, SetupEffect, Provisionable, chain
<1>4. ASSUME NEW s \in Send, Land(s) PROVE ~Provisionable'
  BY <1>4, AccountType DEF Land, NonceAfter, Provisionable
<1>5. CASE StrangerProvisions \/ AuthorityAdvances
  BY <1>5, AccountType DEF StrangerProvisions, AuthorityAdvances, Provisionable
<1>6. CASE StrangerFunds
  BY <1>6 DEF StrangerFunds, Provisionable, Lamports
<1>7. CASE StrangerWithdraws \/ StrangerHandsOver
  BY <1>1, <1>7, SetupAssumption DEF StrangerWithdraws, StrangerHandsOver, Lamports
<1> QED
  BY <1>2, <1>3, <1>4, <1>5, <1>6, <1>7
  DEF Next, vars, chain, SetupCall, SetupReturns, SetupTimesOut, Anchor, BuildAndSign,
      BuildOnReturned, KeySign, Broadcast, Tick, StrangerInitializes, Meddle

\* What the account's value is after a step.
LEMMA ValueMoves ==
    ASSUME TypeOK, [Next]_vars
    PROVE  SameValue \/ FreshValue \/ ValueGone
BY NonceSteps DEF NonceStep, SpendsValue, TakesValue

\* An anchor that is lost is never had again.
LEMMA AnchorStaysLost ==
    ASSUME TypeOK, NonceInv, [Next]_vars, NEW s \in Send, SameTerms(s), AnchorLost(s)
    PROVE  AnchorLost(s)'
<1>1. /\ send[s].anchor \in {"live", "durable"} /\ WINDOW \in Nat
      /\ send[s].age \in Nat /\ send[s].nonce \in Nat /\ next_nonce \in Nat
  BY SetupAssumption, SendType DEF Bundles
<1>2. send'[s].age \in Nat
  <2>1. send' \in [Send -> Bundles]
    BY NextTyped DEF TypeOK
  <2> QED BY <2>1, SetupAssumption DEF Bundles
<1>3. CASE send[s].anchor = "live"
  BY <1>1, <1>2, <1>3 DEF AnchorLost, SameTerms
<1>4. CASE send[s].anchor = "durable"
  <2>1. send'[s].anchor = "durable" /\ send'[s].nonce = send[s].nonce
    BY <1>4 DEF SameTerms
  <2>2. send[s].nonce >= 1 /\ send[s].nonce < next_nonce
    BY <1>4 DEF NonceInv, ValuesInOrder, Durable
  <2>3. send[s].nonce # nonce_account.nonce
    BY <1>4 DEF AnchorLost
  <2>4. send[s].nonce # nonce_account'.nonce
    BY <1>1, <2>2, <2>3, ValueMoves DEF SameValue, FreshValue, ValueGone
  <2> QED BY <2>1, <2>4 DEF AnchorLost
<1> QED
  BY <1>1, <1>3, <1>4

\* Terms that do not fit the chain never fit it again.
LEMMA IndexStaysVoid ==
    ASSUME TypeOK, IndexInv, [Next]_vars, NEW s \in Send, SameTerms(s), ~IndexFits(s)
    PROVE  ~IndexFits(s)'
<1>1. /\ transaction_index \in Nat \cup {-1} /\ transaction_index' \in Nat \cup {-1}
      /\ transaction_index' >= transaction_index
      /\ send[s].index \in Nat
  <2>1. transaction_index \in Nat \cup {-1}
    BY DEF TypeOK, NoMultisig
  <2> QED BY <2>1, IndexGrows, SendType
<1>2. Initialized => Initialized'
  BY <1>1 DEF Initialized, NoMultisig
<1>3. send'[s].with_setup = send[s].with_setup /\ send'[s].index = send[s].index
  BY DEF SameTerms
<1>4. CASE send[s].with_setup
  <2>1. Initialized \/ ~Provisionable
    BY <1>4 DEF IndexFits
  <2>2. Initialized' \/ ~Provisionable'
    BY <1>2, <2>1, LamportsStay
  <2> QED BY <1>3, <1>4, <2>2 DEF IndexFits
<1>5. CASE ~send[s].with_setup
  <2>1. send[s].index <= transaction_index + 1
    BY <1>5 DEF IndexInv, BuiltInTime
  <2>2. ~Initialized \/ send[s].index # transaction_index + 1
    BY <1>5 DEF IndexFits
  <2>3. CASE transaction_index' = transaction_index
    BY <1>3, <1>5, <2>2, <2>3 DEF IndexFits, Initialized
  <2>4. CASE transaction_index' > transaction_index
    <3>1. send[s].index # transaction_index' + 1
      BY <1>1, <2>1, <2>4
    <3> QED BY <1>3, <1>5, <3>1 DEF IndexFits
  <2> QED BY <1>1, <2>3, <2>4
<1> QED
  BY <1>4, <1>5

\* The fate of a bundle, by its stage.
LEMMA FateOf ==
    ASSUME TypeOK, NEW s \in Send
    PROVE  /\ Fate(s) \in {"draft", "signed", "paid", "void"}
           /\ Fate(s) = "paid" <=> Stage(s) = "paid"
           /\ Fate(s) = "void" <=> \/ Stage(s) \in {"failed", "given_up"}
                                   \/ Stage(s) \in SignedStages /\ ~Alive(s)
           /\ Fate(s) = "signed" <=> Stage(s) = "sent" /\ Alive(s)
<1>1. CASE Stage(s) = "paid"
  <2>1. Fate(s) = "paid"
    BY <1>1 DEF Fate, Stage, SignedStages
  <2> QED BY <1>1, <2>1 DEF SignedStages
<1>2. CASE Stage(s) \in {"failed", "given_up"}
  <2>1. Fate(s) = "void"
    BY <1>2 DEF Fate, Stage, SignedStages
  <2>2. Stage(s) # "paid" /\ Stage(s) # "sent"
    BY <1>2
  <2> QED BY <1>2, <2>1, <2>2
<1>3. CASE Stage(s) \in SignedStages /\ ~Alive(s)
  <2>1. Fate(s) = "void"
    BY <1>3 DEF Fate, Stage, SignedStages
  <2> QED BY <1>3, <2>1 DEF SignedStages
<1>4. CASE Stage(s) = "sent" /\ Alive(s)
  <2>1. Fate(s) = "signed"
    BY <1>4 DEF Fate, Stage, SignedStages
  <2> QED BY <1>4, <2>1 DEF SignedStages
<1>5. CASE /\ Stage(s) \notin {"paid", "failed", "given_up"}
           /\ ~(Stage(s) \in SignedStages /\ ~Alive(s))
           /\ ~(Stage(s) = "sent" /\ Alive(s))
  <2>1. Fate(s) = "draft"
    BY <1>5 DEF Fate, Stage, SignedStages
  <2> QED BY <1>5, <2>1 DEF SignedStages
<1> QED
  BY <1>1, <1>2, <1>3, <1>4, <1>5

\* The same after a step.
LEMMA FateThen ==
    ASSUME TypeOK', NEW s \in Send
    PROVE  /\ Fate(s)' \in {"draft", "signed", "paid", "void"}
           /\ Fate(s)' = "paid" <=> send'[s].stage = "paid"
           /\ Fate(s)' = "void" <=> \/ send'[s].stage \in {"failed", "given_up"}
                                    \/ send'[s].stage \in SignedStages /\ ~Alive(s)'
           /\ Fate(s)' = "signed" <=> send'[s].stage = "sent" /\ Alive(s)'
<1>1. CASE send'[s].stage = "paid"
  <2>1. Fate(s)' = "paid"
    BY <1>1 DEF Fate, Stage, SignedStages
  <2> QED BY <1>1, <2>1 DEF SignedStages
<1>2. CASE send'[s].stage \in {"failed", "given_up"}
  <2>1. Fate(s)' = "void"
    BY <1>2 DEF Fate, Stage, SignedStages
  <2>2. send'[s].stage # "paid" /\ send'[s].stage # "sent"
    BY <1>2
  <2> QED BY <1>2, <2>1, <2>2
<1>3. CASE send'[s].stage \in SignedStages /\ ~Alive(s)'
  <2>1. Fate(s)' = "void"
    BY <1>3 DEF Fate, Stage, SignedStages
  <2> QED BY <1>3, <2>1 DEF SignedStages
<1>4. CASE send'[s].stage = "sent" /\ Alive(s)'
  <2>1. Fate(s)' = "signed"
    BY <1>4 DEF Fate, Stage, SignedStages
  <2> QED BY <1>4, <2>1 DEF SignedStages
<1>5. CASE /\ send'[s].stage \notin {"paid", "failed", "given_up"}
           /\ ~(send'[s].stage \in SignedStages /\ ~Alive(s)')
           /\ ~(send'[s].stage = "sent" /\ Alive(s)')
  <2>1. Fate(s)' = "draft"
    BY <1>5 DEF Fate, Stage, SignedStages
  <2> QED BY <1>5, <2>1 DEF SignedStages
<1> QED
  BY <1>1, <1>2, <1>3, <1>4, <1>5

\* The fate of a bundle after a step may follow the one before.
LEMMA FateFollows ==
    ASSUME TypeOK, TypeOK', NonceInv, IndexInv, [Next]_vars, NEW s \in Send,
           Rests(s) \/ Moves(s)
    PROVE  Promised!MayFollow(Fate(s), Fate(s)')
<1> USE FateOf, FateThen DEF Promised!MayFollow
<1>1. ASSUME SameTerms(s), ~Alive(s) PROVE ~Alive(s)'
  BY <1>1, AnchorStaysLost, IndexStaysVoid DEF Alive
<1>2. CASE Rests(s)
  <2>1. send'[s].stage = Stage(s)
    BY <1>2 DEF Rests, Stage
  <2>2. CASE Fate(s) = "void"
    BY <1>1, <1>2, <2>1, <2>2 DEF Rests
  <2>3. CASE Fate(s) = "signed"
    BY <2>1, <2>3 DEF SignedStages
  <2>4. CASE Fate(s) = "paid"
    BY <2>1, <2>4
  <2> QED BY <2>2, <2>3, <2>4
<1>3. CASE Stage(s) \in {"idle", "anchored"}
  BY <1>3 DEF SignedStages
<1>4. CASE /\ Stage(s) \in {"wallet_signed", "key_signed"}
           /\ SameTerms(s)
           /\ \/ send'[s].stage \in {"key_signed", "given_up"}
              \/ send'[s].stage = "sent" /\ Alive(s)
  BY <1>1, <1>4 DEF SignedStages
<1>5. CASE /\ Stage(s) = "sent"
           /\ \/ send'[s].stage = "paid" /\ Alive(s)
              \/ send'[s].stage = "failed"
  <2>1. Fate(s) \in {"signed", "void"} /\ (Alive(s) => Fate(s) = "signed")
    BY <1>5 DEF SignedStages
  <2>2. CASE send'[s].stage = "paid" /\ Alive(s)
    BY <2>1, <2>2
  <2>3. CASE send'[s].stage = "failed"
    <3>1. Fate(s)' = "void"
      BY <2>3, FateThen
    <3> QED BY <2>1, <3>1
  <2> QED BY <1>5, <2>2, <2>3
<1> QED
  BY <1>2, <1>3, <1>4, <1>5 DEF Moves

\* Every step of the flow decides fates as PaymentFate allows.
LEMMA FlowDecides ==
    ASSUME TypeOK, TypeOK', NonceInv, IndexInv, [Next]_vars
    PROVE  [Promised!Decide]_fates
<1>1. \A s \in Send : Promised!MayFollow(fates[s], fates'[s])
  <2>1. ASSUME NEW s \in Send PROVE Promised!MayFollow(Fate(s), Fate(s)')
    BY OneMoves, FateFollows
  <2> QED BY <2>1 DEF fates
<1>2. fates' \in [Send -> Promised!Fates]
  BY FateThen DEF fates, Promised!Fates
<1>3. ASSUME NEW s \in Send, NEW u \in Send,
             fates'[s] = "paid", fates'[u] = "paid", fates[s] # "paid", fates[u] # "paid"
      PROVE  s = u
  <2>1. /\ send'[s].stage = "paid" /\ Stage(s) # "paid"
        /\ send'[u].stage = "paid" /\ Stage(u) # "paid"
    BY <1>3, FateOf, FateThen DEF fates
  <2>2. ~Rests(s) /\ ~Rests(u)
    BY <2>1 DEF Rests, Stage
  <2> QED BY <2>2, OneMoves
<1> QED
  BY <1>1, <1>2, <1>3 DEF Promised!Decide

\* Whatever is lost, late, stale or done by somebody else first: a bundle is
\* paid at most once and one that became void is never paid.
THEOREM PromiseKept == Spec => Promised!Undecided /\ [][Promised!Decide]_fates
<1>1. Init => Promised!Undecided
  BY DEF Init, Promised!Undecided, fates, Fate, Stage, Unbuilt, SignedStages
<1>2. TypeOK /\ TypeOK' /\ NonceInv /\ IndexInv /\ [Next]_vars => [Promised!Decide]_fates
  BY FlowDecides
<1>3. Spec => []TypeOK /\ []NonceInv /\ []IndexInv
  BY TypeCorrect, NonceInvariant, IndexInvariant
<1> QED
  BY <1>1, <1>2, <1>3, PTL DEF Spec

=============================================================================
