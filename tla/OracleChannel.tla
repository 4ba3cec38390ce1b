---------------------------- MODULE OracleChannel ----------------------------
(***************************************************************************)
(* What the BSC -> Greenfield oracle channel promises, with no relayer in  *)
(* it (spec.md sections 2, 3 and 4.D): BSC emits oracle sequences in       *)
(* order; the validators' votes on a sequence are collected; Greenfield    *)
(* receives each sequence exactly once, in order, from some relayer, and   *)
(* only after its votes are collected.  BscAssemblerRefinement shows that  *)
(* the assembler pipeline implements this specification.                   *)
(***************************************************************************)
EXTENDS Naturals, TLAPS

CONSTANTS
    Relayers,    \* the relayer processes that may submit claims
    NoRelayer,   \* no claim yet
    MaxSeq       \* BSC emits sequences 0 .. MaxSeq - 1

Seqs == 0 .. MaxSeq - 1

VARIABLES
    sent,        \* BSC's next send sequence
    voted,       \* the sequences whose votes are collected
    delivered,   \* Greenfield's next receive sequence
    deliverer    \* deliverer[s]: the relayer whose claim of s landed

vars == <<sent, voted, delivered, deliverer>>

TypeOK ==
    /\ sent \in 0 .. MaxSeq
    /\ voted \in SUBSET Seqs
    /\ delivered \in 0 .. MaxSeq
    /\ deliverer \in [Seqs -> Relayers \cup {NoRelayer}]

Init ==
    /\ sent = 0
    /\ voted = {}
    /\ delivered = 0
    /\ deliverer = [s \in Seqs |-> NoRelayer]

\* BSC emits its next sequence.
Send ==
    /\ sent < MaxSeq
    /\ sent' = sent + 1
    /\ UNCHANGED <<voted, delivered, deliverer>>

\* The votes on an emitted sequence are collected.
Vote(s) ==
    /\ s < sent
    /\ s \notin voted
    /\ voted' = voted \cup {s}
    /\ UNCHANGED <<sent, delivered, deliverer>>

\* Greenfield receives the next sequence, whose votes are collected, from r.
Deliver(r) ==
    /\ delivered < sent
    /\ delivered \in voted
    /\ delivered' = delivered + 1
    /\ deliverer' = [deliverer EXCEPT ![delivered] = r]
    /\ UNCHANGED <<sent, voted>>

Next ==
    \/ Send
    \/ \E s \in Seqs : Vote(s)
    \/ \E r \in Relayers : Deliver(r)

Spec == Init /\ [][Next]_vars


-----------------------------------------------------------------------------
\* What the channel guarantees at every moment: Greenfield has received
\* only sequences BSC sent, and every one of them had its votes collected
\* and names the relayer that delivered it.
ChannelSafe ==
    /\ delivered <= sent
    /\ \A s \in Seqs : s < delivered => s \in voted /\ deliverer[s] \in Relayers

\* The channel is safe in every reachable state, for every set of relayers
\* and every bound: a delivery needs its sequence voted, and votes and
\* deliverers are never taken back.
LEMMA ChannelSafeHolds ==
    ASSUME MaxSeq \in Nat
    PROVE  Spec => [](TypeOK /\ ChannelSafe)
<1>1. Init => TypeOK /\ ChannelSafe
  BY DEF Init, TypeOK, ChannelSafe, Seqs
<1>2. TypeOK /\ ChannelSafe /\ [Next]_vars => (TypeOK /\ ChannelSafe)'
  <2> SUFFICES ASSUME TypeOK, ChannelSafe, [Next]_vars
               PROVE  (TypeOK /\ ChannelSafe)'
    OBVIOUS
  <2>1. CASE Send
    <3>1. TypeOK'
      BY <2>1 DEF Send, TypeOK
    <3>2. QED
      BY <2>1, <3>1 DEF Send, TypeOK, ChannelSafe
  <2>2. ASSUME NEW u \in Seqs, Vote(u) PROVE (TypeOK /\ ChannelSafe)'
    BY <2>2 DEF Vote, TypeOK, ChannelSafe, Seqs
  <2>3. ASSUME NEW r \in Relayers, Deliver(r) PROVE (TypeOK /\ ChannelSafe)'
    <3>1. delivered \in Seqs
      BY <2>3 DEF Deliver, TypeOK, Seqs
    <3>2. TypeOK'
      <4>1. delivered' \in 0 .. MaxSeq
        BY <2>3 DEF Deliver, TypeOK
      <4>2. deliverer' \in [Seqs -> Relayers \cup {NoRelayer}]
        BY <2>3, <3>1 DEF Deliver, TypeOK
      <4>3. QED
        BY <2>3, <4>1, <4>2 DEF Deliver, TypeOK
    <3>3. delivered' <= sent'
      BY <2>3 DEF Deliver, TypeOK
    <3>4. ASSUME NEW s \in Seqs, s < delivered'
          PROVE  s \in voted' /\ deliverer'[s] \in Relayers
      <4>1. CASE s = delivered
        BY <2>3, <3>1, <4>1 DEF Deliver, TypeOK
      <4>2. CASE s # delivered
        <5>1. s < delivered
          BY <2>3, <3>4, <4>2 DEF Deliver, TypeOK, Seqs
        <5>2. QED
          BY <2>3, <5>1, <4>2 DEF Deliver, TypeOK, ChannelSafe
      <4>3. QED
        BY <4>1, <4>2
    <3>5. QED
      BY <3>2, <3>3, <3>4 DEF ChannelSafe
  <2>4. CASE UNCHANGED vars
    BY <2>4 DEF vars, TypeOK, ChannelSafe
  <2>5. QED
    BY <2>1, <2>2, <2>3, <2>4 DEF Next
<1>3. QED
  BY <1>1, <1>2, PTL DEF Spec

=============================================================================
