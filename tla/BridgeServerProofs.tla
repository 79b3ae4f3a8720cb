------------------------- MODULE BridgeServerProofs -------------------------
(***************************************************************************)
(* Theorems about BridgeServer for any extensions, sockets, grants and     *)
(* calls: where pending calls wait, how often a call is sent, how sessions *)
(* stay apart, how revocations reach theirs and which calls they end.      *)
(***************************************************************************)
EXTENDS BridgeServer, FiniteSetTheorems, TLAPS

USE DEF history

LEMMA Numbers ==
  /\ MaxSockets \in Nat
  /\ Targets = SocketIds
  /\ \A s \in SocketIds : s \in Nat /\ s # 0 /\ s <= MaxSockets
  /\ \A n \in Nat : n # 0 /\ n <= MaxSockets => n \in SocketIds
  BY BridgeAssumption DEF SocketIds

(* SetToSeq lists every element of a finite set once.                      *)
LEMMA SeqOfSet ==
  ASSUME NEW S, IsFiniteSet(S)
  PROVE  /\ Cardinality(S) \in Nat
         /\ SetToSeq(S) \in [1..Cardinality(S) -> S]
         /\ \A i, j \in 1..Cardinality(S) : SetToSeq(S)[i] = SetToSeq(S)[j] => i = j
         /\ \A x \in S : \E i \in 1..Cardinality(S) : SetToSeq(S)[i] = x
<1> DEFINE n == Cardinality(S)
<1>1. n \in Nat /\ ExistsBijection(1..n, S)
  BY FS_CardinalityType
<1>2. \E f \in [1..n -> S] : IsInjective(f)
  BY <1>1 DEF ExistsBijection, Bijection, Injection
<1>3. SetToSeq(S) \in [1..n -> S] /\ IsInjective(SetToSeq(S))
  BY <1>2 DEF SetToSeq
<1>4. SetToSeq(S) \in Injection(1..n, S)
  BY <1>3 DEF Injection
<1>5. Cardinality(1..n) = n
  BY <1>1, FS_Interval
<1>6. SetToSeq(S) \in Surjection(1..n, S)
  BY <1>4, <1>5, FS_Injection
<1> QED BY <1>1, <1>3, <1>6 DEF IsInjective, Surjection

LEMMA RevokeFramesListed ==
  ASSUME NEW S \in SUBSET Grants
  PROVE  /\ RevokeFrames(S) \in Seq(Frames)
         /\ \A i \in DOMAIN RevokeFrames(S) : RevokeFrames(S)[i].kind = "revoke"
         /\ \A g \in S : \E i \in DOMAIN RevokeFrames(S) : RevokeFrames(S)[i] = RevokeFrame(g)
<1>1. IsFiniteSet(S)
  BY GrantStoreAssumption, FS_Subset
<1> DEFINE n == Cardinality(S)
<1>2. /\ n \in Nat
      /\ SetToSeq(S) \in [1..n -> S]
      /\ \A x \in S : \E i \in 1..n : SetToSeq(S)[i] = x
  BY <1>1, SeqOfSet
<1>3. RevokeFrames(S) = [i \in 1..n |-> RevokeFrame(SetToSeq(S)[i])]
  BY DEF RevokeFrames
<1> HIDE DEF n
<1>4. \A i \in 1..n : RevokeFrame(SetToSeq(S)[i]) \in Frames
  BY <1>2 DEF Frames
<1>5. RevokeFrames(S) \in [1..n -> Frames]
  BY <1>3, <1>4
<1>6. RevokeFrames(S) \in Seq(Frames)
  BY <1>2, <1>5
<1> QED BY SMTT(30), <1>2, <1>3, <1>6 DEF RevokeFrame

LEMMA CallFramesListed ==
  ASSUME NEW S \in SUBSET Calls
  PROVE  /\ CallFrames(S) \in Seq(Frames)
         /\ \A i \in DOMAIN CallFrames(S) : \E c \in S : CallFrames(S)[i] = CallFrame(c)
         /\ \A i, j \in DOMAIN CallFrames(S) : CallFrames(S)[i] = CallFrames(S)[j] => i = j
<1>1. IsFiniteSet(S)
  BY BridgeAssumption, FS_Subset
<1> DEFINE n == Cardinality(S)
<1>2. /\ n \in Nat
      /\ SetToSeq(S) \in [1..n -> S]
      /\ \A i, j \in 1..n : SetToSeq(S)[i] = SetToSeq(S)[j] => i = j
  BY <1>1, SeqOfSet
<1>3. CallFrames(S) = [i \in 1..n |-> CallFrame(SetToSeq(S)[i])]
  BY DEF CallFrames
<1> HIDE DEF n
<1>4. \A i \in 1..n : CallFrame(SetToSeq(S)[i]) \in Frames
  BY <1>2 DEF Frames
<1>5. CallFrames(S) \in [1..n -> Frames]
  BY <1>3, <1>4
<1>6. CallFrames(S) \in Seq(Frames)
  BY <1>2, <1>5
<1>7. ASSUME NEW i \in DOMAIN CallFrames(S), NEW j \in DOMAIN CallFrames(S),
             CallFrames(S)[i] = CallFrames(S)[j]
      PROVE  i = j
  <2>1. CallFrame(SetToSeq(S)[i]) = CallFrame(SetToSeq(S)[j])
    BY <1>3, <1>7
  <2>2. SetToSeq(S)[i] = SetToSeq(S)[j]
    BY <2>1 DEF CallFrame
  <2> QED BY <2>2, <1>2, <1>3
<1> QED BY <1>2, <1>3, <1>6, <1>7

LEMMA FramesDiffer ==
  \A c \in Calls, g \in Grants : CallFrame(c) # RevokeFrame(g)
  BY DEF CallFrame, RevokeFrame

LEMMA FrameOfCall ==
  \A c, d \in Calls : CallFrame(c) = CallFrame(d) => c = d
  BY DEF CallFrame

(* What a new socket first carries, for any session k and calls cs.        *)
LEMMA OpeningListed ==
  ASSUME NEW k, NEW cs, NEW box, box[k] \in SUBSET Grants
  PROVE  LET w == OpeningFrames(k, cs, box) IN
         /\ w \in Seq(Frames)
         /\ \A g \in box[k] : \E i \in 1..Len(w) :
              w[i] = RevokeFrame(g) /\ \A j \in 1..i : w[j].kind = "revoke"
         /\ \A c \in Calls : \A i \in DOMAIN w : w[i] = CallFrame(c) => c \in ArmedCalls(cs)
         /\ \A c \in Calls : \A i, j \in DOMAIN w :
              w[i] = CallFrame(c) /\ w[j] = CallFrame(c) => i = j
<1> DEFINE R == RevokeFrames(box[k])
           C == CallFrames(ArmedCalls(cs))
           w == OpeningFrames(k, cs, box)
<1>1. ArmedCalls(cs) \in SUBSET Calls
  BY DEF ArmedCalls
<1>2. /\ R \in Seq(Frames)
      /\ \A i \in DOMAIN R : R[i].kind = "revoke"
      /\ \A g \in box[k] : \E i \in DOMAIN R : R[i] = RevokeFrame(g)
  BY RevokeFramesListed
<1>3. /\ C \in Seq(Frames)
      /\ \A i \in DOMAIN C : \E c \in ArmedCalls(cs) : C[i] = CallFrame(c)
      /\ \A i, j \in DOMAIN C : C[i] = C[j] => i = j
  BY <1>1, CallFramesListed
<1>4. w = R \o C
  BY DEF OpeningFrames
<1> HIDE DEF R, C, w
<1>5. /\ w \in Seq(Frames)
      /\ Len(w) = Len(R) + Len(C)
      /\ Len(R) \in Nat /\ Len(C) \in Nat
      /\ DOMAIN w = 1..Len(w) /\ DOMAIN R = 1..Len(R) /\ DOMAIN C = 1..Len(C)
      /\ \A i \in 1..Len(R) : w[i] = R[i]
      /\ \A i \in 1..Len(w) : i > Len(R) => w[i] = C[i - Len(R)] /\ i - Len(R) \in 1..Len(C)
  <2>1. /\ R \in Seq(Frames) /\ C \in Seq(Frames)
        /\ Len(R) \in Nat /\ Len(C) \in Nat
        /\ DOMAIN R = 1..Len(R) /\ DOMAIN C = 1..Len(C)
    BY <1>2, <1>3
  <2>2. w \in Seq(Frames) /\ Len(w) = Len(R) + Len(C) /\ DOMAIN w = 1..Len(w)
    BY <1>4, <2>1
  <2>3. \A i \in 1..Len(w) : w[i] = IF i <= Len(R) THEN R[i] ELSE C[i - Len(R)]
    BY <1>4, <2>1, <2>2
  <2>4. ASSUME NEW i \in 1..Len(w), i > Len(R)
        PROVE  w[i] = C[i - Len(R)] /\ i - Len(R) \in 1..Len(C)
    <3>1. ~(i <= Len(R)) /\ i - Len(R) \in 1..Len(C)
      BY <2>1, <2>2, <2>4
    <3> QED BY <2>3, <3>1
  <2>5. ASSUME NEW i \in 1..Len(R) PROVE w[i] = R[i]
    <3>1. i \in 1..Len(w) /\ i <= Len(R)
      BY <2>1, <2>2
    <3> QED BY <2>3, <3>1
  <2> QED BY <2>1, <2>2, <2>4, <2>5
<1>6. ASSUME NEW g \in box[k]
      PROVE  \E i \in 1..Len(w) : w[i] = RevokeFrame(g) /\ \A j \in 1..i : w[j].kind = "revoke"
  <2>1. PICK i \in 1..Len(R) : R[i] = RevokeFrame(g)
    BY <1>2, <1>5
  <2>2. ASSUME NEW j \in 1..i PROVE w[j].kind = "revoke"
    <3>1. j \in 1..Len(R)
      BY <1>5
    <3> QED BY <3>1, <1>2, <1>5
  <2>3. i \in 1..Len(w) /\ w[i] = RevokeFrame(g)
    BY <2>1, <1>5
  <2> QED BY <2>2, <2>3
<1>7. ASSUME NEW c \in Calls, NEW i \in DOMAIN w, w[i] = CallFrame(c)
      PROVE  i > Len(R) /\ c \in ArmedCalls(cs)
  <2>1. ~(i <= Len(R))
    BY <1>2, <1>5, <1>7 DEF CallFrame
  <2>2. i > Len(R) /\ w[i] = C[i - Len(R)] /\ i - Len(R) \in DOMAIN C
    BY <2>1, <1>5
  <2>3. PICK d \in ArmedCalls(cs) : w[i] = CallFrame(d)
    BY <2>2, <1>3
  <2> QED BY <1>1, <1>7, <2>2, <2>3, FrameOfCall
<1>8. ASSUME NEW c \in Calls, NEW i \in DOMAIN w, NEW j \in DOMAIN w,
             w[i] = CallFrame(c), w[j] = CallFrame(c)
      PROVE  i = j
  <2>1. i > Len(R) /\ j > Len(R)
    BY <1>7, <1>8
  <2>2. i - Len(R) = j - Len(R)
    BY <2>1, <1>3, <1>5, <1>8
  <2> QED BY <2>2, <1>5
<1> QED BY <1>5, <1>6, <1>7, <1>8 DEF w

-----------------------------------------------------------------------------
(* What the functions that rewrite the pending map keep of a call.         *)

SameWork(r, q) ==
    /\ q \in PendingCalls
    /\ q.grant = r.grant /\ q.op = r.op
    /\ q.status = "idle" <=> r.status = "idle"

LEMMA SettledKeeps ==
  ASSUME NEW r \in PendingCalls, r.status # "idle"
  PROVE  LET q == Settled(r) IN
         SameWork(r, q) /\ q.status = "settled" /\ q.retried = r.retried
  BY DEF PendingCalls, Settled, SameWork

LEMMA LossKeeps ==
  ASSUME NEW cs \in [Calls -> PendingCalls], NEW b \in BOOLEAN
  PROVE  /\ AfterLoss(cs, b) \in [Calls -> PendingCalls]
         /\ \A c \in Calls : LET r == cs[c]
                                 q == AfterLoss(cs, b)[c]
              IN /\ SameWork(r, q)
                 /\ q.status = "pending" => /\ b /\ r.status = "pending"
                                            /\ ~r.retried /\ r.op = "read"
                                            /\ q.retried /\ q.armed
                 /\ q.status # "pending" => q.retried = r.retried
<1>1. ASSUME NEW r \in PendingCalls
      PROVE  LET q == [r EXCEPT !.retried = TRUE, !.armed = TRUE] IN
             SameWork(r, q) /\ q.status = r.status /\ q.retried /\ q.armed
  BY DEF PendingCalls, SameWork
<1>2. \A r \in PendingCalls : SameWork(r, r)
  BY DEF SameWork
<1>3. ASSUME NEW c \in Calls
      PROVE  LET r == cs[c]
                 q == AfterLoss(cs, b)[c]
             IN /\ SameWork(r, q)
                /\ q.status = "pending" => /\ b /\ r.status = "pending"
                                           /\ ~r.retried /\ r.op = "read"
                                           /\ q.retried /\ q.armed
                /\ q.status # "pending" => q.retried = r.retried
  <2> DEFINE r == cs[c]
             q == AfterLoss(cs, b)[c]
  <2>1. r \in PendingCalls
    OBVIOUS
  <2>2. CASE r.status # "pending"
    <3>1. q = r
      BY <2>2 DEF AfterLoss
    <3> QED BY <2>1, <2>2, <3>1, <1>2
  <2>3. CASE r.status = "pending" /\ b /\ ~r.retried /\ r.op = "read"
    <3>1. q = [r EXCEPT !.retried = TRUE, !.armed = TRUE]
      BY <2>3 DEF AfterLoss
    <3>2. SameWork(r, q) /\ q.status = r.status /\ q.retried /\ q.armed
      <4> HIDE DEF r, q
      <4> QED BY <2>1, <2>3, <3>1, <1>1
    <3> QED BY <2>3, <3>2
  <2>4. CASE r.status = "pending" /\ ~(b /\ ~r.retried /\ r.op = "read")
    <3>1. q = Settled(r)
      BY <2>4 DEF AfterLoss
    <3>2. SameWork(r, q) /\ q.status = "settled" /\ q.retried = r.retried
      <4> HIDE DEF r, q
      <4> QED BY <2>1, <2>4, <3>1, SettledKeeps
    <3> QED BY <2>4, <3>2
  <2> QED BY <2>2, <2>3, <2>4
<1>4. AfterLoss(cs, b) \in [Calls -> PendingCalls]
  <2>1. AfterLoss(cs, b) = [c \in Calls |-> AfterLoss(cs, b)[c]]
    BY DEF AfterLoss
  <2>2. \A c \in Calls : AfterLoss(cs, b)[c] \in PendingCalls
    BY <1>3 DEF SameWork
  <2> QED BY <2>1, <2>2
<1> QED BY <1>3, <1>4

LEMMA NobodyWaits ==
  ASSUME NEW cs \in [Calls -> PendingCalls], NEW c \in Calls
  PROVE  LET q == AfterLoss(cs, FALSE)[c] IN
         SameWork(cs[c], q) /\ q.retried = cs[c].retried /\ q.status # "pending"
<1>1. ASSUME NEW b \in BOOLEAN, ~b
      PROVE  LET q == AfterLoss(cs, b)[c] IN
             SameWork(cs[c], q) /\ q.retried = cs[c].retried /\ q.status # "pending"
  BY <1>1, LossKeeps
<1> QED BY <1>1

LEMMA ResentKeeps ==
  ASSUME NEW cs \in [Calls -> PendingCalls], NEW s \in SocketIds
  PROVE  /\ Resent(cs, s) \in [Calls -> PendingCalls]
         /\ \A c \in Calls : LET r == cs[c]
                                 q == Resent(cs, s)[c]
              IN /\ SameWork(r, q) /\ q.status = r.status /\ q.retried = r.retried
                 /\ IF r.status = "pending" /\ r.armed THEN ~q.armed /\ q.via = s
                    ELSE q = r
<1>1. ASSUME NEW r \in PendingCalls
      PROVE  LET q == [r EXCEPT !.armed = FALSE, !.via = s] IN
             SameWork(r, q) /\ q.status = r.status /\ q.retried = r.retried
               /\ ~q.armed /\ q.via = s
  BY DEF PendingCalls, SameWork
<1>2. ASSUME NEW c \in Calls
      PROVE  LET r == cs[c]
                 q == Resent(cs, s)[c]
             IN /\ SameWork(r, q) /\ q.status = r.status /\ q.retried = r.retried
                /\ IF r.status = "pending" /\ r.armed THEN ~q.armed /\ q.via = s
                   ELSE q = r
  <2> DEFINE r == cs[c]
             q == Resent(cs, s)[c]
  <2>1. r \in PendingCalls
    OBVIOUS
  <2>2. CASE r.status = "pending" /\ r.armed
    <3>1. q = [r EXCEPT !.armed = FALSE, !.via = s]
      BY <2>2 DEF Resent, ArmedCalls
    <3>2. SameWork(r, q) /\ q.status = r.status /\ q.retried = r.retried
            /\ ~q.armed /\ q.via = s
      <4> HIDE DEF r, q
      <4> QED BY <2>1, <2>2, <3>1, <1>1
    <3> QED BY <2>2, <3>2
  <2>3. CASE ~(r.status = "pending" /\ r.armed)
    <3>1. q = r
      BY <2>3 DEF Resent, ArmedCalls
    <3> QED BY <2>1, <2>3, <3>1 DEF SameWork
  <2> QED BY <2>2, <2>3
<1>3. Resent(cs, s) \in [Calls -> PendingCalls]
  <2>1. Resent(cs, s) = [c \in Calls |-> Resent(cs, s)[c]]
    BY DEF Resent
  <2>2. \A c \in Calls : Resent(cs, s)[c] \in PendingCalls
    BY <1>2 DEF SameWork
  <2> QED BY <2>1, <2>2
<1> QED BY <1>2, <1>3

LEMMA CancelledKeeps ==
  ASSUME NEW cs \in [Calls -> PendingCalls], NEW S
  PROVE  /\ Cancelled(cs, S) \in [Calls -> PendingCalls]
         /\ \A c \in Calls : LET r == cs[c]
                                 q == Cancelled(cs, S)[c]
              IN /\ SameWork(r, q) /\ q.retried = r.retried
                 /\ q.status = "pending" => q = r /\ r.grant \notin S
<1>1. ASSUME NEW c \in Calls
      PROVE  LET r == cs[c]
                 q == Cancelled(cs, S)[c]
             IN /\ SameWork(r, q) /\ q.retried = r.retried
                /\ q.status = "pending" => q = r /\ r.grant \notin S
  <2> DEFINE r == cs[c]
             q == Cancelled(cs, S)[c]
  <2>1. r \in PendingCalls
    OBVIOUS
  <2>2. CASE r.status = "pending" /\ r.grant \in S
    <3>1. q = Settled(r)
      BY <2>2 DEF Cancelled
    <3>2. SameWork(r, q) /\ q.status = "settled" /\ q.retried = r.retried
      <4> HIDE DEF r, q
      <4> QED BY <2>1, <2>2, <3>1, SettledKeeps
    <3> QED BY <2>2, <3>2
  <2>3. CASE ~(r.status = "pending" /\ r.grant \in S)
    <3>1. q = r
      BY <2>3 DEF Cancelled
    <3> QED BY <2>1, <2>3, <3>1 DEF SameWork
  <2> QED BY <2>2, <2>3
<1>2. Cancelled(cs, S) \in [Calls -> PendingCalls]
  <2>1. Cancelled(cs, S) = [c \in Calls |-> Cancelled(cs, S)[c]]
    BY DEF Cancelled
  <2>2. \A c \in Calls : Cancelled(cs, S)[c] \in PendingCalls
    BY <1>1 DEF SameWork
  <2> QED BY <2>1, <2>2
<1> QED BY <1>1, <1>2

(* What leaves the store: records held before, as dropped ones.            *)
LEMMA WithoutKeeps ==
  ASSUME NEW st \in Stores, NEW S
  PROVE  /\ Without(st, S) \in Stores
         /\ \A g \in Grants : LET r == st[g]
                                  q == Without(st, S)[g]
              IN /\ q.target = r.target
                 /\ q.status = IF g \in S /\ r.status = "held" THEN "dropped" ELSE r.status
<1>1. ASSUME NEW r \in GrantRecord
      PROVE  LET q == [r EXCEPT !.status = "dropped"] IN
             q \in GrantRecord /\ q.target = r.target /\ q.status = "dropped"
  BY DEF GrantRecord
<1>2. \A g \in Grants : st[g] \in GrantRecord
  BY DEF Stores
<1>3. ASSUME NEW g \in Grants
      PROVE  LET r == st[g]
                 q == Without(st, S)[g]
             IN /\ q \in GrantRecord
                /\ q.target = r.target
                /\ q.status = IF g \in S /\ r.status = "held" THEN "dropped" ELSE r.status
  <2> DEFINE r == st[g]
             q == Without(st, S)[g]
  <2>1. CASE g \in S /\ r.status = "held"
    <3>1. q = [r EXCEPT !.status = "dropped"]
      BY <2>1 DEF Without, Held
    <3>2. r \in GrantRecord
      BY <1>2
    <3>3. q \in GrantRecord /\ q.target = r.target /\ q.status = "dropped"
      <4> HIDE DEF r, q
      <4> QED BY <2>1, <3>1, <3>2, <1>1
    <3> QED BY <2>1, <3>3
  <2>2. CASE ~(g \in S /\ r.status = "held")
    <3>1. q = r
      BY <2>2 DEF Without, Held
    <3> QED BY <2>2, <3>1, <1>2
  <2> QED BY <2>1, <2>2
<1>4. Without(st, S) \in Stores
  BY <1>3 DEF Without, Stores
<1> QED BY <1>3, <1>4

-----------------------------------------------------------------------------
(* Sockets are numbered as they arrive, and with them the connection ids.  *)

Numbered ==
    /\ \A s \in SocketIds :
         IF s <= opened
         THEN sock[s].conn \in 1..opened
         ELSE /\ sock[s].state = "unused" /\ sock[s].conn = 0
              /\ wire[s] = <<>> /\ owed[s] = {}
    /\ live <= opened /\ last <= opened
    /\ live = 0 \/ last = 0
    /\ \A g \in Grants :
         store[g].status # "unoffered" => store[g].target \in 1..opened

Shape == TypeOK /\ Numbered

(* The wire of s gained nothing but revocations in this step.              *)
Longer(s) ==
    /\ wire'[s] \in Seq(Frames)
    /\ Len(wire[s]) <= Len(wire'[s])
    /\ \A i \in 1..Len(wire[s]) : wire'[s][i] = wire[s][i]
    /\ \A i \in 1..Len(wire'[s]) : i > Len(wire[s]) => wire'[s][i].kind = "revoke"

(* The grants of S left the store in this step, whatever held them.        *)
Left(S) ==
    /\ store' \in Stores
    /\ \A g \in Grants :
         /\ store'[g].target = store[g].target
         /\ store'[g].status = IF g \in S /\ store[g].status = "held" THEN "dropped"
                               ELSE store[g].status

LEMMA SentLonger ==
  ASSUME TypeOK, NEW s \in SocketIds, NEW S \in SUBSET Grants,
         wire'[s] = Sent(s, RevokeFrames(S))
  PROVE  /\ Longer(s)
         /\ sock[s].state = "open" =>
              \A g \in S : \E i \in 1..Len(wire'[s]) : wire'[s][i] = RevokeFrame(g)
<1> DEFINE R == RevokeFrames(S)
           v == wire[s]
           w == wire'[s]
<1>1. /\ R \in Seq(Frames)
      /\ \A i \in DOMAIN R : R[i].kind = "revoke"
      /\ \A g \in S : \E i \in DOMAIN R : R[i] = RevokeFrame(g)
  BY RevokeFramesListed
<1>2. v \in Seq(Frames)
  BY DEF TypeOK
<1>3. CASE sock[s].state = "open"
  <2>1. w = v \o R
    BY <1>3 DEF Sent
  <2> HIDE DEF R, v, w
  <2>2. /\ Len(R) \in Nat /\ DOMAIN R = 1..Len(R) /\ Len(v) \in Nat
        /\ w \in Seq(Frames) /\ Len(w) = Len(v) + Len(R)
    BY <1>1, <1>2, <2>1
  <2>3. \A i \in 1..Len(w) : w[i] = IF i <= Len(v) THEN v[i] ELSE R[i - Len(v)]
    BY <1>1, <1>2, <2>1, <2>2
  <2>4. ASSUME NEW i \in 1..Len(w), i > Len(v) PROVE w[i].kind = "revoke"
    <3>1. ~(i <= Len(v)) /\ i - Len(v) \in DOMAIN R
      BY <2>2, <2>4
    <3> QED BY <1>1, <2>3, <3>1
  <2>5. ASSUME NEW i \in 1..Len(v) PROVE w[i] = v[i]
    <3>1. i \in 1..Len(w) /\ i <= Len(v)
      BY <2>2
    <3> QED BY <2>3, <3>1
  <2>6. ASSUME NEW g \in S PROVE \E i \in 1..Len(w) : w[i] = RevokeFrame(g)
    <3>1. PICK i \in DOMAIN R : R[i] = RevokeFrame(g)
      BY <1>1
    <3>2. i + Len(v) \in 1..Len(w) /\ ~(i + Len(v) <= Len(v)) /\ (i + Len(v)) - Len(v) = i
      BY <2>2
    <3> QED BY <2>3, <3>1, <3>2
  <2>7. Len(v) <= Len(w)
    BY <2>2
  <2> QED BY <2>2, <2>4, <2>5, <2>6, <2>7 DEF Longer, v, w
<1>4. CASE sock[s].state # "open"
  <2>1. w = v
    BY <1>4 DEF Sent
  <2>2. Len(v) \in Nat
    BY <1>2
  <2>3. \A i \in 1..Len(v) : ~(i > Len(v))
    BY <2>2
  <2> QED BY <1>2, <1>4, <2>1, <2>2, <2>3 DEF Longer
<1> QED BY <1>3, <1>4

LEMMA SameWireLonger ==
  ASSUME TypeOK, NEW s \in SocketIds, wire'[s] = wire[s]
  PROVE  Longer(s)
<1>1. wire[s] \in Seq(Frames)
  BY DEF TypeOK
<1>2. Len(wire[s]) \in Nat
  BY <1>1
<1>3. \A i \in 1..Len(wire[s]) : ~(i > Len(wire[s]))
  BY <1>2
<1> QED BY <1>1, <1>2, <1>3 DEF Longer

LEMMA WithoutLeaves ==
  ASSUME TypeOK, NEW S, store' = Without(store, S)
  PROVE  Left(S)
  BY WithoutKeeps DEF Left, TypeOK

LEMMA NobodyLeaves ==
  ASSUME TypeOK, store' = store PROVE Left({})
  BY DEF Left, TypeOK

(* Revoke of the grants S of session k.                                    *)
LEMMA RevokeFacts ==
  ASSUME TypeOK, NEW S \in SUBSET Grants, NEW k, Revoke(S, k)
  PROVE  /\ Left(S)
         /\ wire' \in [SocketIds -> Seq(Frames)]
         /\ \A s \in SocketIds : Longer(s)
         /\ \A s \in SocketIds : s # live => wire'[s] = wire[s]
         /\ outbox' \in [SocketIds -> SUBSET Grants]
         /\ swallowed \subseteq swallowed' /\ swallowed' \subseteq Grants
         /\ IF Connected(k)
            THEN /\ outbox' = outbox
                 /\ sock[live].state = "open" =>
                      \A g \in S : \E i \in 1..Len(wire'[live]) :
                          wire'[live][i] = RevokeFrame(g)
                 /\ sock[live].state # "open" => S \subseteq swallowed'
            ELSE /\ wire' = wire
                 /\ outbox' = [outbox EXCEPT ![k] = @ \cup S]
<1>1. Left(S)
  BY WithoutLeaves DEF Revoke
<1>0. /\ swallowed \subseteq swallowed' /\ swallowed' \subseteq Grants
      /\ Connected(k) /\ sock[live].state # "open" => S \subseteq swallowed'
  BY DEF Revoke, Swallowed, TypeOK
<1>2. CASE Connected(k)
  <2>1. /\ live \in SocketIds
        /\ wire' = [wire EXCEPT ![live] = Sent(live, RevokeFrames(S))]
        /\ outbox' = outbox
    BY <1>2 DEF Revoke, Connected, TypeOK
  <2>2. wire'[live] = Sent(live, RevokeFrames(S))
        /\ \A s \in SocketIds : s # live => wire'[s] = wire[s]
    BY <2>1 DEF TypeOK
  <2>3. Longer(live) /\ (sock[live].state = "open" =>
                      \A g \in S : \E i \in 1..Len(wire'[live]) :
                          wire'[live][i] = RevokeFrame(g))
    BY <2>1, <2>2, SentLonger
  <2>4. \A s \in SocketIds : Longer(s)
    BY <2>2, <2>3, SameWireLonger
  <2>5. wire' \in [SocketIds -> Seq(Frames)]
    BY <2>1, <2>4 DEF Longer, TypeOK
  <2> QED BY <1>0, <1>1, <1>2, <2>1, <2>2, <2>3, <2>4, <2>5 DEF TypeOK
<1>3. CASE ~Connected(k)
  <2>1. wire' = wire /\ outbox' = [outbox EXCEPT ![k] = @ \cup S]
    BY <1>3 DEF Revoke
  <2>2. outbox' \in [SocketIds -> SUBSET Grants]
    BY <2>1 DEF TypeOK
  <2>3. \A s \in SocketIds : Longer(s)
    BY <2>1, SameWireLonger
  <2> QED BY <1>0, <1>1, <1>3, <2>1, <2>2, <2>3 DEF TypeOK
<1> QED BY <1>2, <1>3

-----------------------------------------------------------------------------
(* A socket of origin o is accepted into session k; the grants of gone are *)
(* revoked and cs is the pending map it resends.                           *)

Arrival(o, k, cs, gone) ==
    LET s == opened + 1 IN
    /\ s \in SocketIds /\ o \in Origins /\ gone \in SUBSET Grants
    /\ k \in 1..s
    /\ k = s \/ \E r \in 1..opened : sock[r].origin = o /\ sock[r].conn = k
    /\ opened' = s /\ live' = s /\ last' = 0 /\ disposed' = disposed
    /\ sock' \in [SocketIds -> Sockets]
    /\ sock'[s] = [state |-> "open", origin |-> o, conn |-> k]
    /\ \A r \in SocketIds : r # s =>
         /\ sock'[r].conn = sock[r].conn /\ sock'[r].origin = sock[r].origin
         /\ sock'[r].state = "unused" <=> sock[r].state = "unused"
    /\ outbox' \in [SocketIds -> SUBSET Grants] /\ outbox'[k] = {}
    /\ owed' = [owed EXCEPT ![s] = outbox[k]]
    /\ wire' \in [SocketIds -> Seq(Frames)]
    /\ wire'[s] = OpeningFrames(k, cs, outbox)
    /\ \A r \in SocketIds : r # s => Longer(r)
    /\ \A r \in SocketIds : r # s /\ r # live => wire'[r] = wire[r]
    /\ Left(gone)
    /\ cs \in [Calls -> PendingCalls] /\ call' = Resent(cs, s)
    /\ outlived' = outlived /\ swallowed' = swallowed

(* The arrivals there are: on a session that is down, on the live one, or  *)
(* on a session of another extension.                                      *)
Joins(o, k, cs, gone) ==
    /\ Arrival(o, k, cs, gone)
    /\ \/ /\ live = 0 /\ cs = call /\ gone = {}
          /\ k = opened + 1 \/ (last # 0 /\ k = sock[last].conn)
          /\ outbox' = [outbox EXCEPT ![k] = {}]
       \/ /\ live # 0 /\ cs = AfterLoss(call, TRUE) /\ gone = {}
          /\ sock[live].origin = o /\ k = sock[live].conn
          /\ outbox' = [outbox EXCEPT ![k] = {}]
       \/ /\ live # 0 /\ cs = AfterLoss(call, FALSE)
          /\ gone = TargetGrants(store, sock[live].conn)
          /\ sock[live].origin # o /\ k = opened + 1
          /\ outbox' = [outbox EXCEPT ![sock[live].conn] = {}, ![k] = {}]

LEMMA ResumedId ==
  ASSUME Shape, NEW o \in Origins, opened < MaxSockets
  PROVE  LET s == opened + 1
             k == ConnectionIdFor(o, s)
         IN /\ s \in SocketIds /\ k \in 1..s
            /\ k = s \/ \E r \in 1..opened : sock[r].origin = o /\ sock[r].conn = k
<1> DEFINE s == opened + 1
           k == ConnectionIdFor(o, s)
<1>1. s \in Nat /\ s # 0 /\ s <= MaxSockets /\ s \in SocketIds
  BY Numbers DEF Shape, TypeOK
<1>2. CASE last # 0 /\ sock[last].origin = o
  <2>1. k = sock[last].conn
    BY <1>2 DEF ConnectionIdFor
  <2>2. last \in SocketIds /\ last <= opened
    BY <1>2 DEF Shape, TypeOK, Numbered
  <2>3. last \in 1..opened /\ sock[last].conn \in 1..opened
    BY <2>2, Numbers DEF Shape, TypeOK, Numbered
  <2>4. opened \in Nat
    BY DEF Shape, TypeOK
  <2>5. k \in 1..s
    <3> HIDE DEF k
    <3> QED BY <2>1, <2>3, <2>4
  <2> QED BY <1>1, <1>2, <2>1, <2>3, <2>5
<1>3. CASE ~(last # 0 /\ sock[last].origin = o)
  <2>1. k = s
    BY <1>3 DEF ConnectionIdFor
  <2> QED BY <1>1, <2>1
<1> QED BY <1>2, <1>3

LEMMA AcceptArrives ==
  ASSUME Shape, NEW o \in Origins, Accept(o)
  PROVE  \E k : Joins(o, k, call, {})
<1> DEFINE s == opened + 1
           k == ConnectionIdFor(o, s)
<1>1. opened < MaxSockets
  BY DEF Accept
<1>2. /\ s \in SocketIds /\ k \in 1..s
      /\ k = s \/ \E r \in 1..opened : sock[r].origin = o /\ sock[r].conn = k
      /\ k = s \/ (last # 0 /\ k = sock[last].conn)
  BY <1>1, ResumedId DEF ConnectionIdFor
<1> HIDE DEF k
<1>3. /\ opened' = s /\ live' = s /\ last' = 0 /\ disposed' = disposed
      /\ sock' = [sock EXCEPT ![s] = [state |-> "open", origin |-> o, conn |-> k]]
      /\ outbox' = [outbox EXCEPT ![k] = {}]
      /\ owed' = [owed EXCEPT ![s] = outbox[k]]
      /\ wire' = [wire EXCEPT ![s] = OpeningFrames(k, call, outbox)]
      /\ call' = Resent(call, s) /\ store' = store /\ live = 0
      /\ outlived' = outlived /\ swallowed' = swallowed
  BY DEF Accept, k
<1>4. k \in SocketIds
  BY <1>2, Numbers DEF SocketIds, Shape, TypeOK
<1>5. OpeningFrames(k, call, outbox) \in Seq(Frames)
  <2>1. outbox[k] \in SUBSET Grants
    BY <1>4 DEF Shape, TypeOK
  <2> QED BY <2>1, OpeningListed
<1> HIDE DEF s
<1>6. /\ sock' \in [SocketIds -> Sockets]
      /\ sock'[s] = [state |-> "open", origin |-> o, conn |-> k]
      /\ \A r \in SocketIds : r # s => sock'[r] = sock[r]
  BY <1>2, <1>3, <1>4 DEF Shape, TypeOK, Sockets
<1>7. /\ outbox' \in [SocketIds -> SUBSET Grants] /\ outbox'[k] = {}
      /\ wire' \in [SocketIds -> Seq(Frames)]
      /\ wire'[s] = OpeningFrames(k, call, outbox)
      /\ \A r \in SocketIds : r # s => wire'[r] = wire[r]
  BY <1>2, <1>3, <1>4, <1>5 DEF Shape, TypeOK
<1>8. \A r \in SocketIds : r # s => Longer(r)
  BY <1>7, SameWireLonger DEF Shape
<1>9. Left({}) /\ call \in [Calls -> PendingCalls]
  BY <1>3, NobodyLeaves DEF Shape, TypeOK
<1>10. Arrival(o, k, call, {})
  BY <1>2, <1>3, <1>6, <1>7, <1>8, <1>9 DEF Arrival, s
<1>11. Joins(o, k, call, {})
  BY <1>10, <1>2, <1>3 DEF s, Joins
<1> QED BY <1>11

LEMMA ReplaceArrives ==
  ASSUME Shape, NEW o \in Origins, Replace(o)
  PROVE  Joins(o, sock[live].conn, AfterLoss(call, TRUE), {})
<1> DEFINE s == opened + 1
           k == sock[live].conn
           cs == AfterLoss(call, TRUE)
<1>1. /\ opened < MaxSockets /\ live # 0 /\ sock[live].origin = o
      /\ opened' = s /\ live' = s /\ last' = 0 /\ disposed' = disposed
      /\ sock' = [sock EXCEPT ![live].state = "closing",
                              ![s] = [state |-> "open", origin |-> o, conn |-> k]]
      /\ outbox' = [outbox EXCEPT ![k] = {}]
      /\ owed' = [owed EXCEPT ![s] = outbox[k]]
      /\ wire' = [wire EXCEPT ![s] = OpeningFrames(k, cs, outbox)]
      /\ call' = Resent(cs, s) /\ store' = store
      /\ outlived' = outlived /\ swallowed' = swallowed
  BY DEF Replace
<1>2. live \in SocketIds /\ live \in 1..opened /\ k \in 1..opened /\ opened \in Nat
  BY <1>1, Numbers DEF Shape, TypeOK, Numbered
<1>3. s \in SocketIds /\ k \in 1..s /\ k \in SocketIds /\ live # s
  BY <1>1, <1>2, Numbers DEF SocketIds
<1>4. cs \in [Calls -> PendingCalls]
  BY LossKeeps DEF Shape, TypeOK
<1>5. OpeningFrames(k, cs, outbox) \in Seq(Frames)
  <2>1. outbox[k] \in SUBSET Grants
    BY <1>3 DEF Shape, TypeOK
  <2> QED BY <2>1, OpeningListed
<1>6. \E r \in 1..opened : sock[r].origin = o /\ sock[r].conn = k
  BY <1>1, <1>2
<1> HIDE DEF s, k, cs
<1>7. /\ sock' \in [SocketIds -> Sockets]
      /\ sock'[s] = [state |-> "open", origin |-> o, conn |-> k]
      /\ \A r \in SocketIds : r # s =>
           /\ sock'[r].conn = sock[r].conn /\ sock'[r].origin = sock[r].origin
           /\ sock'[r].state = "unused" <=> sock[r].state = "unused"
  <2>1. sock[live].state # "unused"
    BY <1>1 DEF Shape, TypeOK
  <2> QED BY ZenonT(60), <1>1, <1>2, <1>3, <2>1 DEF Shape, TypeOK, Sockets
<1>8. /\ outbox' \in [SocketIds -> SUBSET Grants] /\ outbox'[k] = {}
      /\ wire' \in [SocketIds -> Seq(Frames)]
      /\ wire'[s] = OpeningFrames(k, cs, outbox)
      /\ \A r \in SocketIds : r # s => wire'[r] = wire[r]
  BY <1>1, <1>3, <1>5 DEF Shape, TypeOK
<1>9. \A r \in SocketIds : r # s => Longer(r)
  BY <1>8, SameWireLonger DEF Shape
<1>10. Left({})
  BY <1>1, NobodyLeaves DEF Shape
<1>11. Arrival(o, k, cs, {})
  BY <1>1, <1>3, <1>4, <1>6, <1>7, <1>8, <1>9, <1>10 DEF Arrival, s
<1> QED BY <1>11, <1>1 DEF k, cs, Joins

LEMMA TakeoverArrives ==
  ASSUME Shape, NEW o \in Origins, Takeover(o)
  PROVE  Joins(o, opened + 1, AfterLoss(call, FALSE), TargetGrants(store, sock[live].conn))
<1> DEFINE s == opened + 1
           prior == sock[live].conn
           gone == TargetGrants(store, prior)
           cs == AfterLoss(call, FALSE)
<1>1. ConnectionIdFor(o, s) = s
  <2>1. last = 0
    BY DEF Takeover, Shape, Numbered
  <2> QED BY <2>1 DEF ConnectionIdFor
<1>2. /\ opened < MaxSockets /\ live # 0 /\ sock[live].origin # o
      /\ opened' = s /\ live' = s /\ last' = 0 /\ disposed' = disposed
      /\ sock' = [sock EXCEPT ![live].state = "closing",
                              ![s] = [state |-> "open", origin |-> o, conn |-> s]]
      /\ outbox' = [outbox EXCEPT ![prior] = {}, ![s] = {}]
      /\ owed' = [owed EXCEPT ![s] = outbox[s]]
      /\ wire' = [wire EXCEPT ![live] = Sent(live, RevokeFrames(gone)),
                              ![s] = OpeningFrames(s, cs, outbox)]
      /\ call' = Resent(cs, s) /\ store' = Without(store, gone)
      /\ outlived' = outlived /\ swallowed' = swallowed
  BY <1>1 DEF Takeover
<1>3. live \in SocketIds /\ live \in 1..opened /\ prior \in 1..opened /\ opened \in Nat
  BY <1>2, Numbers DEF Shape, TypeOK, Numbered
<1>4. s \in SocketIds /\ s \in 1..s /\ prior \in SocketIds /\ live # s
  BY <1>2, <1>3, Numbers DEF SocketIds
<1>5. gone \in SUBSET Grants
  BY DEF TargetGrants
<1>6. cs \in [Calls -> PendingCalls]
  BY LossKeeps DEF Shape, TypeOK
<1>7. OpeningFrames(s, cs, outbox) \in Seq(Frames)
  <2>1. outbox[s] \in SUBSET Grants
    BY <1>4 DEF Shape, TypeOK
  <2> QED BY <2>1, OpeningListed
<1> HIDE DEF s, prior, gone, cs
<1>8. /\ sock' \in [SocketIds -> Sockets]
      /\ sock'[s] = [state |-> "open", origin |-> o, conn |-> s]
      /\ \A r \in SocketIds : r # s =>
           /\ sock'[r].conn = sock[r].conn /\ sock'[r].origin = sock[r].origin
           /\ sock'[r].state = "unused" <=> sock[r].state = "unused"
  <2>1. sock[live].state # "unused"
    BY <1>2 DEF Shape, TypeOK
  <2> QED BY ZenonT(60), <1>2, <1>3, <1>4, <2>1 DEF Shape, TypeOK, Sockets
<1>9. /\ outbox' \in [SocketIds -> SUBSET Grants] /\ outbox'[s] = {}
      /\ wire'[s] = OpeningFrames(s, cs, outbox)
      /\ wire'[live] = Sent(live, RevokeFrames(gone))
      /\ \A r \in SocketIds : r # s /\ r # live => wire'[r] = wire[r]
  BY <1>2, <1>3, <1>4 DEF Shape, TypeOK
<1>10. \A r \in SocketIds : r # s => Longer(r)
  <2>1. Longer(live)
    BY <1>3, <1>5, <1>9, SentLonger DEF Shape
  <2> QED BY <1>9, <2>1, SameWireLonger DEF Shape
<1>11. wire' \in [SocketIds -> Seq(Frames)]
  <2>1. \A r \in SocketIds : wire'[r] \in Seq(Frames)
    BY <1>7, <1>9, <1>10 DEF Longer
  <2>2. wire' = [r \in SocketIds |-> wire'[r]]
    BY <1>2 DEF Shape, TypeOK
  <2> QED BY <2>1, <2>2
<1>12. Left(gone)
  BY <1>2, WithoutLeaves DEF Shape
<1>13. Arrival(o, s, cs, gone)
  BY <1>2, <1>4, <1>5, <1>6, <1>8, <1>9, <1>10, <1>11, <1>12 DEF Arrival, s
<1> QED BY <1>13, <1>2 DEF s, cs, gone, prior, Joins

LEMMA ArrivalsJoin ==
  ASSUME Shape, NEW o \in Origins, Accept(o) \/ Replace(o) \/ Takeover(o)
  PROVE  \E k, cs, gone : Joins(o, k, cs, gone)
<1>1. CASE Accept(o)
  BY <1>1, AcceptArrives
<1>2. CASE Replace(o)
  BY <1>2, ReplaceArrives
<1>3. CASE Takeover(o)
  BY <1>3, TakeoverArrives
<1> QED BY <1>1, <1>2, <1>3

-----------------------------------------------------------------------------
(* Type correctness, with the numbering it rests on.                       *)

LEMMA ShapeInit == Init => Shape
<1> SUFFICES ASSUME Init PROVE Shape
  OBVIOUS
<1>1. (CHOOSE o \in Origins : TRUE) \in Origins /\ (CHOOSE g \in Grants : TRUE) \in Grants
  BY BridgeAssumption
<1>2. sock \in [SocketIds -> Sockets]
  BY <1>1 DEF Init, Sockets
<1>3. call \in [Calls -> PendingCalls]
  BY <1>1 DEF Init, PendingCalls
<1>4. store \in Stores
  BY DEF Init, EmptyStore, Stores, GrantRecord
<1>5. wire \in [SocketIds -> Seq(Frames)]
  BY DEF Init
<1>6. TypeOK
  <2>1. opened \in Nat /\ opened <= MaxSockets
    BY Numbers DEF Init
  <2>2. /\ outbox \in [SocketIds -> SUBSET Grants] /\ owed \in [SocketIds -> SUBSET Grants]
        /\ outlived \subseteq Calls /\ swallowed \subseteq Grants
    BY DEF Init
  <2>3. /\ live \in SocketIds \cup {0} /\ last \in SocketIds \cup {0} /\ disposed \in BOOLEAN
        /\ live # 0 => sock[live].state \in {"open", "closing"}
    BY DEF Init
  <2> QED BY <1>2, <1>3, <1>4, <1>5, <2>1, <2>2, <2>3 DEF TypeOK
<1>7. Numbered
  BY Numbers DEF Init, Numbered, EmptyStore
<1> QED BY <1>6, <1>7 DEF Shape

LEMMA ArrivalShape ==
  ASSUME Shape, NEW o, NEW k, NEW cs, NEW gone, Arrival(o, k, cs, gone)
  PROVE  Shape'
<1> DEFINE s == opened + 1
<1>1. opened \in Nat /\ s \in SocketIds /\ s # 0 /\ s <= MaxSockets /\ MaxSockets \in Nat
  BY Numbers DEF Arrival, Shape, TypeOK
<1>2. owed' \in [SocketIds -> SUBSET Grants]
  BY <1>1, Numbers DEF Arrival, Shape, TypeOK, SocketIds
<1>3. call' \in [Calls -> PendingCalls]
  BY <1>1, ResentKeeps DEF Arrival
<1>4. TypeOK'
  BY <1>1, <1>2, <1>3 DEF Arrival, Shape, TypeOK, Left
<1>5. ASSUME NEW r \in SocketIds
      PROVE  IF r <= opened'
             THEN sock'[r].conn \in 1..opened'
             ELSE /\ sock'[r].state = "unused" /\ sock'[r].conn = 0
                  /\ wire'[r] = <<>> /\ owed'[r] = {}
  <2>1. r \in Nat /\ opened' = opened + 1
    BY Numbers DEF Arrival
  <2>2. CASE r = s
    BY <1>1, <2>1, <2>2 DEF Arrival
  <2>3. CASE r <= opened
    <3>1. sock'[r].conn = sock[r].conn /\ sock[r].conn \in 1..opened /\ r <= opened'
      BY <1>1, <2>1, <2>3 DEF Arrival, Shape, Numbered
    <3> QED BY <1>1, <2>1, <3>1
  <2>4. CASE r # s /\ ~(r <= opened)
    <3>1. /\ sock[r].state = "unused" /\ sock[r].conn = 0
          /\ wire[r] = <<>> /\ owed[r] = {}
      BY <2>4 DEF Shape, Numbered
    <3>2. sock'[r].state = "unused" /\ sock'[r].conn = 0 /\ Longer(r)
      BY <2>4, <3>1 DEF Arrival
    <3>3. owed'[r] = {}
      BY <1>1, <2>4, <3>1 DEF Arrival, Shape, TypeOK
    <3>4. ~(r <= opened')
      BY <1>1, <2>1, <2>4
    <3>5. wire'[r] = wire[r]
      <4>1. r # live
        BY <1>1, <2>1, <2>4, Numbers DEF Shape, TypeOK, Numbered
      <4> QED BY <2>4, <4>1 DEF Arrival
    <3> QED BY <3>1, <3>2, <3>3, <3>4, <3>5
  <2> QED BY <2>2, <2>3, <2>4
<1>6. \A g \in Grants : store'[g].status # "unoffered" => store'[g].target \in 1..opened'
  <2> SUFFICES ASSUME NEW g \in Grants, store'[g].status # "unoffered"
               PROVE  store'[g].target \in 1..opened'
    OBVIOUS
  <2>1. store[g].status # "unoffered" /\ store'[g].target = store[g].target
    BY DEF Arrival, Left
  <2>2. store[g].target \in 1..opened /\ opened' = opened + 1
    BY <2>1 DEF Arrival, Shape, Numbered
  <2> QED BY <1>1, <2>1, <2>2
<1>7. live' <= opened' /\ last' <= opened' /\ (live' = 0 \/ last' = 0)
  BY <1>1 DEF Arrival
<1> QED BY <1>4, <1>5, <1>6, <1>7 DEF Shape, Numbered

(* Everything but the arrival of a socket leaves their number alone.       *)
LEMMA QuietNumbered ==
  ASSUME Shape, TypeOK', opened' = opened, owed' = owed,
         live' \in {0, live}, last' \in {0, last, live}, live' = 0 \/ last' = 0,
         \A s \in SocketIds : sock'[s].conn = sock[s].conn,
         \A s \in SocketIds : sock[s].state = "unused" => sock'[s].state = "unused",
         \A s \in SocketIds : s # live => wire'[s] = wire[s],
         \A g \in Grants : store'[g].status # "unoffered" =>
             \/ store'[g].target = store[g].target /\ store[g].status # "unoffered"
             \/ live # 0 /\ store'[g].target = sock[live].conn
  PROVE  Shape'
<1>1. opened \in Nat /\ live \in Nat /\ live <= opened
  BY Numbers DEF Shape, TypeOK, Numbered
<1>2. ASSUME NEW s \in SocketIds
      PROVE  IF s <= opened'
             THEN sock'[s].conn \in 1..opened'
             ELSE /\ sock'[s].state = "unused" /\ sock'[s].conn = 0
                  /\ wire'[s] = <<>> /\ owed'[s] = {}
  <2>1. CASE s <= opened
    BY <2>1 DEF Shape, Numbered
  <2>2. CASE ~(s <= opened)
    <3>1. s # live
      BY <1>1, <2>2
    <3> QED BY <2>2, <3>1 DEF Shape, Numbered
  <2> QED BY <2>1, <2>2
<1>3. ASSUME NEW g \in Grants, store'[g].status # "unoffered"
      PROVE  store'[g].target \in 1..opened'
  <2>1. CASE live # 0 /\ store'[g].target = sock[live].conn
    <3>1. live \in SocketIds /\ sock[live].conn \in 1..opened
      BY <1>1, <2>1 DEF Shape, TypeOK, Numbered
    <3> QED BY <2>1, <3>1
  <2>2. CASE store'[g].target = store[g].target /\ store[g].status # "unoffered"
    BY <2>2 DEF Shape, Numbered
  <2> QED BY <1>3, <2>1, <2>2
<1>4. live' <= opened' /\ last' <= opened'
  BY <1>1, Numbers DEF Shape, TypeOK, Numbered
<1> QED BY <1>2, <1>3, <1>4 DEF Shape, Numbered

LEMMA ShapeStep == Shape /\ [Next]_vars => Shape'
<1> SUFFICES ASSUME Shape, [Next]_vars PROVE Shape'
  OBVIOUS
<1>0. TypeOK /\ live \in Nat
  BY Numbers DEF Shape, TypeOK
<1>1. ASSUME NEW o \in Origins, Accept(o) \/ Replace(o) \/ Takeover(o) PROVE Shape'
  <2>1. PICK k, cs, gone : Joins(o, k, cs, gone)
    BY <1>1, ArrivalsJoin
  <2> QED BY <2>1, ArrivalShape DEF Joins
<1>2. CASE StartClosing
  <2>1. TypeOK'
    BY <1>0, <1>2 DEF StartClosing, TypeOK, Sockets
  <2> QED BY <1>0, <1>2, <2>1, QuietNumbered DEF StartClosing, TypeOK, Shape, Numbered, Sockets
<1>3. CASE LiveClosed
  <2>1. call' \in [Calls -> PendingCalls]
    BY <1>0, <1>3, LossKeeps DEF LiveClosed, TypeOK
  <2>2. TypeOK'
    BY <1>0, <1>3, <2>1 DEF LiveClosed, TypeOK, Sockets
  <2>3. /\ \A s \in SocketIds : sock'[s].conn = sock[s].conn
        /\ \A s \in SocketIds : sock[s].state = "unused" => sock'[s].state = "unused"
    BY <1>0, <1>3 DEF LiveClosed, TypeOK, Sockets
  <2>4. /\ opened' = opened /\ owed' = owed /\ wire' = wire /\ store' = store
        /\ live' = 0 /\ last' = live
    BY <1>3 DEF LiveClosed
  <2> QED BY ONLY Shape, <2>2, <2>3, <2>4, QuietNumbered
<1>4. ASSUME NEW s \in SocketIds, StaleClosed(s) PROVE Shape'
  <2>1. TypeOK'
    BY ZenonT(60), <1>0, <1>4 DEF StaleClosed, TypeOK, Sockets
  <2> QED BY <1>0, <1>4, <2>1, QuietNumbered DEF StaleClosed, TypeOK, Shape, Numbered, Sockets
<1>5. ASSUME NEW g \in Grants, NEW s \in Sessions, GrantPut(g, s) PROVE Shape'
  <2>1. sock[live].conn \in SocketIds
    <3>1. live \in SocketIds /\ live <= opened
      BY <1>0, <1>5 DEF GrantPut, TypeOK, Shape, Numbered
    <3>2. sock[live].conn \in 1..opened
      BY <3>1 DEF Shape, Numbered
    <3> QED BY <1>0, <3>2, Numbers DEF TypeOK, SocketIds
  <2>2. store' \in Stores
    BY <1>0, <1>5, <2>1, Numbers DEF GrantPut, Offered, Stores, GrantRecord, TypeOK
  <2>3. TypeOK'
    BY <1>0, <1>5, <2>2 DEF GrantPut, TypeOK
  <2>4. ASSUME NEW h \in Grants, store'[h].status # "unoffered"
        PROVE  \/ store'[h].target = store[h].target /\ store[h].status # "unoffered"
               \/ live # 0 /\ store'[h].target = sock[live].conn
    <3>1. store' = Offered(store, g, s, sock[live].conn) /\ live # 0
      BY <1>5 DEF GrantPut
    <3>2. CASE h = g
      <4>1. store'[h].target = sock[live].conn
        BY <1>0, <3>1, <3>2 DEF Offered, TypeOK, Stores
      <4> QED BY <3>1, <4>1
    <3>3. CASE h # g
      <4>1. store'[h] = store[h]
        BY <1>0, <3>1, <3>3 DEF Offered, TypeOK, Stores
      <4> QED BY <2>4, <4>1
    <3> QED BY <3>2, <3>3
  <2> QED BY <1>0, <1>5, <2>3, <2>4, QuietNumbered DEF GrantPut, TypeOK, Shape, Numbered
<1>6. ASSUME NEW S \in SUBSET Grants, NEW k, Revoke(S, k),
             call' \in [Calls -> PendingCalls], outlived' \subseteq Calls,
             UNCHANGED <<opened, sock, live, last, owed, disposed>>
      PROVE  Shape'
  <2>1. /\ Left(S)
        /\ wire' \in [SocketIds -> Seq(Frames)]
        /\ outbox' \in [SocketIds -> SUBSET Grants]
        /\ \A s \in SocketIds : s # live => wire'[s] = wire[s]
        /\ swallowed' \subseteq Grants
    BY <1>0, <1>6, RevokeFacts
  <2>2. TypeOK'
    BY <1>0, <1>6, <2>1 DEF TypeOK, Left
  <2> QED BY <1>6, <2>1, <2>2, <1>0, QuietNumbered DEF Left, Shape, Numbered
<1>7. ASSUME NEW g \in Grants, CoordinatorRevoke(g) PROVE Shape'
  <2>1. outlived' \subseteq Calls
    BY <1>0, <1>7 DEF CoordinatorRevoke, TypeOK
  <2> QED BY <1>0, <1>6, <1>7, <2>1 DEF CoordinatorRevoke, TypeOK
<1>8. ASSUME call' \in [Calls -> PendingCalls],
             UNCHANGED <<opened, sock, live, last, outbox, store, wire, history, disposed>>
      PROVE  Shape'
  <2>1. TypeOK'
    BY <1>0, <1>8 DEF TypeOK
  <2> QED BY <1>8, <2>1, <1>0, QuietNumbered DEF Shape, Numbered
<1>9. ASSUME NEW g \in Grants, RevokeAndCancel(g),
             UNCHANGED <<opened, sock, live, last, owed, outlived, disposed>>
      PROVE  Shape'
  <2>1. call' \in [Calls -> PendingCalls] /\ outlived' \subseteq Calls
    BY <1>0, <1>9, CancelledKeeps DEF RevokeAndCancel, TypeOK
  <2>2. CASE Held(store, g)
    BY <1>6, <1>9, <2>1, <2>2 DEF RevokeAndCancel
  <2>3. CASE ~Held(store, g)
    BY <1>8, <1>9, <2>1, <2>3 DEF RevokeAndCancel
  <2> QED BY <2>2, <2>3
<1>10. ASSUME NEW c \in Calls, NEW g \in Grants, NEW op \in {"read", "write"}, Request(c, g, op)
       PROVE  Shape'
  <2>1. live \in SocketIds
    BY <1>0, <1>10 DEF Request, Dispatchable, Connected, TypeOK
  <2>2. call' \in [Calls -> PendingCalls]
    BY <1>0, <1>10, <2>1 DEF Request, TypeOK, PendingCalls
  <2>3. Sent(live, <<CallFrame(c)>>) \in Seq(Frames)
    <3>1. <<CallFrame(c)>> \in Seq(Frames)
      BY DEF Frames
    <3>2. wire[live] \in Seq(Frames)
      BY <1>0, <2>1 DEF TypeOK
    <3> QED BY <3>1, <3>2 DEF Sent
  <2>4. TypeOK'
    BY <1>0, <1>10, <2>1, <2>2, <2>3 DEF Request, TypeOK
  <2> QED BY <1>0, <1>10, <2>4, QuietNumbered DEF Request, TypeOK, Shape, Numbered
<1>11. ASSUME NEW c \in Calls, ToolAccepted(c) PROVE Shape'
  <2>1. call' \in [Calls -> PendingCalls]
    <3>1. \A r \in PendingCalls : [r EXCEPT !.accepted = TRUE] \in PendingCalls
      BY DEF PendingCalls
    <3>2. call' = [call EXCEPT ![c] = [call[c] EXCEPT !.accepted = TRUE]]
      BY <1>11 DEF ToolAccepted
    <3> QED BY <1>0, <3>1, <3>2 DEF TypeOK
  <2> QED BY <1>8, <1>11, <2>1 DEF ToolAccepted
<1>12. ASSUME NEW c \in Calls, ToolResult(c) \/ GiveUp(c) \/ RetryExpires(c) PROVE Shape'
  <2>1. call' = [call EXCEPT ![c] = Settled(@)] /\ call[c].status = "pending"
    BY <1>12 DEF ToolResult, GiveUp, RetryExpires, Answerable, Pending
  <2>2. Settled(call[c]) \in PendingCalls
    BY <1>0, <2>1, SettledKeeps DEF TypeOK, SameWork
  <2>3. call' \in [Calls -> PendingCalls]
    BY <1>0, <2>1, <2>2 DEF TypeOK
  <2> QED BY <1>8, <1>12, <2>3 DEF ToolResult, GiveUp, RetryExpires
<1>13. ASSUME NEW c \in Calls, ToolExpired(c) PROVE Shape'
  <2>1. call[c].grant \in Grants
    BY <1>0 DEF TypeOK, PendingCalls
  <2> QED BY <1>9, <1>13, <2>1 DEF ToolExpired
<1>14. ASSUME NEW g \in Grants, NEW s \in SocketIds, ExtensionRevoke(g, s) PROVE Shape'
  BY <1>9, <1>14 DEF ExtensionRevoke
<1>15. CASE Dispose
  <2>1. call' \in [Calls -> PendingCalls]
    BY <1>0, <1>15, LossKeeps DEF Dispose, TypeOK
  <2>2. CASE live = 0
    <3>1. TypeOK'
      BY <1>0, <1>15, <2>1, <2>2 DEF Dispose, TypeOK
    <3> QED BY <1>0, <1>15, <2>2, <3>1, QuietNumbered DEF Dispose, Shape, Numbered
  <2>3. CASE live # 0
    <3> DEFINE gone == TargetGrants(store, sock[live].conn)
    <3>1. /\ store' = Without(store, gone)
          /\ wire' = [wire EXCEPT ![live] = Sent(live, RevokeFrames(gone))]
          /\ sock' = [sock EXCEPT ![live].state = "closing"]
          /\ live \in SocketIds /\ gone \in SUBSET Grants
      BY <1>0, <1>15, <2>3 DEF Dispose, TypeOK, TargetGrants
    <3> HIDE DEF gone
    <3>2. Left(gone)
      BY <1>0, <3>1, WithoutLeaves
    <3>3. wire'[live] = Sent(live, RevokeFrames(gone))
          /\ \A s \in SocketIds : s # live => wire'[s] = wire[s]
      BY <1>0, <3>1 DEF TypeOK
    <3>4. wire' \in [SocketIds -> Seq(Frames)]
      <4>1. Sent(live, RevokeFrames(gone)) \in Seq(Frames)
        BY <1>0, <3>1, <3>3, SentLonger DEF Longer
      <4> QED BY <1>0, <3>1, <4>1 DEF TypeOK
    <3>5. TypeOK'
      <4>1. sock' \in [SocketIds -> Sockets]
        BY <1>0, <3>1 DEF TypeOK, Sockets
      <4>2. outbox' \in [SocketIds -> SUBSET Grants] /\ disposed' \in BOOLEAN
        BY <1>15 DEF Dispose
      <4>3. opened' = opened /\ live' = 0 /\ last' = 0 /\ UNCHANGED history
        BY <1>15 DEF Dispose
      <4> QED BY <1>0, <2>1, <3>2, <3>4, <4>1, <4>2, <4>3 DEF TypeOK, Left
    <3>6. /\ \A s \in SocketIds : sock'[s].conn = sock[s].conn
          /\ \A s \in SocketIds : sock[s].state = "unused" => sock'[s].state = "unused"
      BY <1>0, <2>3, <3>1 DEF TypeOK, Sockets
    <3>7. opened' = opened /\ owed' = owed /\ live' = 0 /\ last' = 0
      BY <1>15 DEF Dispose
    <3>8. \A g \in Grants : store'[g].status # "unoffered" =>
             store'[g].target = store[g].target /\ store[g].status # "unoffered"
      BY <3>2 DEF Left
    <3> QED BY ONLY Shape, <3>3, <3>5, <3>6, <3>7, <3>8, QuietNumbered
  <2> QED BY <2>2, <2>3
<1>16. CASE UNCHANGED vars
  <2>1. TypeOK'
    BY <1>0, <1>16 DEF vars, TypeOK
  <2> QED BY <1>0, <1>16, <2>1, QuietNumbered DEF vars, Shape, Numbered
<1> QED BY <1>1, <1>2, <1>3, <1>4, <1>5, <1>7, <1>10, <1>11, <1>12, <1>13, <1>14, <1>15, <1>16
        DEF Next, SocketStep, GrantStep, CallStep

-----------------------------------------------------------------------------
(* A step that starts no work: calls go on as they are or end, the wires   *)
(* gain revocations, and a call whose grant is revoked ends or is named as *)
(* one that outlived it.                                                   *)

OnlyEnds ==
    /\ live' = live /\ outlived \subseteq outlived'
    /\ \A s \in SocketIds : Longer(s)
    /\ \A c \in Calls :
         /\ SameWork(call[c], call'[c]) /\ call'[c].retried = call[c].retried
         /\ call'[c].status = "pending" =>
              /\ call[c].status = "pending"
              /\ call'[c].armed = call[c].armed /\ call'[c].via = call[c].via
              /\ Held(store, call[c].grant)
                    => Held(store', call[c].grant) \/ c \in outlived'

LEMMA EndsAll ==
  ASSUME Shape, live' = live, UNCHANGED <<call, wire, store, outlived>> PROVE OnlyEnds
  BY SameWireLonger DEF OnlyEnds, Shape, TypeOK, SameWork

LEMMA EndsOne ==
  ASSUME Shape, NEW c \in Calls, call[c].status = "pending",
         call' = [call EXCEPT ![c] = Settled(@)],
         live' = live, UNCHANGED <<wire, store, outlived>>
  PROVE  OnlyEnds
<1>1. call \in [Calls -> PendingCalls] /\ \A s \in SocketIds : Longer(s)
  BY SameWireLonger DEF Shape, TypeOK
<1>2. ASSUME NEW d \in Calls
      PROVE  /\ SameWork(call[d], call'[d]) /\ call'[d].retried = call[d].retried
             /\ call'[d].status = "pending" => call'[d] = call[d]
  <2>1. CASE d = c
    <3>1. call'[d] = Settled(call[d]) /\ call[d] \in PendingCalls /\ call[d].status # "idle"
      BY <1>1, <2>1
    <3> QED BY <3>1, SettledKeeps
  <2>2. CASE d # c
    <3>1. call'[d] = call[d] /\ call[d] \in PendingCalls
      BY <1>1, <2>2
    <3> QED BY <3>1 DEF SameWork
  <2> QED BY <2>1, <2>2
<1> QED BY <1>1, <1>2 DEF OnlyEnds

LEMMA EndsRevoked ==
  ASSUME Shape, NEW g \in Grants, NEW k, Revoke({g}, k),
         call' = Cancelled(call, {g}), UNCHANGED <<live, outlived>>
  PROVE  OnlyEnds
<1>1. call \in [Calls -> PendingCalls] /\ TypeOK
  BY DEF Shape, TypeOK
<1>2. Left({g}) /\ \A s \in SocketIds : Longer(s)
  BY <1>1, RevokeFacts
<1>3. ASSUME NEW c \in Calls
      PROVE  /\ SameWork(call[c], call'[c]) /\ call'[c].retried = call[c].retried
             /\ call'[c].status = "pending" => call'[c] = call[c] /\ call[c].grant # g
  BY <1>1, CancelledKeeps
<1>4. ASSUME NEW c \in Calls, call[c].grant # g, Held(store, call[c].grant)
      PROVE  Held(store', call[c].grant)
  <2>1. call[c].grant \in Grants
    BY <1>1 DEF PendingCalls
  <2> QED BY <1>2, <1>4, <2>1 DEF Left, Held
<1> QED BY <1>2, <1>3, <1>4 DEF OnlyEnds

(* The extension's revocation, whether or not the record is still held.    *)
LEMMA EndsCancelled ==
  ASSUME Shape, NEW g \in Grants, RevokeAndCancel(g), UNCHANGED <<live, outlived>>
  PROVE  OnlyEnds
<1>1. CASE Held(store, g)
  BY <1>1, EndsRevoked DEF RevokeAndCancel
<1>2. CASE ~Held(store, g)
  <2>0. call \in [Calls -> PendingCalls]
    BY DEF Shape, TypeOK
  <2>1. call' = Cancelled(call, {g}) /\ UNCHANGED <<live, wire, store, outlived>>
    BY <1>2 DEF RevokeAndCancel
  <2>2. ASSUME NEW d \in Calls
        PROVE  /\ SameWork(call[d], call'[d]) /\ call'[d].retried = call[d].retried
               /\ call'[d].status = "pending" => call'[d] = call[d]
    BY <2>0, <2>1, CancelledKeeps
  <2> QED BY <2>1, <2>2, SameWireLonger DEF OnlyEnds, Shape
<1> QED BY <1>1, <1>2

(* The coordinator's revocation: the pending calls of g are the ones named.*)
LEMMA EndsOutlived ==
  ASSUME Shape, NEW g \in Grants, CoordinatorRevoke(g) PROVE OnlyEnds
<1>1. /\ Revoke({g}, store[g].target) /\ UNCHANGED <<call, live>>
      /\ outlived' = outlived \cup {c \in Calls : Pending(c) /\ call[c].grant = g}
  BY DEF CoordinatorRevoke
<1>2. Left({g}) /\ \A s \in SocketIds : Longer(s)
  BY <1>1, RevokeFacts DEF Shape
<1>3. call \in [Calls -> PendingCalls]
  BY DEF Shape, TypeOK
<1>4. ASSUME NEW c \in Calls, call[c].status = "pending", Held(store, call[c].grant)
      PROVE  Held(store', call[c].grant) \/ c \in outlived'
  <2>1. CASE call[c].grant = g
    BY <1>1, <1>4, <2>1 DEF Pending
  <2>2. CASE call[c].grant # g
    <3>1. call[c].grant \in Grants
      BY <1>3 DEF PendingCalls
    <3> QED BY <1>2, <1>4, <2>2, <3>1 DEF Left, Held
  <2> QED BY <2>1, <2>2
<1>5. \A c \in Calls : SameWork(call[c], call[c])
  BY <1>3 DEF SameWork
<1> QED BY <1>1, <1>2, <1>4, <1>5 DEF OnlyEnds

(* Every step is the arrival of a socket, the close of the live one, the   *)
(* disposal of the bridge, a request, or one that only ends calls.         *)
LEMMA Steps ==
  ASSUME Shape, [Next]_vars
  PROVE  \/ \E o, k, cs, gone : Joins(o, k, cs, gone)
         \/ LiveClosed
         \/ Dispose
         \/ \E c \in Calls, g \in Grants, op \in {"read", "write"} : Request(c, g, op)
         \/ OnlyEnds
<1>1. ASSUME NEW o \in Origins, Accept(o) \/ Replace(o) \/ Takeover(o)
      PROVE  \E k, cs, gone : Joins(o, k, cs, gone)
  BY <1>1, ArrivalsJoin
<1>4. CASE StartClosing
  BY <1>4, EndsAll DEF StartClosing
<1>5. ASSUME NEW s \in SocketIds, StaleClosed(s) PROVE OnlyEnds
  BY <1>5, EndsAll DEF StaleClosed
<1>6. ASSUME NEW g \in Grants, NEW s \in Sessions, GrantPut(g, s) PROVE OnlyEnds
  <2>1. /\ store' = Offered(store, g, s, sock[live].conn) /\ store[g].status = "unoffered"
        /\ call' = call /\ live' = live /\ wire' = wire /\ outlived' = outlived
    BY <1>6 DEF GrantPut, CanOffer
  <2>2. \A h \in Grants : Held(store, h) => Held(store', h)
    BY <2>1 DEF Offered, Held, Shape, TypeOK, Stores
  <2> QED BY <2>1, <2>2, SameWireLonger DEF OnlyEnds, Shape, TypeOK, SameWork, PendingCalls
<1>7. ASSUME NEW g \in Grants, NEW s \in SocketIds, ExtensionRevoke(g, s) PROVE OnlyEnds
  BY <1>7, EndsCancelled DEF ExtensionRevoke
<1>8. ASSUME NEW g \in Grants, CoordinatorRevoke(g) PROVE OnlyEnds
  BY <1>8, EndsOutlived
<1>9. ASSUME NEW c \in Calls, ToolAccepted(c) PROVE OnlyEnds
  <2>1. ASSUME NEW r \in PendingCalls
        PROVE  LET q == [r EXCEPT !.accepted = TRUE] IN
               /\ SameWork(r, q) /\ q.retried = r.retried /\ q.status = r.status
               /\ q.armed = r.armed /\ q.via = r.via
    BY DEF PendingCalls, SameWork
  <2>2. call' = [call EXCEPT ![c] = [call[c] EXCEPT !.accepted = TRUE]]
        /\ UNCHANGED <<live, wire, store, outlived>>
    BY <1>9 DEF ToolAccepted
  <2>3. ASSUME NEW d \in Calls
        PROVE  /\ SameWork(call[d], call'[d]) /\ call'[d].retried = call[d].retried
               /\ call'[d].status = call[d].status
               /\ call'[d].armed = call[d].armed /\ call'[d].via = call[d].via
    <3>1. call \in [Calls -> PendingCalls]
      BY DEF Shape, TypeOK
    <3>2. CASE d = c
      BY <2>1, <2>2, <3>1, <3>2
    <3>3. CASE d # c
      <4>1. call'[d] = call[d] /\ call[d] \in PendingCalls
        BY <2>2, <3>1, <3>3
      <4> QED BY <4>1 DEF SameWork
    <3> QED BY <3>2, <3>3
  <2> QED BY <2>2, <2>3, SameWireLonger DEF OnlyEnds, Shape
<1>10. ASSUME NEW c \in Calls, ToolResult(c) \/ GiveUp(c) \/ RetryExpires(c) PROVE OnlyEnds
  BY <1>10, EndsOne DEF ToolResult, GiveUp, RetryExpires, Answerable, Pending
<1>11. ASSUME NEW c \in Calls, ToolExpired(c) PROVE OnlyEnds
  <2>1. call[c].grant \in Grants
    BY DEF Shape, TypeOK, PendingCalls
  <2> QED BY <1>11, <2>1, EndsCancelled DEF ToolExpired
<1>12. CASE UNCHANGED vars
  BY <1>12, EndsAll DEF vars
<1> QED BY <1>1, <1>4, <1>5, <1>6, <1>7, <1>8, <1>9, <1>10, <1>11, <1>12
        DEF Next, SocketStep, GrantStep, CallStep

-----------------------------------------------------------------------------
(* The sockets are well formed in every reachable state.                   *)
THEOREM TypeCorrect == Spec => []TypeOK
<1>1. Shape => TypeOK
  BY DEF Shape
<1> QED BY <1>1, ShapeInit, ShapeStep, PTL DEF Spec

LEMMA ShapeAlways == Spec => []Shape
  BY ShapeInit, ShapeStep, PTL DEF Spec

(* What an arriving socket finds waiting: reads with their retry armed.    *)
LEMMA JoinsWaiting ==
  ASSUME Shape, PendingWaitsOnLive, NEW o, NEW k, NEW cs, NEW gone, Joins(o, k, cs, gone)
  PROVE  \A c \in Calls :
           /\ SameWork(call[c], cs[c])
           /\ cs[c].status = "pending" =>
                /\ call[c].status = "pending" /\ gone = {}
                /\ cs[c].armed /\ cs[c].retried /\ cs[c].op = "read"
                /\ call[c].retried => call[c].armed
           /\ cs[c].status # "pending" => cs[c].retried = call[c].retried
<1>1. call \in [Calls -> PendingCalls]
  BY DEF Shape, TypeOK
<1>2. CASE live = 0 /\ cs = call /\ gone = {}
  BY <1>1, <1>2 DEF PendingWaitsOnLive, Pending, SameWork
<1>3. CASE \E b \in BOOLEAN : cs = AfterLoss(call, b) /\ (b => gone = {})
  <2>1. PICK b \in BOOLEAN : cs = AfterLoss(call, b) /\ (b => gone = {})
    BY <1>3
  <2>2. ASSUME NEW c \in Calls
        PROVE  /\ SameWork(call[c], cs[c])
               /\ cs[c].status = "pending" => /\ b /\ call[c].status = "pending"
                                              /\ ~call[c].retried /\ call[c].op = "read"
                                              /\ cs[c].retried /\ cs[c].armed
               /\ cs[c].status # "pending" => cs[c].retried = call[c].retried
    BY <1>1, <2>1, LossKeeps
  <2> QED BY <2>1, <2>2 DEF SameWork
<1>4. TRUE \in BOOLEAN /\ FALSE \in BOOLEAN
  OBVIOUS
<1> QED BY <1>2, <1>3, <1>4 DEF Joins

(* A pending call waits on the live socket, or for its one reconnect.      *)
LEMMA WaitsStep == Shape /\ PendingWaitsOnLive /\ [Next]_vars => PendingWaitsOnLive'
<1> SUFFICES ASSUME Shape, PendingWaitsOnLive, [Next]_vars,
                    NEW c \in Calls, call'[c].status = "pending"
             PROVE  IF live' = 0
                    THEN call'[c].armed /\ call'[c].retried /\ call'[c].op = "read"
                    ELSE ~call'[c].armed /\ call'[c].via = live'
  BY DEF PendingWaitsOnLive, Pending
<1>0. call \in [Calls -> PendingCalls] /\ opened \in Nat
  BY DEF Shape, TypeOK
<1>1. ASSUME NEW o, NEW k, NEW cs, NEW gone, Joins(o, k, cs, gone)
      PROVE  live' # 0 /\ ~call'[c].armed /\ call'[c].via = live'
  <2> DEFINE s == opened + 1
  <2>1. /\ s \in SocketIds /\ live' = s /\ cs \in [Calls -> PendingCalls]
        /\ call' = Resent(cs, s)
    BY <1>1 DEF Joins, Arrival
  <2>2. cs[c].status = "pending" => cs[c].armed
    BY <1>1, JoinsWaiting
  <2> HIDE DEF s
  <2>3. ~call'[c].armed /\ call'[c].via = s
    BY <2>1, <2>2, ResentKeeps
  <2> QED BY <2>1, <2>3, Numbers
<1>2. CASE LiveClosed
  <2>1. call' = AfterLoss(call, TRUE) /\ live' = 0
    BY <1>2 DEF LiveClosed
  <2>2. call'[c].armed /\ call'[c].retried /\ call[c].op = "read" /\ SameWork(call[c], call'[c])
    BY <1>0, <2>1, LossKeeps
  <2> QED BY <2>1, <2>2 DEF SameWork
<1>3. CASE Dispose
  <2>1. call' = AfterLoss(call, FALSE)
    BY <1>3 DEF Dispose
  <2> QED BY <1>0, <2>1, NobodyWaits
<1>4. ASSUME NEW d \in Calls, NEW g \in Grants, NEW op \in {"read", "write"}, Request(d, g, op)
      PROVE  live' # 0 /\ ~call'[c].armed /\ call'[c].via = live'
  <2>1. /\ live # 0 /\ live' = live
        /\ call' = [call EXCEPT ![d] = [status |-> "pending", grant |-> g, op |-> op,
                                        accepted |-> FALSE, retried |-> FALSE,
                                        armed |-> FALSE, via |-> live]]
    BY <1>4 DEF Request, Dispatchable, Connected
  <2>2. CASE c = d
    BY <1>0, <2>1, <2>2
  <2>3. CASE c # d
    <3>1. call'[c] = call[c]
      BY <1>0, <2>1, <2>3
    <3> QED BY <2>1, <3>1 DEF PendingWaitsOnLive, Pending
  <2> QED BY <2>2, <2>3
<1>5. CASE OnlyEnds
  BY <1>5 DEF OnlyEnds, SameWork, PendingWaitsOnLive, Pending
<1> QED BY <1>1, <1>2, <1>3, <1>4, <1>5, Steps

LEMMA WaitsInit == Init => PendingWaitsOnLive
  BY DEF Init, PendingWaitsOnLive, Pending

LEMMA WaitsAlways == Spec => [](Shape /\ PendingWaitsOnLive)
<1>1. Shape /\ PendingWaitsOnLive /\ [Next]_vars => (Shape /\ PendingWaitsOnLive)'
  BY ShapeStep, WaitsStep
<1> QED BY <1>1, ShapeInit, WaitsInit, PTL DEF Spec

(* No frame of a replaced socket settles a call and no timer left over     *)
(* from a drop rejects one that was sent again, for any number of sockets, *)
(* calls and extensions.                                                   *)
THEOREM WaitsCorrect == Spec => []PendingWaitsOnLive
  BY WaitsAlways, PTL

-----------------------------------------------------------------------------
(* Through every drop, replacement and takeover the only pending calls of  *)
(* a revoked grant are those that were pending when the coordinator        *)
(* revoked it (server.ts:226); every other revocation ends them.           *)
THEOREM RevokedCorrect == Spec => []RevokedNeverPending
<1> DEFINE I == Shape /\ PendingWaitsOnLive
<1>1. Init => RevokedNeverPending
  BY DEF Init, RevokedNeverPending, Pending
<1>2. I /\ RevokedNeverPending /\ [Next]_vars => RevokedNeverPending'
  <2> SUFFICES ASSUME Shape, PendingWaitsOnLive, RevokedNeverPending, [Next]_vars,
                      NEW c \in Calls, call'[c].status = "pending"
               PROVE  Held(store', call'[c].grant) \/ c \in outlived'
    BY DEF RevokedNeverPending, Pending
  <2>0. /\ call \in [Calls -> PendingCalls]
        /\ call[c].status = "pending" => Held(store, call[c].grant) \/ c \in outlived
        /\ call[c].grant \in Grants
    BY DEF Shape, TypeOK, RevokedNeverPending, Pending, PendingCalls
  <2>1. ASSUME NEW o, NEW k, NEW cs, NEW gone, Joins(o, k, cs, gone)
        PROVE  Held(store', call'[c].grant) \/ c \in outlived'
    <3> DEFINE s == opened + 1
    <3>1. /\ s \in SocketIds /\ cs \in [Calls -> PendingCalls]
          /\ call' = Resent(cs, s) /\ Left(gone) /\ outlived' = outlived
      BY <2>1 DEF Joins, Arrival
    <3>2. /\ SameWork(call[c], cs[c])
          /\ cs[c].status = "pending" => call[c].status = "pending" /\ gone = {}
      BY <2>1, JoinsWaiting
    <3> HIDE DEF s
    <3>3. SameWork(cs[c], call'[c]) /\ call'[c].status = cs[c].status
      BY <3>1, ResentKeeps
    <3>4. call'[c].grant = call[c].grant /\ call[c].status = "pending" /\ gone = {}
      BY <3>2, <3>3 DEF SameWork
    <3> QED BY <2>0, <3>1, <3>4 DEF Left, Held
  <2>2. CASE LiveClosed
    <3>1. call' = AfterLoss(call, TRUE) /\ store' = store /\ outlived' = outlived
      BY <2>2 DEF LiveClosed
    <3>2. call[c].status = "pending" /\ SameWork(call[c], call'[c])
      BY <2>0, <3>1, LossKeeps
    <3> QED BY <2>0, <3>1, <3>2 DEF SameWork
  <2>3. CASE Dispose
    <3>1. call' = AfterLoss(call, FALSE)
      BY <2>3 DEF Dispose
    <3> QED BY <2>0, <3>1, NobodyWaits
  <2>4. ASSUME NEW d \in Calls, NEW g \in Grants, NEW op \in {"read", "write"}, Request(d, g, op)
        PROVE  Held(store', call'[c].grant) \/ c \in outlived'
    <3>1. /\ Held(store, g) /\ store' = store /\ outlived' = outlived
          /\ call' = [call EXCEPT ![d] = [status |-> "pending", grant |-> g, op |-> op,
                                          accepted |-> FALSE, retried |-> FALSE,
                                          armed |-> FALSE, via |-> live]]
      BY <2>4 DEF Request, Dispatchable, Resolves
    <3>2. CASE c = d
      BY <2>0, <3>1, <3>2
    <3>3. CASE c # d
      <4>1. call'[c] = call[c]
        BY <2>0, <3>1, <3>3
      <4> QED BY <2>0, <3>1, <4>1
    <3> QED BY <3>2, <3>3
  <2>5. CASE OnlyEnds
    BY <2>0, <2>5 DEF OnlyEnds, SameWork
  <2> QED BY <2>1, <2>2, <2>3, <2>4, <2>5, Steps
<1> HIDE DEF I
<1>3. Spec => []I
  BY WaitsAlways DEF I
<1> QED BY <1>1, <1>2, <1>3, PTL DEF Spec

-----------------------------------------------------------------------------
(* How often a call was sent: once, and a second time when its session     *)
(* came back.                                                              *)

One(S) == \A p, q \in S : p = q
Two(S) == \A p, q, r \in S : p = q \/ q = r \/ p = r

Sendings ==
    \A c \in Calls :
        /\ call[c].status = "idle" => Copies(c) = {}
        /\ call[c].retried => call[c].op = "read" /\ Two(Copies(c))
        /\ ~call[c].retried \/ (Pending(c) /\ call[c].armed) => One(Copies(c))

LEMMA AtMostOne ==
  ASSUME NEW S, One(S) PROVE Cardinality(S) \in {0, 1}
<1>1. CASE S = {}
  BY <1>1, FS_EmptySet
<1>2. CASE S # {}
  <2>1. PICK x \in S : S = {x}
    BY <1>2 DEF One
  <2>2. Cardinality({x}) = 1
    BY FS_Singleton
  <2> QED BY <2>1, <2>2
<1> QED BY <1>1, <1>2

LEMMA AtMostTwo ==
  ASSUME NEW S, Two(S) PROVE Cardinality(S) <= 2
<1>1. CASE One(S)
  BY <1>1, AtMostOne
<1>2. CASE ~One(S)
  <2>1. PICK p \in S, q \in S : p # q
    BY <1>2 DEF One
  <2>2. S = {p} \cup {q}
    BY <2>1 DEF Two
  <2>3. IsFiniteSet({p}) /\ Cardinality({p}) = 1
    BY FS_Singleton
  <2> QED BY <2>1, <2>2, <2>3, FS_AddElement
<1> QED BY <1>1, <1>2

LEMMA CopyAt ==
  \A c, p :
    /\ p \in Copies(c) <=> \E s \in SocketIds : \E i \in DOMAIN wire[s] :
                              p = <<s, i>> /\ wire[s][i] = CallFrame(c)
    /\ p \in Copies(c)' <=> \E s \in SocketIds : \E i \in DOMAIN wire'[s] :
                               p = <<s, i>> /\ wire'[s][i] = CallFrame(c)
<1>1. ASSUME NEW c, NEW p
      PROVE  /\ p \in Copies(c) <=> \E s \in SocketIds :
                  p \in {s} \X {i \in DOMAIN wire[s] : wire[s][i] = CallFrame(c)}
             /\ p \in Copies(c)' <=> \E s \in SocketIds :
                  p \in {s} \X {i \in DOMAIN wire'[s] : wire'[s][i] = CallFrame(c)}
  BY DEF Copies
<1> QED BY <1>1

(* Revocations are no copies of a call.                                    *)
LEMMA LongerAdds ==
  ASSUME TypeOK, NEW c \in Calls, NEW s \in SocketIds, Longer(s), NEW i \in DOMAIN wire'[s],
         wire'[s][i] = CallFrame(c)
  PROVE  <<s, i>> \in Copies(c)
<1>1. /\ wire[s] \in Seq(Frames) /\ wire'[s] \in Seq(Frames)
      /\ Len(wire[s]) \in Nat /\ DOMAIN wire[s] = 1..Len(wire[s])
      /\ DOMAIN wire'[s] = 1..Len(wire'[s]) /\ Len(wire'[s]) \in Nat
  BY DEF TypeOK, Longer
<1>2. CallFrame(c).kind # "revoke"
  BY DEF CallFrame
<1>3. ~(i > Len(wire[s]))
  BY <1>1, <1>2 DEF Longer
<1>4. i \in 1..Len(wire[s])
  BY <1>1, <1>3
<1>5. wire[s][i] = CallFrame(c)
  BY <1>4 DEF Longer
<1> QED BY <1>1, <1>4, <1>5, CopyAt

LEMMA LongerCopies ==
  ASSUME TypeOK, \A s \in SocketIds : Longer(s), NEW c \in Calls
  PROVE  Copies(c)' \subseteq Copies(c)
<1> SUFFICES ASSUME NEW p \in Copies(c)' PROVE p \in Copies(c)
  OBVIOUS
<1>1. PICK s \in SocketIds : \E i \in DOMAIN wire'[s] : p = <<s, i>> /\ wire'[s][i] = CallFrame(c)
  BY CopyAt
<1> QED BY <1>1, LongerAdds

LEMMA DisposeLonger ==
  ASSUME Shape, Dispose PROVE \A s \in SocketIds : Longer(s)
<1>1. CASE live = 0
  BY <1>1, SameWireLonger DEF Dispose, Shape
<1>2. CASE live # 0
  <2> DEFINE gone == TargetGrants(store, sock[live].conn)
  <2>1. wire' = [wire EXCEPT ![live] = Sent(live, RevokeFrames(gone))]
    BY <1>2 DEF Dispose
  <2>2. live \in SocketIds /\ gone \in SUBSET Grants /\ wire \in [SocketIds -> Seq(Frames)]
    BY <1>2 DEF Shape, TypeOK, TargetGrants
  <2> HIDE DEF gone
  <2>3. wire'[live] = Sent(live, RevokeFrames(gone))
        /\ \A s \in SocketIds : s # live => wire'[s] = wire[s]
    BY <2>1, <2>2
  <2> QED BY <2>2, <2>3, SentLonger, SameWireLonger DEF Shape
<1> QED BY <1>1, <1>2

(* A new socket carries a frame of each waiting call, and of no other.     *)
LEMMA ArrivalCopies ==
  ASSUME Shape, NEW o, NEW k, NEW cs, NEW gone, Arrival(o, k, cs, gone), NEW c \in Calls
  PROVE  \E x : /\ Copies(c)' \subseteq Copies(c) \cup {x}
                /\ c \notin ArmedCalls(cs) => Copies(c)' \subseteq Copies(c)
<1> DEFINE s == opened + 1
           w == OpeningFrames(k, cs, outbox)
<1>1. /\ s \in SocketIds /\ wire'[s] = w /\ TypeOK
      /\ \A r \in SocketIds : r # s => Longer(r)
  BY DEF Arrival, Shape
<1>2. outbox[k] \in SUBSET Grants
  <2>1. k \in SocketIds
    BY Numbers DEF Arrival, SocketIds, Shape, TypeOK
  <2> QED BY <2>1 DEF Shape, TypeOK
<1>3. /\ \A i \in DOMAIN w : w[i] = CallFrame(c) => c \in ArmedCalls(cs)
      /\ \A i, j \in DOMAIN w : w[i] = CallFrame(c) /\ w[j] = CallFrame(c) => i = j
  BY <1>2, OpeningListed
<1> HIDE DEF s, w
<1>4. ASSUME NEW p \in Copies(c)', p \notin Copies(c)
      PROVE  \E i \in DOMAIN w : p = <<s, i>> /\ w[i] = CallFrame(c)
  <2>1. PICK r \in SocketIds : \E i \in DOMAIN wire'[r] : p = <<r, i>> /\ wire'[r][i] = CallFrame(c)
    BY CopyAt
  <2>2. r = s
    BY <1>1, <1>4, <2>1, LongerAdds
  <2> QED BY <1>1, <2>1, <2>2
<1>5. CASE \E i \in DOMAIN w : w[i] = CallFrame(c)
  <2>1. PICK i \in DOMAIN w : w[i] = CallFrame(c)
    BY <1>5
  <2>2. Copies(c)' \subseteq Copies(c) \cup {<<s, i>>}
    BY <1>3, <1>4, <2>1
  <2> QED BY <1>3, <2>1, <2>2
<1>6. CASE ~\E i \in DOMAIN w : w[i] = CallFrame(c)
  BY <1>4, <1>6
<1> QED BY <1>5, <1>6

LEMMA SendingsStep ==
  Shape /\ PendingWaitsOnLive /\ Sendings /\ [Next]_vars => Sendings'
<1> SUFFICES ASSUME Shape, PendingWaitsOnLive, Sendings, [Next]_vars, NEW c \in Calls
             PROVE  /\ call'[c].status = "idle" => Copies(c)' = {}
                    /\ call'[c].retried => call'[c].op = "read" /\ Two(Copies(c)')
                    /\ ~call'[c].retried \/ (call'[c].status = "pending" /\ call'[c].armed)
                         => One(Copies(c)')
  BY DEF Sendings, Pending
<1>0. /\ TypeOK /\ call \in [Calls -> PendingCalls]
      /\ call[c].status = "idle" => Copies(c) = {}
      /\ call[c].retried => call[c].op = "read" /\ Two(Copies(c))
      /\ ~call[c].retried \/ (call[c].status = "pending" /\ call[c].armed) => One(Copies(c))
  BY DEF Shape, TypeOK, Sendings, Pending
<1>1. ASSUME NEW o, NEW k, NEW cs, NEW gone, Joins(o, k, cs, gone)
      PROVE  /\ call'[c].status = "idle" => Copies(c)' = {}
             /\ call'[c].retried => call'[c].op = "read" /\ Two(Copies(c)')
             /\ ~call'[c].retried \/ (call'[c].status = "pending" /\ call'[c].armed)
                  => One(Copies(c)')
  <2> DEFINE s == opened + 1
  <2>1. /\ s \in SocketIds /\ cs \in [Calls -> PendingCalls] /\ call' = Resent(cs, s)
        /\ Arrival(o, k, cs, gone)
    BY <1>1 DEF Joins, Arrival
  <2>2. /\ SameWork(call[c], cs[c])
        /\ cs[c].status = "pending" =>
             /\ call[c].status = "pending"
             /\ cs[c].armed /\ cs[c].retried /\ cs[c].op = "read"
             /\ call[c].retried => call[c].armed
        /\ cs[c].status # "pending" => cs[c].retried = call[c].retried
    BY <1>1, JoinsWaiting
  <2> HIDE DEF s
  <2>3. /\ SameWork(cs[c], call'[c]) /\ call'[c].status = cs[c].status
        /\ call'[c].retried = cs[c].retried
        /\ cs[c].status = "pending" /\ cs[c].armed => ~call'[c].armed
    BY <2>1, ResentKeeps
  <2>4. PICK x : /\ Copies(c)' \subseteq Copies(c) \cup {x}
                 /\ c \notin ArmedCalls(cs) => Copies(c)' \subseteq Copies(c)
    BY <2>1, ArrivalCopies
  <2>5. CASE cs[c].status = "pending"
    <3>1. One(Copies(c))
      BY <1>0, <2>2, <2>5
    <3>2. Two(Copies(c)')
      BY <2>4, <3>1 DEF One, Two
    <3> QED BY <2>2, <2>3, <2>5, <3>2 DEF SameWork
  <2>6. CASE cs[c].status # "pending"
    <3>1. Copies(c)' \subseteq Copies(c)
      BY <2>4, <2>6 DEF ArmedCalls
    <3>2. /\ call'[c].retried = call[c].retried /\ call'[c].op = call[c].op
          /\ call'[c].status # "pending"
          /\ call'[c].status = "idle" <=> call[c].status = "idle"
      BY <2>2, <2>3, <2>6 DEF SameWork
    <3> QED BY <1>0, <3>1, <3>2 DEF One, Two
  <2> QED BY <2>5, <2>6
<1>2. CASE LiveClosed
  <2>1. call' = AfterLoss(call, TRUE) /\ wire' = wire
    BY <1>2 DEF LiveClosed
  <2>2. /\ SameWork(call[c], call'[c])
        /\ call'[c].status = "pending" => ~call[c].retried /\ call[c].op = "read"
        /\ call'[c].status # "pending" => call'[c].retried = call[c].retried
    BY <1>0, <2>1, LossKeeps
  <2>3. Copies(c)' \subseteq Copies(c)
    BY <1>0, <2>1, SameWireLonger, LongerCopies
  <2> QED BY <1>0, <2>2, <2>3 DEF SameWork, One, Two
<1>3. CASE Dispose
  <2>1. call' = AfterLoss(call, FALSE)
    BY <1>3 DEF Dispose
  <2>2. SameWork(call[c], call'[c]) /\ call'[c].retried = call[c].retried
        /\ call'[c].status # "pending"
    BY <1>0, <2>1, NobodyWaits
  <2>3. Copies(c)' \subseteq Copies(c)
    BY <1>0, <1>3, DisposeLonger, LongerCopies
  <2> QED BY <1>0, <2>2, <2>3 DEF SameWork, One, Two
<1>4. ASSUME NEW d \in Calls, NEW g \in Grants, NEW op \in {"read", "write"}, Request(d, g, op)
      PROVE  /\ call'[c].status = "idle" => Copies(c)' = {}
             /\ call'[c].retried => call'[c].op = "read" /\ Two(Copies(c)')
             /\ ~call'[c].retried \/ (call'[c].status = "pending" /\ call'[c].armed)
                  => One(Copies(c)')
  <2>1. /\ live \in SocketIds /\ call[d].status = "idle"
        /\ wire' = [wire EXCEPT ![live] = Sent(live, <<CallFrame(d)>>)]
        /\ call' = [call EXCEPT ![d] = [status |-> "pending", grant |-> g, op |-> op,
                                        accepted |-> FALSE, retried |-> FALSE,
                                        armed |-> FALSE, via |-> live]]
    BY <1>0, <1>4 DEF Request, Dispatchable, Connected, TypeOK
  <2> DEFINE n == Len(wire[live]) + 1
  <2>2. /\ wire[live] \in Seq(Frames) /\ wire \in [SocketIds -> Seq(Frames)]
        /\ Len(wire[live]) \in Nat
    BY <1>0, <2>1 DEF TypeOK
  <2>3. ASSUME NEW i \in DOMAIN wire'[live]
        PROVE  \/ i \in DOMAIN wire[live] /\ wire'[live][i] = wire[live][i]
               \/ i = n /\ wire'[live][i] = CallFrame(d)
    BY <2>1, <2>2 DEF Sent
  <2>4. Copies(c)' \subseteq Copies(c) \cup IF c = d THEN {<<live, n>>} ELSE {}
    <3> SUFFICES ASSUME NEW p \in Copies(c)', p \notin Copies(c)
                 PROVE  c = d /\ p = <<live, n>>
      OBVIOUS
    <3>1. PICK r \in SocketIds : \E i \in DOMAIN wire'[r] : p = <<r, i>> /\ wire'[r][i] = CallFrame(c)
      BY CopyAt
    <3>2. r = live
      BY <2>1, <2>2, <3>1, CopyAt
    <3>3. PICK i \in DOMAIN wire'[live] : p = <<live, i>> /\ wire'[live][i] = CallFrame(c)
      BY <3>1, <3>2
    <3>4. i = n /\ wire'[live][i] = CallFrame(d)
      BY <2>1, <2>3, <3>3, CopyAt
    <3> QED BY <3>3, <3>4, FrameOfCall
  <2> HIDE DEF n
  <2>5. CASE c = d
    <3>1. One(Copies(c)') /\ ~call'[c].retried /\ call'[c].status # "idle"
      BY <1>0, <2>1, <2>4, <2>5 DEF One
    <3> QED BY <3>1
  <2>6. CASE c # d
    <3>1. call'[c] = call[c] /\ Copies(c)' \subseteq Copies(c)
      BY <1>0, <2>1, <2>4, <2>6
    <3> QED BY <1>0, <3>1 DEF One, Two
  <2> QED BY <2>5, <2>6
<1>5. CASE OnlyEnds
  <2>1. Copies(c)' \subseteq Copies(c)
    BY <1>0, <1>5, LongerCopies DEF OnlyEnds
  <2>2. /\ SameWork(call[c], call'[c]) /\ call'[c].retried = call[c].retried
        /\ call'[c].status = "pending" => call[c].status = "pending" /\ call'[c].armed = call[c].armed
    BY <1>5 DEF OnlyEnds
  <2> QED BY <1>0, <2>1, <2>2 DEF SameWork, One, Two
<1> QED BY <1>1, <1>2, <1>3, <1>4, <1>5, Steps

(* A write is on a transport at most once and a read at most twice,        *)
(* however often the sockets under it drop, return or are taken over.      *)
THEOREM WritesCorrect == Spec => []WritesNeverReplayed
<1> DEFINE I == Shape /\ PendingWaitsOnLive
<1>1. Init => Sendings
  <2> SUFFICES ASSUME Init, NEW c \in Calls
               PROVE  Copies(c) = {} /\ ~call[c].retried
    BY DEF Sendings, One, Two
  <2>1. \A s \in SocketIds : DOMAIN wire[s] = {}
    BY DEF Init
  <2> QED BY <2>1, CopyAt DEF Init
<1>2. I /\ Sendings /\ [Next]_vars => Sendings'
  BY SendingsStep
<1>3. I /\ Sendings => WritesNeverReplayed
  <2> SUFFICES ASSUME I, Sendings, NEW c \in Calls
               PROVE  Cardinality(Copies(c)) <= IF call[c].op = "write" THEN 1 ELSE 2
    BY DEF WritesNeverReplayed
  <2>1. CASE call[c].retried
    <3>1. call[c].op = "read" /\ Cardinality(Copies(c)) <= 2
      BY <2>1, AtMostTwo DEF Sendings
    <3> QED BY <3>1
  <2>2. CASE ~call[c].retried
    <3>1. Cardinality(Copies(c)) \in {0, 1}
      BY <2>2, AtMostOne DEF Sendings
    <3> QED BY <3>1
  <2> QED BY <2>1, <2>2
<1> HIDE DEF I
<1>4. Spec => []I
  BY WaitsAlways DEF I
<1> QED BY <1>1, <1>2, <1>3, <1>4, PTL DEF Spec

-----------------------------------------------------------------------------
(* A step that neither opens nor closes a session: what wires and outboxes *)
(* carry stays there, and what it revokes is sent, queued or swallowed by  *)
(* the transport of a live socket that is closing.                         *)

Kept(s) ==
    /\ Len(wire[s]) <= Len(wire'[s])
    /\ \A i \in 1..Len(wire[s]) : wire'[s][i] = wire[s][i]

Reached(g) ==
    \/ g \in swallowed'
    \/ g \in outbox'[store[g].target]
    \/ /\ live # 0 /\ sock[live].conn = store[g].target
       /\ \E i \in 1..Len(wire'[live]) : wire'[live][i] = RevokeFrame(g)

SameIds == \A s \in SocketIds : sock'[s].conn = sock[s].conn /\ sock'[s].origin = sock[s].origin

Delivered ==
    /\ live' = live /\ last' = last /\ owed' = owed /\ swallowed \subseteq swallowed'
    /\ SameIds /\ \A s \in SocketIds : Kept(s)
    /\ \A k \in SocketIds : outbox[k] \subseteq outbox'[k]
    /\ live # 0 => outbox'[sock[live].conn] = outbox[sock[live].conn]
    /\ \A g \in Grants : store'[g].status = "dropped" =>
         /\ store'[g].target = store[g].target
         /\ store[g].status \in {"held", "dropped"}
         /\ store[g].status = "held" => Reached(g)

LEMMA LongerKept == \A s : Longer(s) => Kept(s)
  BY DEF Longer, Kept

LEMMA LiveConn ==
  ASSUME Shape, live # 0
  PROVE  live \in SocketIds /\ sock[live].conn \in SocketIds /\ sock[live].conn \in 1..opened
<1>1. live \in SocketIds /\ live <= opened /\ opened \in Nat /\ opened <= MaxSockets
  BY DEF Shape, TypeOK, Numbered
<1>2. sock[live].conn \in 1..opened
  BY <1>1 DEF Shape, Numbered
<1> QED BY <1>1, <1>2, Numbers DEF SocketIds

LEMMA SameWireKept ==
  ASSUME Shape, wire' = wire PROVE \A s \in SocketIds : Kept(s)
  BY SameWireLonger, LongerKept DEF Shape

LEMMA DeliversNothing ==
  ASSUME Shape, UNCHANGED <<live, last, owed, swallowed, outbox, store>>, SameIds,
         \A s \in SocketIds : Kept(s)
  PROVE  Delivered
  BY DEF Delivered

LEMMA DeliversRevoke ==
  ASSUME Shape, NEW g \in Grants, Held(store, g), Revoke({g}, store[g].target),
         UNCHANGED <<sock, live, last, owed>>
  PROVE  Delivered
<1> DEFINE k == store[g].target
<1>1. /\ Left({g})
      /\ \A s \in SocketIds : Kept(s)
      /\ outbox' \in [SocketIds -> SUBSET Grants]
      /\ swallowed \subseteq swallowed'
      /\ IF Connected(k)
         THEN /\ outbox' = outbox
              /\ \/ g \in swallowed'
                 \/ \E i \in 1..Len(wire'[live]) : wire'[live][i] = RevokeFrame(g)
         ELSE outbox' = [outbox EXCEPT ![k] = @ \cup {g}]
  BY RevokeFacts, LongerKept DEF Shape
<1>2. k \in SocketIds /\ outbox \in [SocketIds -> SUBSET Grants]
  BY Numbers DEF Shape, TypeOK, Numbered, Held, SocketIds
<1>3. Reached(g)
  BY <1>1, <1>2 DEF Reached, Connected
<1>4. /\ \A j \in SocketIds : outbox[j] \subseteq outbox'[j]
      /\ live # 0 => outbox'[sock[live].conn] = outbox[sock[live].conn]
  <2>1. CASE Connected(k)
    BY <1>1, <2>1
  <2>2. CASE ~Connected(k)
    <3>1. outbox' = [outbox EXCEPT ![k] = @ \cup {g}]
      BY <1>1, <2>2
    <3>2. live # 0 => sock[live].conn \in SocketIds /\ sock[live].conn # k
      BY <2>2, LiveConn DEF Connected
    <3> QED BY <1>2, <3>1, <3>2
  <2> QED BY <2>1, <2>2
<1>5. ASSUME NEW h \in Grants, store'[h].status = "dropped"
      PROVE  /\ store'[h].target = store[h].target
             /\ store[h].status \in {"held", "dropped"}
             /\ store[h].status = "held" => Reached(h)
  <2>1. store'[h].target = store[h].target
        /\ (store[h].status = "dropped" \/ (h = g /\ store[h].status = "held"))
    BY <1>1, <1>5 DEF Left, Held
  <2> QED BY <2>1, <1>3
<1> QED BY <1>1, <1>4, <1>5 DEF Delivered, SameIds

LEMMA DeliversCancelled ==
  ASSUME Shape, NEW g \in Grants, RevokeAndCancel(g), UNCHANGED <<sock, live, last, owed>>
  PROVE  Delivered
<1>1. CASE Held(store, g)
  BY <1>1, DeliversRevoke DEF RevokeAndCancel
<1>2. CASE ~Held(store, g)
  BY <1>2, DeliversNothing, SameWireKept DEF RevokeAndCancel, SameIds
<1> QED BY <1>1, <1>2

LEMMA Deliveries ==
  ASSUME Shape, [Next]_vars
  PROVE  \/ \E o, k, cs, gone : Joins(o, k, cs, gone)
         \/ LiveClosed
         \/ Dispose
         \/ Delivered
<1> USE DeliversNothing, SameWireKept
<1>0. sock \in [SocketIds -> Sockets] /\ wire \in [SocketIds -> Seq(Frames)]
  BY DEF Shape, TypeOK
<1>1. ASSUME NEW o \in Origins, Accept(o) \/ Replace(o) \/ Takeover(o)
      PROVE  \E k, cs, gone : Joins(o, k, cs, gone)
  BY <1>1, ArrivalsJoin
<1>2. CASE StartClosing
  <2>1. SameIds
    BY <1>0, <1>2 DEF StartClosing, SameIds, Sockets
  <2> QED BY <1>2, <2>1 DEF StartClosing
<1>3. ASSUME NEW s \in SocketIds, StaleClosed(s) PROVE Delivered
  <2>1. SameIds
    BY <1>0, <1>3 DEF StaleClosed, SameIds, Sockets
  <2> QED BY <1>3, <2>1 DEF StaleClosed
<1>4. ASSUME NEW g \in Grants, NEW s \in Sessions, GrantPut(g, s) PROVE Delivered
  <2>1. ASSUME NEW h \in Grants, store'[h].status = "dropped" PROVE store'[h] = store[h]
    <3>1. store' = Offered(store, g, s, sock[live].conn)
      BY <1>4 DEF GrantPut
    <3>2. store \in Stores
      BY DEF Shape, TypeOK
    <3>3. CASE h = g
      BY <2>1, <3>1, <3>2, <3>3 DEF Offered, Stores
    <3>4. CASE h # g
      BY <3>1, <3>2, <3>4 DEF Offered, Stores
    <3> QED BY <3>3, <3>4
  <2>2. UNCHANGED <<sock, live, last, owed, swallowed, outbox, wire>>
    BY <1>4 DEF GrantPut
  <2> QED BY <2>1, <2>2 DEF Delivered, SameIds
<1>5. ASSUME NEW g \in Grants, NEW s \in SocketIds, ExtensionRevoke(g, s) PROVE Delivered
  BY <1>5, DeliversCancelled DEF ExtensionRevoke
<1>6. ASSUME NEW g \in Grants, CoordinatorRevoke(g) PROVE Delivered
  BY <1>6, DeliversRevoke DEF CoordinatorRevoke
<1>7. ASSUME NEW c \in Calls, NEW g \in Grants, NEW op \in {"read", "write"}, Request(c, g, op)
      PROVE  Delivered
  <2>1. /\ live \in SocketIds
        /\ wire' = [wire EXCEPT ![live] = Sent(live, <<CallFrame(c)>>)]
        /\ UNCHANGED <<sock, live, last, owed, swallowed, outbox, store>>
    BY <1>7 DEF Request, Dispatchable, Connected, Shape, TypeOK
  <2>2. Kept(live)
    <3>1. wire[live] \in Seq(Frames) /\ wire'[live] = Sent(live, <<CallFrame(c)>>)
      BY <1>0, <2>1
    <3> QED BY <3>1 DEF Kept, Sent
  <2>3. \A s \in SocketIds : s # live => Kept(s)
    BY <1>0, <2>1 DEF Kept
  <2>4. SameIds /\ \A s \in SocketIds : Kept(s)
    BY <2>1, <2>2, <2>3 DEF SameIds
  <2> QED BY <2>1, <2>4
<1>8. ASSUME NEW c \in Calls,
             ToolAccepted(c) \/ ToolResult(c) \/ GiveUp(c) \/ RetryExpires(c) \/ UNCHANGED vars
      PROVE  Delivered
  BY <1>8 DEF ToolAccepted, ToolResult, GiveUp, RetryExpires, vars, SameIds
<1>9. ASSUME NEW c \in Calls, ToolExpired(c) PROVE Delivered
  <2>1. call[c].grant \in Grants
    BY DEF Shape, TypeOK, PendingCalls
  <2> QED BY <1>9, <2>1, DeliversCancelled DEF ToolExpired
<1>10. CASE UNCHANGED vars
  BY <1>10 DEF vars, SameIds
<1> QED BY <1>1, <1>2, <1>3, <1>4, <1>5, <1>6, <1>7, <1>8, <1>9, <1>10
        DEF Next, SocketStep, GrantStep, CallStep

-----------------------------------------------------------------------------
(* Sessions of different extensions.                                       *)

LEMMA OthersKeepIds ==
  ASSUME Shape, LiveClosed \/ Dispose PROVE SameIds /\ live' = 0
<1>1. sock \in [SocketIds -> Sockets]
  BY DEF Shape, TypeOK
<1>2. CASE LiveClosed
  BY <1>1, <1>2 DEF LiveClosed, SameIds, Sockets
<1>3. CASE Dispose
  BY <1>1, <1>3 DEF Dispose, SameIds, Sockets
<1> QED BY <1>2, <1>3

LEMMA OneOriginStep ==
  ASSUME Shape, [Next]_vars, ConnectionIdOfOneOrigin PROVE ConnectionIdOfOneOrigin'
<1> SUFFICES ASSUME NEW s \in SocketIds, NEW r \in SocketIds,
                    sock'[s].conn # 0, sock'[s].conn = sock'[r].conn
             PROVE  sock'[s].origin = sock'[r].origin
  BY DEF ConnectionIdOfOneOrigin
<1>1. ASSUME NEW o, NEW k, NEW cs, NEW gone, Joins(o, k, cs, gone)
      PROVE  sock'[s].origin = sock'[r].origin
  <2> DEFINE n == opened + 1
  <2>1. /\ n \in SocketIds /\ sock'[n].conn = k /\ sock'[n].origin = o
        /\ \A q \in SocketIds : q # n =>
             sock'[q].conn = sock[q].conn /\ sock'[q].origin = sock[q].origin
        /\ k = n \/ \E q \in 1..opened : sock[q].origin = o /\ sock[q].conn = k
    BY <1>1 DEF Joins, Arrival
  <2>2. ASSUME NEW q \in SocketIds, q # n, sock[q].conn = k, k # 0
        PROVE  sock[q].origin = o
    <3>1. k # n
      BY <2>1, <2>2, Numbers DEF Shape, TypeOK, Numbered
    <3>2. PICK p \in 1..opened : sock[p].origin = o /\ sock[p].conn = k
      BY <2>1, <3>1
    <3>3. p \in SocketIds
      BY Numbers DEF Shape, TypeOK, SocketIds
    <3> QED BY <2>2, <3>2, <3>3 DEF ConnectionIdOfOneOrigin
  <2> HIDE DEF n
  <2>3. CASE s = n /\ r = n
    BY <2>3
  <2>4. CASE s = n /\ r # n
    BY <2>1, <2>2, <2>4
  <2>5. CASE s # n /\ r = n
    BY <2>1, <2>2, <2>5
  <2>6. CASE s # n /\ r # n
    BY <2>1, <2>6 DEF ConnectionIdOfOneOrigin
  <2> QED BY <2>3, <2>4, <2>5, <2>6
<1>2. CASE SameIds
  BY <1>2 DEF SameIds, ConnectionIdOfOneOrigin
<1> QED BY <1>1, <1>2, Deliveries, OthersKeepIds DEF Delivered

LEMMA OutboxStep ==
  ASSUME Shape, [Next]_vars, OutboxNeverLive PROVE OutboxNeverLive'
<1>1. ASSUME NEW o, NEW k, NEW cs, NEW gone, Joins(o, k, cs, gone)
      PROVE  outbox'[sock'[live'].conn] = {}
  BY <1>1 DEF Joins, Arrival
<1>2. CASE Delivered /\ live # 0
  <2>1. sock'[live].conn = sock[live].conn
    BY <1>2, LiveConn DEF Delivered, SameIds
  <2> QED BY <1>2, <2>1 DEF Delivered, OutboxNeverLive
<1>3. CASE live' = 0
  BY <1>3 DEF OutboxNeverLive
<1>4. Delivered => live' = live
  BY DEF Delivered
<1> QED BY <1>1, <1>2, <1>3, <1>4, Deliveries, OthersKeepIds DEF OutboxNeverLive

(* A socket of another extension is all that changes the live origin.      *)
LEMMA TakeoverStep ==
  ASSUME Shape, [Next]_vars, live # 0, live' # 0, sock'[live'].origin # sock[live].origin
  PROVE  /\ \A c \in Calls : call'[c].status # "pending"
         /\ \A g \in Grants : Held(store', g) => store'[g].target # sock[live].conn
         /\ outbox'[sock[live].conn] = {}
<1>1. PICK o, k, cs, gone : Joins(o, k, cs, gone)
  <2>1. ~Delivered
    BY LiveConn DEF Delivered, SameIds
  <2> QED BY <2>1, Deliveries, OthersKeepIds
<1> DEFINE prior == sock[live].conn
<1>2. /\ sock'[live'].origin = o /\ call' = Resent(cs, opened + 1)
      /\ Left(gone) /\ opened + 1 \in SocketIds
  BY <1>1 DEF Joins, Arrival
<1>3. /\ cs = AfterLoss(call, FALSE) /\ gone = TargetGrants(store, prior)
      /\ outbox' = [outbox EXCEPT ![prior] = {}, ![k] = {}]
  BY <1>1, <1>2 DEF Joins
<1>4. call \in [Calls -> PendingCalls] /\ cs \in [Calls -> PendingCalls]
  BY <1>3, LossKeeps DEF Shape, TypeOK
<1>5. ASSUME NEW c \in Calls PROVE call'[c].status # "pending"
  <2>1. cs[c].status # "pending"
    BY <1>3, <1>4, NobodyWaits
  <2> QED BY <1>2, <1>4, <2>1, ResentKeeps
<1>6. ASSUME NEW g \in Grants, Held(store', g) PROVE store'[g].target # prior
  BY <1>2, <1>3, <1>6 DEF Left, Held, TargetGrants
<1>7. outbox'[prior] = {}
  <2>1. prior \in SocketIds /\ outbox \in [SocketIds -> SUBSET Grants]
    BY LiveConn DEF Shape, TypeOK
  <2> HIDE DEF prior
  <2> QED BY <1>3, <2>1
<1> QED BY <1>5, <1>6, <1>7

(* Whatever sockets come, drop, return and take over, extensions share no  *)
(* connection id, no outbox and no work.                                   *)
THEOREM SessionsCorrect == Spec => SessionsStayApart
<1> DEFINE I == Shape /\ ConnectionIdOfOneOrigin /\ OutboxNeverLive
           Moved == live # 0 /\ live' # 0 /\ sock'[live'].origin # sock[live].origin
           Gone == /\ \A c \in Calls : call'[c].status # "pending"
                   /\ \A g \in Grants : Held(store', g) => store'[g].target # sock[live].conn
                   /\ outbox'[sock[live].conn] = {}
           Apart == ConnectionIdOfOneOrigin' /\ OutboxNeverLive' /\ (Moved => Gone)
<1>1. Init => I
  BY ShapeInit DEF Init, ConnectionIdOfOneOrigin, OutboxNeverLive
<1>2. I /\ [Next]_vars => I'
  BY ShapeStep, OneOriginStep, OutboxStep
<1>3. I /\ [Next]_vars => Apart
  BY OneOriginStep, OutboxStep, TakeoverStep
<1>4. [][Apart]_vars => SessionsStayApart
  <2>1. [Apart]_vars => [/\ ConnectionIdOfOneOrigin' /\ OutboxNeverLive'
                         /\ live # 0 /\ live' # 0 /\ sock'[live'].origin # sock[live].origin
                            => /\ \A c \in Calls : call'[c].status # "pending"
                               /\ \A g \in Grants : Held(store', g) => store'[g].target # sock[live].conn
                               /\ outbox'[sock[live].conn] = {}]_vars
    OBVIOUS
  <2> QED BY <2>1, PTL DEF SessionsStayApart
<1> HIDE DEF I, Apart
<1> QED BY <1>1, <1>2, <1>3, <1>4, PTL DEF Spec

-----------------------------------------------------------------------------
(* Revocations that were queued while a session was down.                  *)

FirstOn(s, g) ==
    \E i \in 1..Len(wire[s]) :
        /\ wire[s][i] = RevokeFrame(g)
        /\ \A j \in 1..i : wire[s][j].kind = "revoke"

LEMMA FirstStays ==
  ASSUME Shape, Shape', NEW s \in SocketIds, Kept(s), NEW g, FirstOn(s, g)
  PROVE  FirstOn(s, g)'
<1>1. PICK i \in 1..Len(wire[s]) : /\ wire[s][i] = RevokeFrame(g)
                                   /\ \A j \in 1..i : wire[s][j].kind = "revoke"
  BY DEF FirstOn
<1>2. Len(wire[s]) \in Nat /\ Len(wire'[s]) \in Nat
  BY DEF Shape, TypeOK
<1>3. wire'[s][i] = RevokeFrame(g)
  BY <1>1 DEF Kept
<1>4. ASSUME NEW j \in 1..i PROVE wire'[s][j].kind = "revoke"
  <2>1. j \in 1..Len(wire[s])
    BY <1>2
  <2> QED BY <1>1, <2>1 DEF Kept
<1>5. i \in 1..Len(wire'[s])
  BY <1>2 DEF Kept
<1> QED BY <1>3, <1>4, <1>5 DEF FirstOn

LEMMA OpeningRevokes ==
  ASSUME NEW k, NEW cs, NEW box, box[k] \in SUBSET Grants, NEW g \in box[k],
         NEW w, w = OpeningFrames(k, cs, box)
  PROVE  \E i \in 1..Len(w) : w[i] = RevokeFrame(g) /\ \A j \in 1..i : w[j].kind = "revoke"
  BY OpeningListed

LEMMA FirstStep ==
  ASSUME Shape, [Next]_vars, \A s \in SocketIds : \A g \in owed[s] : FirstOn(s, g)
  PROVE  \A s \in SocketIds : \A g \in owed'[s] : FirstOn(s, g)'
<1>0. Shape'
  BY ShapeStep
<1> SUFFICES ASSUME NEW s \in SocketIds, NEW g \in owed'[s] PROVE FirstOn(s, g)'
  OBVIOUS
<1>1. ASSUME NEW o, NEW k, NEW cs, NEW gone, Joins(o, k, cs, gone) PROVE FirstOn(s, g)'
  <2> DEFINE n == opened + 1
             w == OpeningFrames(k, cs, outbox)
  <2>1. /\ n \in SocketIds /\ owed' = [owed EXCEPT ![n] = outbox[k]] /\ wire'[n] = w
        /\ \A r \in SocketIds : r # n => Kept(r)
    BY <1>1, LongerKept DEF Joins, Arrival
  <2>2. owed \in [SocketIds -> SUBSET Grants] /\ outbox[k] \in SUBSET Grants
    <3>1. k \in SocketIds
      BY <1>1, Numbers DEF Joins, Arrival, SocketIds, Shape, TypeOK
    <3> QED BY <3>1 DEF Shape, TypeOK
  <2>3. \A h \in outbox[k] : \E i \in 1..Len(w) :
           w[i] = RevokeFrame(h) /\ \A j \in 1..i : w[j].kind = "revoke"
    <3>1. ASSUME NEW h \in outbox[k]
          PROVE  \E i \in 1..Len(w) : w[i] = RevokeFrame(h) /\ \A j \in 1..i : w[j].kind = "revoke"
      <4>1. PICK v : v = OpeningFrames(k, cs, outbox)
        OBVIOUS
      <4>2. PICK box : box = outbox
        OBVIOUS
      <4>3. box[k] \in SUBSET Grants /\ h \in box[k] /\ v = OpeningFrames(k, cs, box)
        BY <2>2, <3>1, <4>1, <4>2
      <4>4. \E i \in 1..Len(v) : v[i] = RevokeFrame(h) /\ \A j \in 1..i : v[j].kind = "revoke"
        BY ONLY <4>3, OpeningRevokes
      <4> QED BY <4>1, <4>4
    <3> QED BY <3>1
  <2> HIDE DEF n, w
  <2>4. CASE s = n
    BY <2>1, <2>2, <2>3, <2>4 DEF FirstOn
  <2>5. CASE s # n
    BY <1>0, <2>1, <2>2, <2>5, FirstStays
  <2> QED BY <2>4, <2>5
<1>2. CASE Delivered
  BY <1>0, <1>2, FirstStays DEF Delivered
<1>3. CASE LiveClosed
  BY <1>0, <1>3, FirstStays, SameWireKept DEF LiveClosed
<1>4. CASE Dispose
  <2>1. Kept(s) /\ owed' = owed
    BY <1>4, DisposeLonger, LongerKept DEF Dispose
  <2> QED BY <1>0, <2>1, FirstStays
<1> QED BY <1>1, <1>2, <1>3, <1>4, Deliveries

(* Revocations queued while a session was down reach it before any call    *)
(* that is sent again.                                                     *)
THEOREM RevokesFirstCorrect == Spec => []RevokesBeforeWork
<1> DEFINE First == \A s \in SocketIds : \A g \in owed[s] : FirstOn(s, g)
<1>1. Init => First
  BY DEF Init
<1>2. Shape /\ First /\ [Next]_vars => First'
  BY FirstStep
<1>3. First => RevokesBeforeWork
  BY DEF RevokesBeforeWork, FirstOn
<1> HIDE DEF First
<1> QED BY <1>1, <1>2, <1>3, ShapeAlways, PTL DEF Spec

-----------------------------------------------------------------------------
(* A revoked grant of a session that may go on.                            *)

SentIn(g, k) ==
    \E s \in SocketIds : /\ sock[s].conn = k
                         /\ \E i \in 1..Len(wire[s]) : wire[s][i] = RevokeFrame(g)

Answered(g) ==
    store[g].status = "dropped" /\ Resumable(store[g].target)
      => \/ g \in swallowed
         \/ g \in outbox[store[g].target]
         \/ SentIn(g, store[g].target)

LEMMA SentStays ==
  ASSUME Shape, Shape', NEW g, NEW k, k # 0, SentIn(g, k),
         \A s \in SocketIds : sock[s].conn = k => sock'[s].conn = k /\ Kept(s)
  PROVE  SentIn(g, k)'
<1>0. PICK s \in SocketIds : /\ sock[s].conn = k
                            /\ \E i \in 1..Len(wire[s]) : wire[s][i] = RevokeFrame(g)
  BY DEF SentIn
<1>1. PICK i \in 1..Len(wire[s]) : wire[s][i] = RevokeFrame(g)
  BY <1>0
<1>2. Len(wire[s]) \in Nat /\ Len(wire'[s]) \in Nat
  BY DEF Shape, TypeOK
<1>3. sock'[s].conn = k /\ wire'[s][i] = RevokeFrame(g) /\ i \in 1..Len(wire'[s])
  BY <1>0, <1>1, <1>2 DEF Kept
<1> QED BY <1>3 DEF SentIn

LEMMA SentNow ==
  ASSUME NEW g, NEW k, NEW s \in SocketIds, sock'[s].conn = k,
         \E i \in 1..Len(wire'[s]) : wire'[s][i] = RevokeFrame(g)
  PROVE  SentIn(g, k)'
  BY DEF SentIn

LEMMA AnsweredAt ==
  ASSUME Shape, [Next]_vars, NEW g \in Grants, Answered(g),
         NEW k, k = store'[g].target,
         store'[g].status = "dropped", Resumable(k)'
  PROVE  g \in swallowed' \/ g \in outbox'[k] \/ SentIn(g, k)'
<1>0. Shape'
  BY ShapeStep
<1>1. k \in 1..opened' /\ k # 0 /\ opened' \in Nat /\ opened \in Nat /\ k \in SocketIds
  <2>1. k \in 1..opened' /\ opened' \in Nat /\ opened' <= MaxSockets
    BY <1>0 DEF Shape, TypeOK, Numbered
  <2> QED BY <2>1, Numbers DEF SocketIds, Shape, TypeOK
<1>a. \/ live' # 0 /\ sock'[live'].conn = k
      \/ last' # 0 /\ sock'[last'].conn = k
  BY <1>1 DEF Resumable, ConnOf
<1>2. ASSUME NEW o, NEW j, NEW cs, NEW gone, Joins(o, j, cs, gone)
      PROVE  g \in swallowed' \/ SentIn(g, k)'
  <2>1. PICK n : /\ n = opened + 1
                 /\ n \in SocketIds /\ live' = n /\ last' = 0 /\ sock'[n].conn = j
                 /\ wire'[n] = OpeningFrames(j, cs, outbox) /\ Left(gone)
                 /\ \A r \in SocketIds : r # n => sock'[r].conn = sock[r].conn /\ Kept(r)
                 /\ swallowed' = swallowed
    BY <1>2, LongerKept DEF Joins, Arrival
  <2>2. k = j
    BY <1>a, <2>1
  <2>3. store[g].target = k /\ store[g].status # "unoffered" /\ k \in 1..opened /\ k # n
    <3>1. store[g].target = k /\ store[g].status # "unoffered"
      BY <2>1 DEF Left
    <3>2. k \in 1..opened
      BY <3>1 DEF Shape, Numbered
    <3> QED BY <1>1, <2>1, <3>1, <3>2
  <2>4. gone = {} /\ Resumable(k)
    BY <1>2, <2>1, <2>2, <2>3 DEF Joins, Resumable, ConnOf
  <2>5. store[g].status = "dropped"
    BY <2>1, <2>4 DEF Left
  <2>6. CASE g \in outbox[k]
    <3>1. outbox[j] \in SUBSET Grants
      BY <1>1, <2>2 DEF Shape, TypeOK
    <3>2. \E i \in 1..Len(wire'[n]) : wire'[n][i] = RevokeFrame(g)
      BY <2>1, <2>2, <2>6, <3>1, OpeningRevokes
    <3> QED BY <2>1, <2>2, <3>2, SentNow
  <2>7. CASE SentIn(g, k)
    <3>1. sock[n].conn # k
      BY <1>1, <2>1, <2>3 DEF Shape, Numbered
    <3>2. \A s \in SocketIds : sock[s].conn = k => sock'[s].conn = k /\ Kept(s)
      BY <2>1, <3>1
    <3> QED BY <1>0, <1>1, <2>7, <3>2, SentStays
  <2> QED BY <2>1, <2>3, <2>4, <2>5, <2>6, <2>7 DEF Answered
<1>3. ASSUME SameIds, \A s \in SocketIds : Kept(s),
             store[g].status = "dropped", store[g].target = k, Resumable(k),
             outbox[k] \subseteq outbox'[k], swallowed \subseteq swallowed'
      PROVE  g \in swallowed' \/ g \in outbox'[k] \/ SentIn(g, k)'
  <2>1. g \in swallowed \/ g \in outbox[k] \/ SentIn(g, k)
    BY <1>3 DEF Answered
  <2>2. \A s \in SocketIds : sock[s].conn = k => sock'[s].conn = k /\ Kept(s)
    BY <1>3 DEF SameIds
  <2> QED BY <1>0, <1>1, <1>3, <2>1, <2>2, SentStays
<1>4. CASE Delivered
  <2>1. /\ store[g].target = k /\ store[g].status \in {"held", "dropped"}
        /\ live' = live /\ last' = last /\ SameIds /\ \A s \in SocketIds : Kept(s)
        /\ outbox[k] \subseteq outbox'[k] /\ swallowed \subseteq swallowed'
        /\ store[g].status = "held" => Reached(g)
    BY <1>1, <1>4 DEF Delivered
  <2>2. CASE store[g].status = "held"
    <3>1. live # 0 => live \in SocketIds /\ sock'[live].conn = sock[live].conn
      BY <2>1, LiveConn DEF SameIds
    <3>2. CASE g \in outbox'[store[g].target]
      BY <2>1, <3>2
    <3>3. CASE /\ live # 0 /\ sock[live].conn = store[g].target
               /\ \E i \in 1..Len(wire'[live]) : wire'[live][i] = RevokeFrame(g)
      BY <2>1, <3>1, <3>3, SentNow
    <3> QED BY <2>1, <2>2, <3>2, <3>3 DEF Reached
  <2>3. CASE store[g].status = "dropped"
    <3>1. Resumable(k)
      <4>1. live \in SocketIds \cup {0} /\ last \in SocketIds \cup {0}
        BY DEF Shape, TypeOK
      <4>2. \A s \in SocketIds : sock'[s].conn = sock[s].conn
        BY <2>1 DEF SameIds
      <4> QED BY <1>a, <2>1, <4>1, <4>2 DEF Resumable, ConnOf
    <3> QED BY <1>3, <2>1, <2>3, <3>1
  <2> QED BY <2>1, <2>2, <2>3
<1>5. CASE LiveClosed
  <2>1. /\ live' = 0 /\ last' = live /\ live # 0
        /\ UNCHANGED <<outbox, store, wire, swallowed>> /\ SameIds
    BY <1>5, OthersKeepIds DEF LiveClosed
  <2>2. sock'[live].conn = k
    BY <1>a, <2>1
  <2>3. Resumable(k)
    <3>1. live \in SocketIds
      BY <2>1, LiveConn
    <3> QED BY <2>1, <2>2, <3>1 DEF Resumable, ConnOf, SameIds
  <2> QED BY <1>3, <2>1, <2>3, SameWireKept
<1>6. CASE Dispose
  BY <1>a, <1>6 DEF Dispose
<1> QED BY <1>2, <1>4, <1>5, <1>6, Deliveries

LEMMA AnsweredStep ==
  ASSUME Shape, [Next]_vars, NEW g \in Grants, Answered(g)
  PROVE  Answered(g)'
  BY AnsweredAt DEF Answered

(* As long as a session is live or may resume, a revocation of one of its  *)
(* grants is on a wire of the session or queued for its next socket; the   *)
(* only ones lost were handed to a live socket that was already closing.   *)
THEOREM RevocationCorrect == Spec => []RevocationReachesSession
<1> DEFINE I == \A g \in Grants : Answered(g)
<1>1. Init => I
  BY DEF Init, Answered, EmptyStore
<1>2. Shape /\ I /\ [Next]_vars => I'
  BY AnsweredStep
<1>3. Shape /\ I => RevocationReachesSession
  <2> SUFFICES ASSUME Shape, I, NEW g \in Grants,
                      store[g].status = "dropped", Resumable(store[g].target)
               PROVE  \/ g \in swallowed
                      \/ g \in outbox[store[g].target]
                      \/ \E s \in SocketIds : /\ sock[s].conn = store[g].target
                                              /\ RevokeFrame(g) \in ToSet(wire[s])
    BY DEF RevocationReachesSession
  <2>1. ASSUME SentIn(g, store[g].target)
        PROVE  \E s \in SocketIds : /\ sock[s].conn = store[g].target
                                    /\ RevokeFrame(g) \in ToSet(wire[s])
    <3>1. PICK s \in SocketIds : /\ sock[s].conn = store[g].target
                                /\ \E i \in 1..Len(wire[s]) : wire[s][i] = RevokeFrame(g)
      BY <2>1 DEF SentIn
    <3>2. DOMAIN wire[s] = 1..Len(wire[s])
      BY DEF Shape, TypeOK
    <3> QED BY <3>1, <3>2 DEF ToSet
  <2> QED BY <2>1 DEF Answered
<1> HIDE DEF I
<1> QED BY <1>1, <1>2, <1>3, ShapeAlways, PTL DEF Spec
=============================================================================
