------------------------- MODULE TurnLifecycleProofs -------------------------
(* Proofs about TurnLifecycle, for any grants, agents, bindings and turns. *)
EXTENDS TurnLifecycle, FiniteSetTheorems, FunctionTheorems, WellFoundedInduction, TLAPS

USE GrantStoreAssumption, TurnAssumption

Worlds == [store : Stores, cur : ActiveTurns, tools : SUBSET Grants]

(* The part of the inductive invariant about one agent a: its entry cur,   *)
(* its tool surface tls, and the grants of its session in the store st,    *)
(* with cl the turns whose claims took them.                               *)
AgentOK(a, cur, st, tls, cl) ==
    /\ tls = DOMAIN cur.pages
    /\ cur.turn = 0 => cur = NoTurn
    /\ ~cur.activated => cur.authorized = {}
    /\ \A g \in cur.authorized :
          /\ st[g].status # "unoffered"
          /\ Held(st, g) => st[g].session = a /\ st[g].turn = cur.turn
    /\ \A g \in Grants :
          Held(st, g) /\ st[g].session = a /\ st[g].turn # 0
          => cur.turn = st[g].turn /\ g \in cur.authorized
    /\ \A g \in Grants :
          Held(st, g) /\ st[g].session = a /\ st[g].turn = 0 /\ cl[g] # 0
          => cur.turn = cl[g] /\ g \in DOMAIN cur.pages

(* The same of the part of the state a handler works on. *)
WorldOK(a, w, cl) ==
    w \in Worlds /\ AgentOK(a, w.cur, w.store, w.tools, cl)

SessionsKnown == \A g \in Grants : Held(store, g) => store[g].session \in Agents

Unclaimed == \A g \in Grants : store[g].status = "unoffered" => claimed[g] = 0

AgentsOK ==
    \A a \in Agents : AgentOK(a, active[a], store, tools[a], claimed)

(* Turns are numbered from 1. *)
RunningTurn == \A a \in Agents : phase[a] = "running" => turn[a] # 0

IInv == TypeOK /\ SessionsKnown /\ Unclaimed /\ AgentsOK /\ NoStaleTurnInStep /\ RunningTurn

(* How one handler of agent a may change the store: it drops grants, and   *)
(* binds turns to grants of its own session.                               *)
Evolves(a, st, st2) ==
    \A g \in Grants :
        /\ Held(st2, g) => Held(st, g)
        /\ st2[g].session = st[g].session
        /\ st2[g].turn = st[g].turn \/ (Held(st, g) /\ st[g].session = a)
        /\ st2[g].status = "unoffered" <=> st[g].status = "unoffered"

(* Grants are dropped, nothing else. *)
Shrinks(st, st2) ==
    /\ st2 \in Stores
    /\ \A g \in Grants :
        /\ Held(st2, g) => Held(st, g)
        /\ st2[g].session = st[g].session
        /\ st2[g].turn = st[g].turn
        /\ st2[g].status = "unoffered" <=> st[g].status = "unoffered"

-----------------------------------------------------------------------------
(* Without drops exactly the grants it is given. *)
LEMMA WithoutLemma ==
    ASSUME NEW st \in Stores, NEW S
    PROVE  /\ Without(st, S) \in Stores
           /\ \A g \in Grants :
                /\ Held(Without(st, S), g) <=> Held(st, g) /\ g \notin S
                /\ Without(st, S)[g].session = st[g].session
                /\ Without(st, S)[g].turn = st[g].turn
                /\ Without(st, S)[g].status = "unoffered" <=> st[g].status = "unoffered"
           /\ Shrinks(st, Without(st, S))
<1>1. ASSUME NEW g \in Grants
      PROVE  /\ Without(st, S)[g] \in GrantRecord
             /\ Held(Without(st, S), g) <=> Held(st, g) /\ g \notin S
             /\ Without(st, S)[g].session = st[g].session
             /\ Without(st, S)[g].turn = st[g].turn
             /\ Without(st, S)[g].status = "unoffered" <=> st[g].status = "unoffered"
  <2>1. st[g] \in GrantRecord
    BY DEF Stores
  <2>2. Without(st, S)[g] = IF g \in S /\ Held(st, g)
                            THEN [st[g] EXCEPT !.status = "dropped"] ELSE st[g]
    BY DEF Without
  <2> QED BY <2>1, <2>2 DEF GrantRecord, Held
<1>2. Without(st, S) \in Stores
  BY <1>1 DEF Without, Stores
<1> QED BY <1>1, <1>2 DEF Shrinks

(* Consumed binds the turn to exactly the grants it is given. *)
LEMMA ConsumedLemma ==
    ASSUME NEW st \in Stores, NEW H, NEW t \in Nat
    PROVE  /\ Consumed(st, H, t) \in Stores
           /\ \A g \in Grants :
                /\ Held(Consumed(st, H, t), g) <=> Held(st, g)
                /\ Consumed(st, H, t)[g].session = st[g].session
                /\ Consumed(st, H, t)[g].turn = IF g \in H THEN t ELSE st[g].turn
                /\ Consumed(st, H, t)[g].status = st[g].status
<1>1. ASSUME NEW g \in Grants
      PROVE  /\ Consumed(st, H, t)[g] \in GrantRecord
             /\ Held(Consumed(st, H, t), g) <=> Held(st, g)
             /\ Consumed(st, H, t)[g].session = st[g].session
             /\ Consumed(st, H, t)[g].turn = IF g \in H THEN t ELSE st[g].turn
             /\ Consumed(st, H, t)[g].status = st[g].status
  <2>1. st[g] \in GrantRecord
    BY DEF Stores
  <2>2. Consumed(st, H, t)[g] = IF g \in H THEN [st[g] EXCEPT !.turn = t] ELSE st[g]
    BY DEF Consumed
  <2> QED BY <2>1, <2>2 DEF GrantRecord, Held
<1>2. Consumed(st, H, t) \in Stores
  BY <1>1 DEF Consumed, Stores
<1> QED BY <1>1, <1>2

(* Page maps restricted to some grants are page maps. *)
LEMMA OnlyPagesLemma ==
    ASSUME NEW pages \in PageMaps, NEW S
    PROVE  /\ OnlyPages(pages, S) \in PageMaps
           /\ DOMAIN OnlyPages(pages, S) = DOMAIN pages \cap S
<1>1. PICK D \in SUBSET Grants : pages \in [D -> Aliases]
  BY DEF PageMaps
<1>2. OnlyPages(pages, S) \in [D \cap S -> Aliases]
  BY <1>1 DEF OnlyPages
<1>3. D \cap S \in SUBSET Grants
  OBVIOUS
<1> QED BY <1>1, <1>2, <1>3 DEF PageMaps, OnlyPages

(* Appending pages keeps the ones there are. *)
LEMMA AppendedLemma ==
    ASSUME NEW pages \in PageMaps, NEW new \in SUBSET Grants,
           NEW longer \in Appended(pages, new)
    PROVE  longer \in PageMaps /\ DOMAIN longer = DOMAIN pages \cup new
<1> DEFINE top == Max({0} \cup {pages[g] : g \in DOMAIN pages})
           above == {n \in Aliases : n > top}
           numberings == {f \in [new -> above] :
                            {f[g] : g \in new} = (top + 1)..(top + Cardinality(new))}
           joined(f) == [g \in DOMAIN pages \cup new |->
                           IF g \in DOMAIN pages THEN pages[g] ELSE f[g]]
<1>1. longer \in {joined(f) : f \in numberings}
  BY DEF Appended
<1>2. PICK f \in numberings : longer = joined(f)
  <2> HIDE DEF numberings, joined
  <2> QED BY <1>1
<1>3. f \in [new -> Aliases]
  <2>1. f \in [new -> above] /\ above \subseteq Aliases
    OBVIOUS
  <2> HIDE DEF above
  <2> QED BY <2>1
<1>4. PICK D \in SUBSET Grants : pages \in [D -> Aliases]
  BY DEF PageMaps
<1>5. longer \in [D \cup new -> Aliases]
  BY <1>2, <1>3, <1>4
<1>6. D \cup new \in SUBSET Grants
  OBVIOUS
<1> QED BY <1>4, <1>5, <1>6 DEF PageMaps

(* The absent entry is a well-typed entry without pages. *)
LEMMA NoTurnLemma ==
    /\ NoTurn \in ActiveTurns
    /\ DOMAIN NoTurn.pages = {}
    /\ NoTurn.turn = 0 /\ NoTurn.authorized = {} /\ ~NoTurn.activated
<1>1. NoPages \in [{} -> Aliases]
  BY DEF NoPages
<1>2. NoPages \in PageMaps
  BY <1>1 DEF PageMaps
<1>3. DOMAIN NoPages = {}
  BY DEF NoPages
<1> QED BY <1>2, <1>3 DEF NoTurn, ActiveTurns

(* Dropping grants disturbs no agent. *)
LEMMA ShrinkAgentOK ==
    ASSUME NEW a, NEW cur \in ActiveTurns, NEW st \in Stores, NEW st2, NEW tls, NEW cl,
           AgentOK(a, cur, st, tls, cl), Shrinks(st, st2)
    PROVE  AgentOK(a, cur, st2, tls, cl)
<1>1. cur.authorized \subseteq Grants
  BY DEF ActiveTurns
<1> QED BY <1>1 DEF AgentOK, Shrinks

-----------------------------------------------------------------------------
(* cleanup() leaves the agent with no turn and no authority. *)
LEMMA CleanupLemma ==
    ASSUME NEW a \in Agents, NEW w, NEW cl, NEW t, WorldOK(a, w, cl)
    PROVE  /\ WorldOK(a, Cleanup(w, a, t), cl)
           /\ Shrinks(w.store, Cleanup(w, a, t).store)
           /\ Cleanup(w, a, t).cur.turn \in {0, w.cur.turn}
           /\ w.cur.turn = t => Cleanup(w, a, t).cur.turn = 0
<1> DEFINE gone == DOMAIN w.cur.pages \cup TurnGrants(w.store, a, t)
           st2 == Without(w.store, gone)
<1>1. w \in Worlds /\ w.store \in Stores /\ w.cur \in ActiveTurns
  BY DEF WorldOK, Worlds
<1>2. CASE w.cur.turn = 0 \/ w.cur.turn # t
  <2>1. Cleanup(w, a, t) = w
    BY <1>2 DEF Cleanup
  <2> QED BY <1>1, <1>2, <2>1 DEF Shrinks, WorldOK
<1>3. CASE ~(w.cur.turn = 0 \/ w.cur.turn # t)
  <2>1. Cleanup(w, a, t) = [store |-> st2, cur |-> NoTurn, tools |-> {}]
    BY <1>3 DEF Cleanup
  <2>2. /\ st2 \in Stores
        /\ Shrinks(w.store, st2)
        /\ \A g \in Grants :
              /\ Held(st2, g) <=> Held(w.store, g) /\ g \notin gone
              /\ st2[g].session = w.store[g].session
              /\ st2[g].turn = w.store[g].turn
    BY <1>1, WithoutLemma
  <2>3. ASSUME NEW g \in Grants, Held(st2, g), st2[g].session = a PROVE st2[g].turn = 0
    <3>1. Held(w.store, g) /\ g \notin gone /\ w.store[g].session = a
      BY <2>2, <2>3
    <3>2. w.store[g].turn # t
      BY <3>1 DEF TurnGrants
    <3> QED BY <1>3, <2>2, <3>1, <3>2 DEF WorldOK, AgentOK
  <2>4. ASSUME NEW g \in Grants, Held(st2, g), st2[g].session = a PROVE cl[g] = 0
    <3>1. Held(w.store, g) /\ g \notin gone /\ w.store[g].session = a
      BY <2>2, <2>4
    <3>2. w.store[g].turn = 0
      BY <2>2, <2>3, <2>4
    <3> QED BY <3>1, <3>2 DEF WorldOK, AgentOK
  <2>5. AgentOK(a, NoTurn, st2, {}, cl)
    BY <2>3, <2>4, NoTurnLemma DEF AgentOK
  <2> HIDE DEF st2
  <2>6. WorldOK(a, Cleanup(w, a, t), cl)
    BY <2>1, <2>2, <2>5, NoTurnLemma DEF WorldOK, Worlds
  <2> QED BY <2>1, <2>2, <2>6, NoTurnLemma
<1> QED BY <1>2, <1>3

(* The boundary of turn t leaves an entry of turn t or none. *)
LEMMA DropStaleLemma ==
    ASSUME NEW a \in Agents, NEW w, NEW cl, NEW t, WorldOK(a, w, cl)
    PROVE  /\ WorldOK(a, DropStale(w, a, t), cl)
           /\ Shrinks(w.store, DropStale(w, a, t).store)
           /\ DropStale(w, a, t).cur.turn \in {0, t}
<1>1. w.store \in Stores
  BY DEF WorldOK, Worlds
<1>2. CASE w.cur.turn \in {0, t}
  BY <1>1, <1>2 DEF DropStale, Shrinks
<1>3. CASE w.cur.turn \notin {0, t}
  <2>1. DropStale(w, a, t) = Cleanup(w, a, w.cur.turn)
    BY <1>3 DEF DropStale
  <2> QED BY <2>1, CleanupLemma
<1> QED BY <1>2, <1>3

(* rollbackProvisional() leaves an entry without provisional pages. *)
LEMMA RollbackLemma ==
    ASSUME NEW a \in Agents, NEW w, NEW cl, NEW t, NEW r \in BOOLEAN, WorldOK(a, w, cl)
    PROVE  /\ WorldOK(a, Rollback(w, a, t, r), cl)
           /\ Shrinks(w.store, Rollback(w, a, t, r).store)
           /\ Rollback(w, a, t, r).cur.turn \in {0, w.cur.turn}
<1> DEFINE dropped == Provisional(w.cur)
           kept == OnlyPages(w.cur.pages, w.cur.authorized)
           st == Without(w.store, dropped)
           smaller == [w.cur EXCEPT !.pages = kept]
<1>1. w \in Worlds /\ w.store \in Stores /\ w.cur \in ActiveTurns
  BY DEF WorldOK, Worlds
<1>2. CASE w.cur.turn # t \/ dropped = {}
  <2>1. Rollback(w, a, t, r) = w
    BY <1>2 DEF Rollback
  <2> QED BY <1>1, <2>1 DEF Shrinks
<1>3. CASE ~(w.cur.turn # t \/ dropped = {})
  <2>1. /\ st \in Stores
        /\ Shrinks(w.store, st)
        /\ \A g \in Grants :
              /\ Held(st, g) <=> Held(w.store, g) /\ g \notin dropped
              /\ st[g].session = w.store[g].session
              /\ st[g].turn = w.store[g].turn
              /\ st[g].status = "unoffered" <=> w.store[g].status = "unoffered"
    BY <1>1, WithoutLemma
  <2>2. /\ kept \in PageMaps
        /\ DOMAIN kept = DOMAIN w.cur.pages \cap w.cur.authorized
    BY <1>1, OnlyPagesLemma DEF ActiveTurns
  <2>3. /\ smaller \in ActiveTurns
        /\ smaller.pages = kept
        /\ smaller.turn = w.cur.turn
        /\ smaller.authorized = w.cur.authorized
        /\ smaller.activated = w.cur.activated
    BY <1>1, <2>2 DEF ActiveTurns
  <2>4. w.cur.turn # 0 /\ w.cur.turn = t
    <3>1. w.cur.turn = 0 => DOMAIN w.cur.pages = {}
      BY NoTurnLemma DEF WorldOK, AgentOK
    <3> QED BY <1>3, <3>1 DEF Provisional
  (* A held grant nobody consumed, but some turn claimed, was provisional. *)
  <2>5. ASSUME NEW g \in Grants, Held(st, g), st[g].session = a, st[g].turn = 0
        PROVE  cl[g] = 0
    <3>1. Held(w.store, g) /\ w.store[g].session = a /\ w.store[g].turn = 0 /\ g \notin dropped
      BY <2>1, <2>5
    <3>2. g \notin w.cur.authorized
      BY <2>4, <3>1 DEF WorldOK, AgentOK
    <3>3. g \notin DOMAIN w.cur.pages
      BY <3>1, <3>2 DEF Provisional
    <3> QED BY <3>1, <3>3 DEF WorldOK, AgentOK
  <2>6. AgentOK(a, smaller, st, DOMAIN kept, cl)
    BY <1>1, <2>1, <2>3, <2>4, <2>5 DEF WorldOK, AgentOK, ActiveTurns
  <2>7. CASE DOMAIN kept = {} /\ ~w.cur.activated
    <3>1. Rollback(w, a, t, r) = [store |-> st, cur |-> NoTurn, tools |-> {}]
      BY <1>3, <2>7 DEF Rollback
    <3>2. AgentOK(a, NoTurn, st, {}, cl)
      BY <2>1, <2>5, <2>6, <2>7, <2>3, NoTurnLemma DEF AgentOK
    <3> HIDE DEF st, dropped
    <3>3. WorldOK(a, Rollback(w, a, t, r), cl)
      BY <2>1, <3>1, <3>2, NoTurnLemma DEF WorldOK, Worlds
    <3> QED BY <2>1, <3>1, <3>3, NoTurnLemma
  <2>8. CASE ~(DOMAIN kept = {} /\ ~w.cur.activated) /\ r
    <3>1. Rollback(w, a, t, r) = [store |-> st, cur |-> smaller, tools |-> DOMAIN kept]
      BY <1>3, <2>8 DEF Rollback
    <3>2. DOMAIN kept \in SUBSET Grants
      BY <1>1, <2>2 DEF ActiveTurns
    <3> HIDE DEF st, dropped, kept, smaller
    <3> QED BY <2>1, <2>3, <2>6, <3>1, <3>2 DEF WorldOK, Worlds
  <2>9. CASE ~(DOMAIN kept = {} /\ ~w.cur.activated) /\ ~r
    <3> DEFINE v == [store |-> st, cur |-> smaller, tools |-> DOMAIN kept]
               v0 == [store |-> st, cur |-> smaller, tools |-> {}]
    <3>1. Rollback(w, a, t, r) = Cleanup(v0, a, t)
      BY <1>3, <2>9 DEF Rollback
    <3>2. Cleanup(v0, a, t) = Cleanup(v, a, t)
      BY <2>3, <2>4 DEF Cleanup
    <3>3. DOMAIN kept \in SUBSET Grants
      BY <1>1, <2>2 DEF ActiveTurns
    <3>4. v.store = st /\ v.cur = smaller /\ v.tools = DOMAIN kept
      OBVIOUS
    <3>5. WorldOK(a, v, cl)
      <4> HIDE DEF st, dropped, kept, smaller
      <4> QED BY <2>1, <2>3, <2>6, <3>3 DEF WorldOK, Worlds
    <3>6. /\ WorldOK(a, Cleanup(v, a, t), cl)
          /\ Shrinks(st, Cleanup(v, a, t).store)
          /\ Cleanup(v, a, t).cur.turn \in {0, w.cur.turn}
      <4> HIDE DEF v, st, dropped, kept, smaller
      <4> QED BY <2>3, <3>4, <3>5, CleanupLemma
    <3>7. Shrinks(w.store, Cleanup(v, a, t).store)
      BY <2>1, <3>6 DEF Shrinks
    <3> QED BY <3>1, <3>2, <3>6, <3>7
  <2> QED BY <2>7, <2>8, <2>9
<1> QED BY <1>2, <1>3

-----------------------------------------------------------------------------
(* A handler of agent a that evolves the store disturbs no other agent. *)
LEMMA OtherAgentOK ==
    ASSUME NEW a, NEW b, a # b, NEW cur \in ActiveTurns, NEW st \in Stores,
           NEW st2 \in Stores, NEW tls, NEW cl, NEW cl2,
           AgentOK(b, cur, st, tls, cl), Evolves(a, st, st2),
           \A g \in Grants : cl2[g] # cl[g] => Held(st, g) /\ st[g].session = a
    PROVE  AgentOK(b, cur, st2, tls, cl2)
<1>1. cur.authorized \subseteq Grants
  BY DEF ActiveTurns
<1> QED BY <1>1 DEF AgentOK, Evolves

(* So the invariant is kept by a handler that leaves a good world behind.  *)
LEMMA BecomeLemma ==
    ASSUME IInv, NEW a \in Agents, NEW w, Become(a, w),
           WorldOK(a, w, claimed'), Evolves(a, store, w.store),
           \A g \in Grants : claimed'[g] # claimed[g]
              => Held(store, g) /\ store[g].session = a
    PROVE  /\ SessionsKnown' /\ Unclaimed' /\ AgentsOK'
           /\ store' \in Stores
           /\ active' \in [Agents -> ActiveTurns]
           /\ tools' \in [Agents -> SUBSET Grants]
           /\ active'[a] = w.cur
           /\ \A b \in Agents \ {a} : active'[b] = active[b]
<1>1. /\ store \in Stores
      /\ active \in [Agents -> ActiveTurns]
      /\ tools \in [Agents -> SUBSET Grants]
  BY DEF IInv, TypeOK
<1>2. w.store \in Stores /\ w.cur \in ActiveTurns /\ w.tools \in SUBSET Grants
  BY DEF WorldOK, Worlds
<1>3. /\ store' = w.store
      /\ active' \in [Agents -> ActiveTurns]
      /\ tools' \in [Agents -> SUBSET Grants]
      /\ active'[a] = w.cur /\ tools'[a] = w.tools
      /\ \A b \in Agents \ {a} : active'[b] = active[b] /\ tools'[b] = tools[b]
  BY <1>1, <1>2 DEF Become
<1>4. SessionsKnown'
  <2>1. ASSUME NEW g \in Grants, Held(w.store, g) PROVE w.store[g].session \in Agents
    BY <2>1 DEF Evolves, IInv, SessionsKnown
  <2> QED BY <1>3, <2>1 DEF SessionsKnown, Held
<1>5. ASSUME NEW b \in Agents
      PROVE  AgentOK(b, active'[b], store', tools'[b], claimed')
  <2>1. CASE b = a
    BY <1>3, <2>1 DEF WorldOK
  <2>2. CASE b # a
    <3>1. AgentOK(b, active[b], store, tools[b], claimed) /\ active[b] \in ActiveTurns
      BY <1>1 DEF IInv, AgentsOK
    <3>2. AgentOK(b, active[b], w.store, tools[b], claimed')
      BY <1>1, <1>2, <2>2, <3>1, OtherAgentOK
    <3> QED BY <1>3, <2>2, <3>2
  <2> QED BY <2>1, <2>2
<1>6. Unclaimed'
  BY <1>3 DEF IInv, Unclaimed, Evolves, Held
<1> QED BY <1>2, <1>3, <1>4, <1>5, <1>6 DEF AgentsOK

(* What a handler finds. *)
LEMMA WorldLemma ==
    ASSUME IInv, NEW a \in Agents
    PROVE  /\ WorldOK(a, World(a), claimed)
           /\ World(a).store = store /\ World(a).cur = active[a]
           /\ World(a).tools = tools[a]
  BY DEF IInv, TypeOK, AgentsOK, WorldOK, Worlds, World

(* What it works on after the boundary of the running turn. *)
LEMMA BoundaryLemma ==
    ASSUME IInv, NEW a \in Agents
    PROVE  /\ WorldOK(a, AtBoundary(a), claimed)
           /\ Shrinks(store, AtBoundary(a).store)
           /\ AtBoundary(a).cur.turn \in {0, turn[a]}
  BY WorldLemma, DropStaleLemma DEF AtBoundary

(* Dropping grants is a way for any agent to evolve the store. *)
LEMMA ShrinksEvolves ==
    ASSUME NEW a, NEW st, NEW st2, Shrinks(st, st2)
    PROVE  Evolves(a, st, st2)
  BY DEF Shrinks, Evolves

(* Drops add up. *)
LEMMA ShrinksTransitive ==
    ASSUME NEW st1, NEW st2, NEW st3, Shrinks(st1, st2), Shrinks(st2, st3)
    PROVE  Shrinks(st1, st3)
  BY DEF Shrinks

(* A handler that only drops grants and claims no message. *)
LEMMA DroppingHandler ==
    ASSUME IInv, NEW a \in Agents, NEW w, Become(a, w),
           WorldOK(a, w, claimed), Shrinks(store, w.store), claimed' = claimed
    PROVE  /\ SessionsKnown' /\ Unclaimed' /\ AgentsOK'
           /\ store' \in Stores
           /\ active' \in [Agents -> ActiveTurns]
           /\ tools' \in [Agents -> SUBSET Grants]
           /\ active'[a] = w.cur
           /\ \A b \in Agents \ {a} : active'[b] = active[b]
  BY ShrinksEvolves, BecomeLemma

(* Claiming marks grants of the claiming agent's session. *)
LEMMA MarkClaimedLemma ==
    ASSUME IInv, NEW a \in Agents, NEW st, Shrinks(store, st), NEW H, MarkClaimed(st, a, H)
    PROVE  /\ claimed' \in [Grants -> Nat]
           /\ \A g \in Grants : claimed'[g] # claimed[g]
                 => Held(store, g) /\ store[g].session = a
           /\ \A g \in Grants :
                 claimed'[g] = claimed[g]
                 \/ (g \in H /\ Held(st, g) /\ st[g].session = a /\ st[g].turn = 0
                     /\ claimed'[g] = turn[a])
<1>1. turn[a] \in Nat /\ claimed \in [Grants -> Nat]
  BY DEF IInv, TypeOK
<1> QED BY <1>1 DEF MarkClaimed, Shrinks

-----------------------------------------------------------------------------
(* The initial state satisfies the inductive invariant. *)
LEMMA InitIInv == Init => IInv
<1> SUFFICES ASSUME Init PROVE IInv
  OBVIOUS
<1>1. EmptyStore \in Stores
  BY DEF EmptyStore, Stores, GrantRecord
<1>2. \A g \in Grants : ~Held(store, g)
  BY DEF Init, EmptyStore, Held
<1>3. [n \in Aliases |-> NoGrant] \in [Aliases -> Grants \cup {NoGrant}]
  OBVIOUS
<1>4. TypeOK
  BY <1>1, <1>3, NoTurnLemma DEF Init, TypeOK, NothingShown
<1>5. SessionsKnown /\ Unclaimed
  BY <1>2 DEF Init, SessionsKnown, Unclaimed
<1>6. AgentsOK
  BY <1>2, NoTurnLemma DEF Init, AgentsOK, AgentOK
<1>7. NoStaleTurnInStep /\ RunningTurn
  BY DEF Init, NoStaleTurnInStep, RunningTurn
<1> QED BY <1>4, <1>5, <1>6, <1>7 DEF IInv

(* The providers' steps preserve it. *)
LEMMA ProviderIInv == IInv /\ ProviderStep => IInv'
<1> SUFFICES ASSUME IInv, ProviderStep PROVE IInv'
  OBVIOUS
<1>1. ASSUME NEW g \in Grants, NEW s \in Sessions, NEW target \in Targets,
             Offer(g, s, target)
      PROVE  IInv'
  <2>1. store \in Stores /\ store[g].status = "unoffered"
    BY <1>1 DEF Offer, CanOffer, IInv, TypeOK
  <2>2. store' \in Stores
    BY <1>1, <2>1 DEF Offer, Offered, Stores, GrantRecord
  <2>3. /\ store'[g] = [status |-> "held", session |-> s, turn |-> 0, target |-> target]
        /\ \A h \in Grants \ {g} : store'[h] = store[h]
    BY <1>1, <2>1 DEF Offer, Offered, Stores
  <2>4. TypeOK'
    BY <1>1, <2>2 DEF Offer, hostVars, IInv, TypeOK
  <2>5. SessionsKnown' /\ Unclaimed'
    BY <1>1, <2>3 DEF Offer, hostVars, IInv, SessionsKnown, Unclaimed, Held, Agents
  <2>6. ASSUME NEW b \in Agents
        PROVE  AgentOK(b, active[b], store', tools[b], claimed)
    <3>1. AgentOK(b, active[b], store, tools[b], claimed) /\ claimed[g] = 0
      BY <2>1 DEF IInv, AgentsOK, Unclaimed
    <3>2. active[b].authorized \subseteq Grants /\ g \notin active[b].authorized
      BY <2>1, <3>1 DEF AgentOK, IInv, TypeOK, ActiveTurns
    <3> QED BY <2>3, <3>1, <3>2 DEF AgentOK, Held
  <2>7. AgentsOK' /\ NoStaleTurnInStep' /\ RunningTurn'
    BY <1>1, <2>6 DEF Offer, hostVars, AgentsOK, IInv, NoStaleTurnInStep, RunningTurn
  <2> QED BY <2>4, <2>5, <2>7 DEF IInv
<1>2. ASSUME NEW g \in Grants, ProviderRevoke(g) PROVE IInv'
  <2>1. Shrinks(store, store') /\ store \in Stores
    BY <1>2, WithoutLemma DEF ProviderRevoke, IInv, TypeOK
  <2>2. TypeOK'
    BY <1>2, <2>1 DEF ProviderRevoke, hostVars, IInv, TypeOK, Shrinks
  <2>3. SessionsKnown' /\ Unclaimed'
    BY <1>2, <2>1 DEF ProviderRevoke, hostVars, IInv, SessionsKnown, Unclaimed, Shrinks
  <2>4. ASSUME NEW b \in Agents
        PROVE  AgentOK(b, active[b], store', tools[b], claimed)
    <3>1. AgentOK(b, active[b], store, tools[b], claimed) /\ active[b] \in ActiveTurns
      BY DEF IInv, AgentsOK, TypeOK
    <3> QED BY <2>1, <3>1, ShrinkAgentOK
  <2>5. AgentsOK' /\ NoStaleTurnInStep' /\ RunningTurn'
    BY <1>2, <2>4 DEF ProviderRevoke, hostVars, AgentsOK, IInv, NoStaleTurnInStep, RunningTurn
  <2> QED BY <2>2, <2>3, <2>5 DEF IInv
<1>3. ASSUME NEW g \in Grants, Expire(g) PROVE IInv'
  BY <1>3 DEF Expire, hostVars, IInv, TypeOK, SessionsKnown, Unclaimed, AgentsOK,
              NoStaleTurnInStep, RunningTurn
<1>4. ASSUME NEW t \in Targets, Disconnect(t) \/ Reconnect(t) PROVE IInv'
  BY <1>4 DEF Disconnect, Reconnect, hostVars, IInv, TypeOK, SessionsKnown, Unclaimed,
              AgentsOK, NoStaleTurnInStep, RunningTurn
<1> QED BY <1>1, <1>2, <1>3, <1>4 DEF ProviderStep

-----------------------------------------------------------------------------
(* The inbox claims preserve it. *)
LEMMA ClaimIInv ==
    ASSUME NEW a \in Agents
    PROVE  IInv /\ ClaimStep(a) => IInv'
<1> SUFFICES ASSUME IInv, ClaimStep(a) PROVE IInv'
  OBVIOUS
<1> DEFINE w == AtBoundary(a)
<1>0. /\ WorldOK(a, w, claimed) /\ w \in Worlds
      /\ w.store \in Stores /\ w.cur \in ActiveTurns /\ w.tools \in SUBSET Grants
      /\ Shrinks(store, w.store)
      /\ w.cur.turn \in {0, turn[a]}
      /\ turn[a] \in Nat
  BY BoundaryLemma DEF WorldOK, Worlds, IInv, TypeOK
(* No handler is awaiting, so the entry may be of any turn. *)
<1>a. ASSUME NEW v, UNCHANGED <<expired, connected, turn, phase, aborted, stepping,
                                answer, shown>>,
             claimed' \in [Grants -> Nat], ~stepping[a],
             SessionsKnown', Unclaimed', AgentsOK',
             store' \in Stores, active' \in [Agents -> ActiveTurns],
             tools' \in [Agents -> SUBSET Grants],
             \A b \in Agents \ {a} : active'[b] = active[b]
      PROVE  IInv'
  BY <1>a DEF IInv, TypeOK, NoStaleTurnInStep, RunningTurn
<1>1. ASSUME Become(a, w), UNCHANGED <<expired, connected, hostVars>>, ~stepping[a]
      PROVE  IInv'
  <2>1. claimed' = claimed
    BY <1>1 DEF hostVars
  <2> HIDE DEF w
  <2>2. /\ SessionsKnown' /\ Unclaimed' /\ AgentsOK'
        /\ store' \in Stores /\ active' \in [Agents -> ActiveTurns]
        /\ tools' \in [Agents -> SUBSET Grants]
        /\ \A b \in Agents \ {a} : active'[b] = active[b]
    BY <1>0, <1>1, <2>1, DroppingHandler
  <2> QED BY <1>1, <1>a, <2>1, <2>2 DEF hostVars, IInv, TypeOK
<1>2. CASE ClaimUnmarked(a)
  BY <1>1, <1>2 DEF ClaimUnmarked, Claiming
<1>3. ASSUME NEW H \in SUBSET Grants, ClaimKnown(a, H) PROVE IInv'
  BY <1>1, <1>3 DEF ClaimKnown, Claiming
<1>4. ASSUME NEW H \in SUBSET Grants, ClaimRefused(a, H) PROVE IInv'
  <2> DEFINE gone == RevocableHandles(w.store, H, a, turn[a], w.cur.authorized)
             st2 == Without(w.store, gone)
             v == [w EXCEPT !.store = st2]
  <2>1. /\ Become(a, v) /\ MarkClaimed(w.store, a, H) /\ ~stepping[a]
        /\ UNCHANGED <<expired, connected, turn, phase, aborted, stepping, answer, shown>>
    BY <1>4 DEF ClaimRefused, Claiming
  <2>2. /\ st2 \in Stores /\ Shrinks(w.store, st2)
        /\ \A g \in Grants :
              /\ Held(st2, g) <=> Held(w.store, g) /\ g \notin gone
              /\ st2[g].session = w.store[g].session
              /\ st2[g].turn = w.store[g].turn
    BY <1>0, WithoutLemma
  <2>3. v \in Worlds /\ v.store = st2 /\ v.cur = w.cur /\ v.tools = w.tools
    <3> HIDE DEF st2, w
    <3> QED BY <1>0, <2>2 DEF Worlds
  <2>4. /\ claimed' \in [Grants -> Nat]
        /\ \A g \in Grants : claimed'[g] # claimed[g]
              => Held(store, g) /\ store[g].session = a
        /\ \A g \in Grants :
              claimed'[g] = claimed[g]
              \/ (g \in H /\ Held(w.store, g) /\ w.store[g].session = a
                  /\ w.store[g].turn = 0 /\ claimed'[g] = turn[a])
    BY <1>0, <2>1, MarkClaimedLemma
  (* What the claim takes is dropped: it is of the session, of no turn yet, *)
  (* and not authorized.                                                   *)
  <2>5. ASSUME NEW g \in Grants, Held(st2, g) PROVE claimed'[g] = claimed[g]
    <3>1. Held(w.store, g) /\ g \notin gone
      BY <2>2, <2>5
    <3>2. SUFFICES ASSUME g \in H, w.store[g].session = a, w.store[g].turn = 0
                   PROVE  FALSE
      BY <2>4
    <3>3. g \in w.cur.authorized
      BY <3>1, <3>2 DEF RevocableHandles
    <3>4. w.cur.turn = 0
      BY <1>0, <3>1, <3>2, <3>3 DEF WorldOK, AgentOK
    <3> QED BY <1>0, <3>3, <3>4, NoTurnLemma DEF WorldOK, AgentOK
  <2>6. AgentOK(a, w.cur, w.store, w.tools, claimed)
    BY <1>0 DEF WorldOK
  <2>7. AgentOK(a, w.cur, st2, w.tools, claimed)
    BY <1>0, <2>2, <2>6, ShrinkAgentOK
  <2>8. AgentOK(a, w.cur, st2, w.tools, claimed')
    BY <2>5, <2>7 DEF AgentOK
  <2>9. WorldOK(a, v, claimed') /\ Evolves(a, store, v.store)
    BY <1>0, <2>2, <2>3, <2>8, ShrinksTransitive, ShrinksEvolves DEF WorldOK
  <2> HIDE DEF v
  <2> QED BY <1>a, <2>1, <2>4, <2>9, BecomeLemma
<1>5. ASSUME NEW H \in SUBSET Grants, ClaimAttached(a, H) PROVE IInv'
  <2> DEFINE new == H \ DOMAIN w.cur.pages
             opened == OpenTurn(w, turn[a])
  <2>1. PICK pages \in Appended(w.cur.pages, new) :
             Become(a, [store |-> w.store, cur |-> [opened EXCEPT !.pages = pages],
                        tools |-> DOMAIN pages])
    BY <1>5 DEF ClaimAttached
  <2>2. /\ MarkClaimed(w.store, a, H) /\ ~stepping[a]
        /\ UNCHANGED <<expired, connected, turn, phase, aborted, stepping, answer, shown>>
    BY <1>5 DEF ClaimAttached, Claiming
  <2>3. opened \in ActiveTurns /\ opened.turn = turn[a]
        /\ opened.activated = w.cur.activated /\ opened.authorized = w.cur.authorized
    <3>1. CASE w.cur.turn = 0
      <4>1. w.cur = NoTurn
        BY <1>0, <3>1 DEF WorldOK, AgentOK
      <4>2. opened = [NoTurn EXCEPT !.turn = turn[a]]
        BY <3>1 DEF OpenTurn
      <4> HIDE DEF opened, w
      <4> QED BY <1>0, <4>1, <4>2, NoTurnLemma DEF ActiveTurns
    <3>2. CASE w.cur.turn # 0
      <4>1. opened = w.cur
        BY <3>2 DEF OpenTurn
      <4> QED BY <1>0, <3>2, <4>1
    <3> QED BY <3>1, <3>2
  <2>4. pages \in PageMaps /\ DOMAIN pages = DOMAIN w.cur.pages \cup H
    <3>1. w.cur.pages \in PageMaps /\ new \in SUBSET Grants
      BY <1>0 DEF ActiveTurns
    <3> HIDE DEF new
    <3>2. pages \in PageMaps /\ DOMAIN pages = DOMAIN w.cur.pages \cup new
      BY <2>1, <3>1, AppendedLemma
    <3> USE DEF new
    <3> QED BY <3>2
  <2> DEFINE cur2 == [opened EXCEPT !.pages = pages]
             v == [store |-> w.store, cur |-> cur2, tools |-> DOMAIN pages]
  <2>5. /\ cur2 \in ActiveTurns /\ cur2.pages = pages /\ cur2.turn = turn[a]
        /\ cur2.activated = w.cur.activated /\ cur2.authorized = w.cur.authorized
    <3> HIDE DEF opened, w
    <3> QED BY <2>3, <2>4 DEF ActiveTurns
  <2>6. /\ claimed' \in [Grants -> Nat]
        /\ \A g \in Grants : claimed'[g] # claimed[g]
              => Held(store, g) /\ store[g].session = a
        /\ \A g \in Grants :
              claimed'[g] = claimed[g]
              \/ (g \in H /\ Held(w.store, g) /\ w.store[g].session = a
                  /\ w.store[g].turn = 0 /\ claimed'[g] = turn[a])
    BY <1>0, <2>2, MarkClaimedLemma
  <2>7. turn[a] # 0
    BY <1>5 DEF ClaimAttached, Claiming, IInv, RunningTurn
  <2>8. AgentOK(a, w.cur, w.store, w.tools, claimed)
    BY <1>0 DEF WorldOK
  <2>9. w.cur.turn = 0 => /\ w.cur.authorized = {} /\ DOMAIN w.cur.pages = {}
    BY <2>8, NoTurnLemma DEF AgentOK
  <2>10. AgentOK(a, cur2, w.store, DOMAIN pages, claimed')
    <3> HIDE DEF cur2, w, new, opened
    <3>1. ASSUME NEW g \in Grants, Held(w.store, g), w.store[g].session = a,
                 w.store[g].turn = 0, claimed'[g] # 0
          PROVE  cur2.turn = claimed'[g] /\ g \in DOMAIN pages
      <4>1. CASE claimed'[g] = claimed[g]
        <5>1. w.cur.turn = claimed[g] /\ g \in DOMAIN w.cur.pages
          BY <2>8, <3>1, <4>1 DEF AgentOK
        <5> QED BY <1>0, <2>4, <2>5, <2>9, <5>1, <4>1
      <4>2. CASE g \in H /\ claimed'[g] = turn[a]
        BY <2>4, <2>5, <4>2
      <4> QED BY <2>6, <4>1, <4>2
    <3>2. ASSUME NEW g \in Grants, Held(w.store, g), w.store[g].session = a,
                 w.store[g].turn # 0
          PROVE  cur2.turn = w.store[g].turn /\ g \in cur2.authorized
      BY <1>0, <2>5, <2>8, <2>9, <3>2 DEF AgentOK
    <3>3. ASSUME NEW g \in cur2.authorized
          PROVE  /\ w.store[g].status # "unoffered"
                 /\ Held(w.store, g) =>
                      w.store[g].session = a /\ w.store[g].turn = cur2.turn
      BY <1>0, <2>5, <2>8, <2>9, <3>3 DEF AgentOK
    <3>4. ~cur2.activated => cur2.authorized = {}
      BY <2>5, <2>8 DEF AgentOK
    <3> QED BY <2>5, <2>7, <3>1, <3>2, <3>3, <3>4 DEF AgentOK
  <2>11. v.store = w.store /\ v.cur = cur2 /\ v.tools = DOMAIN pages
    OBVIOUS
  <2>12. DOMAIN pages \in SUBSET Grants
    BY <1>0, <2>4 DEF PageMaps
  <2>13. v \in Worlds
    <3> HIDE DEF cur2, w
    <3> QED BY <1>0, <2>5, <2>12 DEF Worlds
  <2>14. WorldOK(a, v, claimed') /\ Evolves(a, store, v.store) /\ Become(a, v)
    BY <1>0, <2>1, <2>10, <2>11, <2>13, ShrinksEvolves DEF WorldOK
  <2> HIDE DEF v
  <2> QED BY <1>a, <2>2, <2>6, <2>14, BecomeLemma
<1>6. ASSUME NEW H \in SUBSET Grants, NEW restored \in BOOLEAN,
             ClaimUnregistered(a, H, restored)
      PROVE  IInv'
  <2> DEFINE new == H \ DOMAIN w.cur.pages
             back == IF restored THEN [w EXCEPT !.tools = DOMAIN w.cur.pages]
                     ELSE Cleanup(w, a, turn[a])
             st2 == Without(back.store, new)
             v == [back EXCEPT !.store = st2]
  <2>1. /\ Become(a, v) /\ MarkClaimed(w.store, a, H) /\ ~stepping[a]
        /\ UNCHANGED <<expired, connected, turn, phase, aborted, stepping, answer, shown>>
    BY <1>6 DEF ClaimUnregistered, Claiming
  <2>2. WorldOK(a, back, claimed) /\ Shrinks(w.store, back.store)
    <3>1. CASE restored
      <4>1. back = w
        BY <1>0, <3>1 DEF Worlds, WorldOK, AgentOK
      <4> QED BY <1>0, <4>1 DEF Shrinks
    <3>2. CASE ~restored
      <4>1. back = Cleanup(w, a, turn[a])
        BY <3>2
      <4> HIDE DEF back, w
      <4> QED BY <1>0, <4>1, CleanupLemma
    <3> QED BY <3>1, <3>2
  <2>3. \/ back.cur = w.cur
        \/ back.cur = NoTurn
    <3>1. CASE restored
      BY <1>0, <3>1 DEF Worlds
    <3>2. CASE ~restored
      BY <1>0, <3>2 DEF Cleanup
    <3> QED BY <3>1, <3>2
  <2> HIDE DEF back
  <2>4. back \in Worlds /\ back.store \in Stores /\ back.cur \in ActiveTurns
    BY <2>2 DEF WorldOK, Worlds
  <2>5. /\ st2 \in Stores /\ Shrinks(back.store, st2)
        /\ \A g \in Grants :
              /\ Held(st2, g) <=> Held(back.store, g) /\ g \notin new
              /\ st2[g].session = back.store[g].session
              /\ st2[g].turn = back.store[g].turn
    BY <2>4, WithoutLemma
  <2>6. v \in Worlds /\ v.store = st2 /\ v.cur = back.cur /\ v.tools = back.tools
    <3> HIDE DEF st2
    <3> QED BY <2>4, <2>5 DEF Worlds
  <2>7. /\ claimed' \in [Grants -> Nat]
        /\ \A g \in Grants : claimed'[g] # claimed[g]
              => Held(store, g) /\ store[g].session = a
        /\ \A g \in Grants :
              claimed'[g] = claimed[g]
              \/ (g \in H /\ Held(w.store, g) /\ w.store[g].session = a
                  /\ w.store[g].turn = 0 /\ claimed'[g] = turn[a])
    BY <1>0, <2>1, MarkClaimedLemma
  <2>8. AgentOK(a, back.cur, st2, back.tools, claimed)
    BY <2>2, <2>4, <2>5, ShrinkAgentOK DEF WorldOK
  <2>9. ASSUME NEW g \in Grants, Held(st2, g), st2[g].session = a, st2[g].turn = 0,
               claimed'[g] # 0
        PROVE  back.cur.turn = claimed'[g] /\ g \in DOMAIN back.cur.pages
    <3>1. CASE claimed'[g] = claimed[g]
      BY <2>8, <2>9, <3>1 DEF AgentOK
    <3>2. CASE g \in H /\ claimed'[g] = turn[a]
      <4>1. g \in DOMAIN w.cur.pages
        BY <2>5, <2>9, <3>2
      <4>2. w.cur.turn = turn[a]
        BY <1>0, <4>1, NoTurnLemma DEF WorldOK, AgentOK
      <4>3. CASE back.cur = w.cur
        BY <3>2, <4>1, <4>2, <4>3
      <4>4. CASE back.cur = NoTurn /\ back.cur # w.cur
        (* The whole turn was cleaned up, with all its pages. *)
        <5>1. back = Cleanup(w, a, turn[a]) /\ w.cur.turn # 0
          BY <1>0, <4>4 DEF back, Worlds, WorldOK, AgentOK
        <5>2. back.store = Without(w.store, DOMAIN w.cur.pages
                                             \cup TurnGrants(w.store, a, turn[a]))
          BY <4>2, <5>1 DEF Cleanup
        <5>3. ~Held(back.store, g)
          BY <1>0, <4>1, <5>2, WithoutLemma
        <5> QED BY <2>5, <2>9, <5>3
      <4> QED BY <2>3, <4>3, <4>4
    <3> QED BY <2>7, <3>1, <3>2
  <2>10. AgentOK(a, back.cur, st2, back.tools, claimed')
    <3> HIDE DEF st2, w
    <3> QED BY <2>8, <2>9 DEF AgentOK
  <2>11. WorldOK(a, v, claimed') /\ Evolves(a, store, v.store)
    BY <1>0, <2>2, <2>5, <2>6, <2>10, ShrinksTransitive, ShrinksEvolves DEF WorldOK
  <2> HIDE DEF v
  <2> QED BY <1>a, <2>1, <2>7, <2>11, BecomeLemma
<1> QED BY <1>2, <1>3, <1>4, <1>5, <1>6 DEF ClaimStep

-----------------------------------------------------------------------------
(* The pre-step handler preserves it. *)
LEMMA PreStepBeginIInv ==
    ASSUME NEW a \in Agents
    PROVE  IInv /\ PreStepBegin(a) => IInv'
<1> SUFFICES ASSUME IInv, PreStepBegin(a) PROVE IInv'
  OBVIOUS
<1> DEFINE w == AtBoundary(a)
<1>1. /\ Become(a, w) /\ claimed' = claimed
      /\ stepping' = [stepping EXCEPT ![a] = TRUE]
      /\ answer' = [answer EXCEPT ![a] = "none"]
      /\ UNCHANGED <<expired, connected, turn, phase, aborted, shown>>
  BY DEF PreStepBegin
<1>2. WorldOK(a, w, claimed) /\ Shrinks(store, w.store) /\ w.cur.turn \in {0, turn[a]}
  BY BoundaryLemma
<1> HIDE DEF w
<1>3. /\ SessionsKnown' /\ Unclaimed' /\ AgentsOK'
      /\ store' \in Stores /\ active' \in [Agents -> ActiveTurns]
      /\ tools' \in [Agents -> SUBSET Grants]
      /\ active'[a] = w.cur
      /\ \A b \in Agents \ {a} : active'[b] = active[b]
  BY <1>1, <1>2, DroppingHandler
<1>4. TypeOK'
  BY <1>1, <1>3 DEF IInv, TypeOK
<1>5. NoStaleTurnInStep' /\ RunningTurn'
  BY <1>1, <1>2, <1>3 DEF IInv, TypeOK, NoStaleTurnInStep, RunningTurn
<1> QED BY <1>3, <1>4, <1>5 DEF IInv

(* A returning handler that rolls back preserves it. *)
LEMMA RollsBackIInv ==
    ASSUME IInv, NEW a \in Agents, NEW d \in {"enter", "reject"}, Returns(a, d),
           RollsBack(a), expired' \subseteq Grants, shown' = shown
    PROVE  IInv'
<1>1. PICK r \in BOOLEAN : Become(a, Rollback(World(a), a, turn[a], r))
  BY DEF RollsBack, Registers
<1> DEFINE w == Rollback(World(a), a, turn[a], r)
<1>2. /\ WorldOK(a, w, claimed) /\ Shrinks(store, w.store)
      /\ w.cur.turn \in {0, active[a].turn}
  BY WorldLemma, RollbackLemma
<1>3. /\ stepping[a] /\ claimed' = claimed
      /\ stepping' = [stepping EXCEPT ![a] = FALSE]
      /\ answer' = [answer EXCEPT ![a] = d]
      /\ UNCHANGED <<connected, turn, phase, aborted, shown>>
  BY DEF Returns
<1>4. Become(a, w)
  BY <1>1
<1> HIDE DEF w
<1>5. /\ SessionsKnown' /\ Unclaimed' /\ AgentsOK'
      /\ store' \in Stores /\ active' \in [Agents -> ActiveTurns]
      /\ tools' \in [Agents -> SUBSET Grants]
      /\ \A b \in Agents \ {a} : active'[b] = active[b]
  BY <1>2, <1>3, <1>4, DroppingHandler
<1>6. TypeOK'
  BY <1>3, <1>5 DEF IInv, TypeOK
<1>7. NoStaleTurnInStep' /\ RunningTurn'
  BY <1>3, <1>5 DEF IInv, TypeOK, NoStaleTurnInStep, RunningTurn
<1> QED BY <1>5, <1>6, <1>7 DEF IInv

(* The commit of a batch preserves it. *)
LEMMA CommitIInv ==
    ASSUME NEW a \in Agents, NEW H \in SUBSET Grants
    PROVE  IInv /\ StepCommitted(a, H) => IInv'
<1> SUFFICES ASSUME IInv, StepCommitted(a, H) PROVE IInv'
  OBVIOUS
<1> DEFINE st2 == Consumed(store, H, turn[a])
           cur2 == Committed(active[a], H, aborted[a])
           v == [store |-> st2, cur |-> cur2, tools |-> tools[a]]
<1>1. /\ H # {} /\ Acceptable(a, H) /\ Become(a, v)
      /\ stepping[a] /\ claimed' = claimed
      /\ stepping' = [stepping EXCEPT ![a] = FALSE]
      /\ answer' = [answer EXCEPT ![a] = "enter"]
      /\ UNCHANGED <<expired, connected, turn, phase, aborted>>
  BY DEF StepCommitted, Returns
<1>2. /\ store \in Stores /\ active[a] \in ActiveTurns /\ tools[a] \in SUBSET Grants
      /\ turn[a] \in Nat /\ aborted[a] \in BOOLEAN
      /\ AgentOK(a, active[a], store, tools[a], claimed)
  BY DEF IInv, TypeOK, AgentsOK
<1>3. /\ st2 \in Stores
      /\ \A g \in Grants :
            /\ Held(st2, g) <=> Held(store, g)
            /\ st2[g].session = store[g].session
            /\ st2[g].turn = IF g \in H THEN turn[a] ELSE store[g].turn
            /\ st2[g].status = store[g].status
  BY <1>2, ConsumedLemma
<1>4. /\ active[a].turn = turn[a] /\ H \subseteq DOMAIN active[a].pages
      /\ \A g \in H : Held(store, g) /\ store[g].session = a
  BY <1>1 DEF Acceptable, Previewable, Validates
<1>5. turn[a] # 0
  BY <1>1, <1>2, <1>4, NoTurnLemma DEF AgentOK
<1>6. /\ cur2 \in ActiveTurns
      /\ cur2.turn = turn[a] /\ cur2.pages = active[a].pages
      /\ cur2.authorized = active[a].authorized \cup H
      /\ cur2.activated = TRUE
  BY <1>2, <1>4 DEF Committed, ActiveTurns
<1>7. AgentOK(a, cur2, st2, tools[a], claimed)
  <2> HIDE DEF cur2, st2
  <2>0. active[a].authorized \subseteq Grants
    BY <1>2 DEF ActiveTurns
  <2>1. ASSUME NEW g \in cur2.authorized
        PROVE  /\ st2[g].status # "unoffered"
               /\ Held(st2, g) => st2[g].session = a /\ st2[g].turn = cur2.turn
    BY <1>2, <1>3, <1>4, <1>6, <2>0, <2>1 DEF AgentOK, Held
  <2>2. ASSUME NEW g \in Grants, Held(st2, g), st2[g].session = a, st2[g].turn # 0
        PROVE  cur2.turn = st2[g].turn /\ g \in cur2.authorized
    BY <1>2, <1>3, <1>4, <1>6, <2>2 DEF AgentOK
  <2>3. ASSUME NEW g \in Grants, Held(st2, g), st2[g].session = a, st2[g].turn = 0,
               claimed[g] # 0
        PROVE  cur2.turn = claimed[g] /\ g \in DOMAIN cur2.pages
    BY <1>2, <1>3, <1>4, <1>5, <1>6, <2>3 DEF AgentOK
  <2> QED BY <1>2, <1>5, <1>6, <2>1, <2>2, <2>3 DEF AgentOK
<1>8. v.store = st2 /\ v.cur = cur2 /\ v.tools = tools[a]
  OBVIOUS
<1>9. WorldOK(a, v, claimed)
  <2>1. v \in Worlds
    <3> HIDE DEF st2, cur2
    <3> QED BY <1>2, <1>3, <1>6 DEF Worlds
  <2> QED BY <1>7, <1>8, <2>1 DEF WorldOK
<1>10. Evolves(a, store, st2)
  <2> HIDE DEF st2
  <2> QED BY <1>3, <1>4 DEF Evolves
<1>11. /\ SessionsKnown' /\ Unclaimed' /\ AgentsOK'
       /\ store' \in Stores /\ active' \in [Agents -> ActiveTurns]
       /\ tools' \in [Agents -> SUBSET Grants]
       /\ active'[a] = cur2
       /\ \A b \in Agents \ {a} : active'[b] = active[b]
  <2> HIDE DEF v
  <2> QED BY <1>1, <1>8, <1>9, <1>10, BecomeLemma
<1>12. shown' \in [Agents -> [Aliases -> Grants \cup {NoGrant}]]
  <2> DEFINE row == [n \in Aliases |->
                      IF \E g \in H : active[a].pages[g] = n
                      THEN CHOOSE g \in H : active[a].pages[g] = n
                      ELSE shown[a][n]]
  <2>1. shown \in [Agents -> [Aliases -> Grants \cup {NoGrant}]]
    BY DEF IInv, TypeOK
  <2>2. shown' = [shown EXCEPT ![a] = row]
    BY <2>1 DEF StepCommitted
  <2>3. ASSUME NEW n \in Aliases PROVE row[n] \in Grants \cup {NoGrant}
    <3>1. CASE \E g \in H : active[a].pages[g] = n
      BY <3>1
    <3>2. CASE ~\E g \in H : active[a].pages[g] = n
      BY <2>1, <3>2
    <3> QED BY <3>1, <3>2
  <2>4. row \in [Aliases -> Grants \cup {NoGrant}]
    BY <2>3
  <2> HIDE DEF row
  <2> QED BY <2>1, <2>2, <2>4
<1>13. TypeOK'
  BY <1>1, <1>11, <1>12 DEF IInv, TypeOK
<1>14. NoStaleTurnInStep' /\ RunningTurn'
  BY <1>1, <1>11 DEF IInv, TypeOK, NoStaleTurnInStep, RunningTurn
<1> QED BY <1>11, <1>13, <1>14 DEF IInv

(* So does the handler whatever it returns. *)
LEMMA PreStepReturnIInv ==
    ASSUME NEW a \in Agents
    PROVE  IInv /\ PreStepReturn(a) => IInv'
<1> SUFFICES ASSUME IInv, PreStepReturn(a) PROVE IInv'
  OBVIOUS
<1>0. expired \subseteq Grants
  BY DEF IInv, TypeOK
<1>1. CASE StepRejected(a)
  BY <1>0, <1>1, RollsBackIInv DEF StepRejected
<1>2. CASE StepUnmarked(a)
  <2>1. PICK d \in {"enter", "reject"} : Returns(a, d)
    BY <1>2 DEF StepUnmarked
  <2> QED BY <1>0, <1>2, <2>1, RollsBackIInv DEF StepUnmarked
<1>3. ASSUME NEW H \in SUBSET Grants, StepRefused(a, H) PROVE IInv'
  BY <1>0, <1>3, RollsBackIInv DEF StepRefused
<1>4. ASSUME NEW H \in SUBSET Grants, NEW late \in SUBSET H, StepExpired(a, H, late)
      PROVE  IInv'
  BY <1>0, <1>4, RollsBackIInv DEF StepExpired
<1> QED BY <1>1, <1>2, <1>3, <1>4, CommitIInv DEF PreStepReturn

-----------------------------------------------------------------------------
(* A closing handler that drops grants and leaves stepping alone.  The     *)
(* entry it leaves is of the turn it was of, or absent.                    *)
LEMMA ClosingIInv ==
    ASSUME IInv, NEW a \in Agents, NEW w, Become(a, w), WorldOK(a, w, claimed),
           Shrinks(store, w.store), w.cur.turn \in {0, active[a].turn},
           phase' \in [Agents -> {"idle", "running", "disposed"}],
           \A b \in Agents : phase'[b] = "running" => phase[b] = "running",
           aborted' \in [Agents -> BOOLEAN],
           UNCHANGED <<expired, connected, turn, stepping, answer, claimed, shown>>
    PROVE  IInv'
<1>1. /\ SessionsKnown' /\ Unclaimed' /\ AgentsOK'
      /\ store' \in Stores /\ active' \in [Agents -> ActiveTurns]
      /\ tools' \in [Agents -> SUBSET Grants]
      /\ active'[a] = w.cur
      /\ \A b \in Agents \ {a} : active'[b] = active[b]
  BY DroppingHandler
<1>2. TypeOK'
  BY <1>1 DEF IInv, TypeOK
<1>3. NoStaleTurnInStep' /\ RunningTurn'
  BY <1>1 DEF IInv, TypeOK, NoStaleTurnInStep, RunningTurn
<1> QED BY <1>1, <1>2, <1>3 DEF IInv

(* What closes one agent's turn preserves it. *)
LEMMA ClosingStepIInv ==
    ASSUME NEW a \in Agents
    PROVE  IInv /\ ClosingStep(a) => IInv'
<1> SUFFICES ASSUME IInv, ClosingStep(a) PROVE IInv'
  OBVIOUS
<1>0. /\ WorldOK(a, World(a), claimed) /\ World(a).store = store
      /\ World(a).cur = active[a]
      /\ phase \in [Agents -> {"idle", "running", "disposed"}]
      /\ aborted \in [Agents -> BOOLEAN]
  BY WorldLemma DEF IInv, TypeOK
<1>1. ASSUME NEW t
      PROVE  /\ WorldOK(a, Cleanup(World(a), a, t), claimed)
             /\ Shrinks(store, Cleanup(World(a), a, t).store)
             /\ Cleanup(World(a), a, t).cur.turn \in {0, active[a].turn}
  BY <1>0, CleanupLemma
<1>2. CASE Abort(a)
  <2>1. CASE active[a].listening
    <3>1. Become(a, Cleanup(World(a), a, turn[a]))
      BY <1>2, <2>1 DEF Abort
    <3> QED BY <1>0, <1>1, <1>2, <3>1, ClosingIInv DEF Abort
  <2>2. CASE ~active[a].listening
    <3>1. Become(a, World(a))
      BY <1>2, <2>2 DEF Abort
    <3>2. Shrinks(store, World(a).store)
      BY <1>0 DEF Shrinks, IInv, TypeOK
    <3> QED BY <1>0, <1>2, <3>1, <3>2, ClosingIInv DEF Abort
  <2> QED BY <2>1, <2>2
<1>3. CASE TurnEnd(a)
  <2>1. /\ Become(a, Cleanup(World(a), a, turn[a]))
        /\ phase' = [phase EXCEPT ![a] = "idle"] /\ aborted' = aborted
        /\ UNCHANGED <<expired, connected, turn, stepping, answer, claimed, shown>>
    BY <1>3 DEF TurnEnd
  <2> QED BY <1>0, <1>1, <2>1, ClosingIInv
<1>4. CASE Dispose(a)
  <2>1. /\ Become(a, Cleanup(World(a), a, active[a].turn))
        /\ phase' = [phase EXCEPT ![a] = "disposed"] /\ aborted' = aborted
        /\ UNCHANGED <<expired, connected, turn, stepping, answer, claimed, shown>>
    BY <1>4 DEF Dispose
  <2> QED BY <1>0, <1>1, <2>1, ClosingIInv
<1>5. CASE TurnLost(a)
  BY <1>5 DEF TurnLost, IInv, TypeOK, SessionsKnown, Unclaimed, AgentsOK,
              NoStaleTurnInStep, RunningTurn
<1> QED BY <1>2, <1>3, <1>4, <1>5 DEF ClosingStep

(* The start of a turn preserves it. *)
LEMMA StartIInv ==
    ASSUME NEW a \in Agents
    PROVE  IInv /\ StartTurn(a) => IInv'
<1> SUFFICES ASSUME IInv, StartTurn(a) PROVE IInv'
  OBVIOUS
<1>1. NothingShown \in [Aliases -> Grants \cup {NoGrant}]
  BY DEF NothingShown
<1>2. TypeOK'
  BY <1>1 DEF StartTurn, IInv, TypeOK
<1>3. SessionsKnown' /\ Unclaimed' /\ AgentsOK'
  BY DEF StartTurn, IInv, SessionsKnown, Unclaimed, AgentsOK
<1>4. NoStaleTurnInStep' /\ RunningTurn'
  BY DEF StartTurn, IInv, TypeOK, NoStaleTurnInStep, RunningTurn
<1> QED BY <1>2, <1>3, <1>4 DEF IInv

(* Unloading the plugin preserves it. *)
LEMMA DisposeAllIInv == IInv /\ DisposeAll => IInv'
<1> SUFFICES ASSUME IInv, DisposeAll PROVE IInv'
  OBVIOUS
<1> DEFINE gone == UNION {DOMAIN active[b].pages
                            \cup TurnGrants(store, b, active[b].turn) :
                          b \in {c \in Agents : active[c].turn # 0}}
<1>1. /\ store' = Without(store, gone)
      /\ active' = [b \in Agents |-> NoTurn]
      /\ tools' = [b \in Agents |-> {}]
      /\ phase' = [b \in Agents |-> "disposed"]
      /\ UNCHANGED <<expired, connected, turn, aborted, stepping, answer, claimed, shown>>
  BY DEF DisposeAll
<1>2. ASSUME NEW b \in Agents, active[b].turn # 0
      PROVE  DOMAIN active[b].pages \cup TurnGrants(store, b, active[b].turn)
               \subseteq gone
  BY <1>2
<1> HIDE DEF gone
<1>3. /\ store' \in Stores /\ Shrinks(store, store')
      /\ \A g \in Grants :
            /\ Held(store', g) <=> Held(store, g) /\ g \notin gone
            /\ store'[g].session = store[g].session
            /\ store'[g].turn = store[g].turn
  BY <1>1, WithoutLemma DEF IInv, TypeOK
<1>4. TypeOK'
  BY <1>1, <1>3, NoTurnLemma DEF IInv, TypeOK
<1>5. SessionsKnown' /\ Unclaimed'
  BY <1>1, <1>3 DEF IInv, SessionsKnown, Unclaimed, Shrinks
<1>6. ASSUME NEW b \in Agents PROVE AgentOK(b, NoTurn, store', {}, claimed)
  <2>1. AgentOK(b, active[b], store, tools[b], claimed)
    BY DEF IInv, AgentsOK
  <2>2. ASSUME NEW g \in Grants, Held(store', g), store'[g].session = b
        PROVE  store'[g].turn = 0
    <3>1. Held(store, g) /\ g \notin gone /\ store[g].session = b
      BY <1>3, <2>2
    <3>2. SUFFICES ASSUME store[g].turn # 0 PROVE FALSE
      BY <1>3
    <3>3. active[b].turn = store[g].turn
      BY <2>1, <3>1, <3>2 DEF AgentOK
    <3>4. g \in TurnGrants(store, b, active[b].turn)
      BY <3>1, <3>3 DEF TurnGrants
    <3> QED BY <1>2, <3>1, <3>2, <3>3, <3>4
  <2>3. ASSUME NEW g \in Grants, Held(store', g), store'[g].session = b, claimed[g] # 0
        PROVE  FALSE
    <3>1. Held(store, g) /\ g \notin gone /\ store[g].session = b /\ store[g].turn = 0
      BY <1>3, <2>2, <2>3
    <3>2. active[b].turn = claimed[g] /\ g \in DOMAIN active[b].pages
      BY <2>1, <2>3, <3>1 DEF AgentOK
    <3> QED BY <1>2, <2>3, <3>1, <3>2
  <2> QED BY <2>2, <2>3, NoTurnLemma DEF AgentOK
<1>7. AgentsOK'
  BY <1>1, <1>6 DEF AgentsOK
<1>8. NoStaleTurnInStep' /\ RunningTurn'
  BY <1>1, NoTurnLemma DEF NoStaleTurnInStep, RunningTurn
<1> QED BY <1>4, <1>5, <1>7, <1>8 DEF IInv

(* The invariant is inductive. *)
LEMMA NextIInv == IInv /\ [Next]_vars => IInv'
<1> SUFFICES ASSUME IInv, [Next]_vars PROVE IInv'
  OBVIOUS
<1>1. CASE UNCHANGED vars
  BY <1>1 DEF vars, IInv, TypeOK, SessionsKnown, Unclaimed, AgentsOK,
              NoStaleTurnInStep, RunningTurn
<1>2. ASSUME NEW a \in Agents, AgentStep(a) PROVE IInv'
  BY <1>2, StartIInv, ClaimIInv, PreStepBeginIInv, PreStepReturnIInv, ClosingStepIInv
     DEF AgentStep
<1> QED BY <1>1, <1>2, ProviderIInv, DisposeAllIInv DEF Next

(* The inductive invariant holds in every reachable state. *)
THEOREM SpecIInv == Spec => []IInv
  BY InitIInv, NextIInv, PTL DEF Spec

(* Type correctness of the turn lifecycle. *)
THEOREM TypeCorrect == Spec => []TypeOK
  BY SpecIInv, PTL DEF IInv

(* A consumed grant belongs to a live turn that authorizes it. *)
THEOREM ConsumedHasOwnerCorrect == Spec => []ConsumedHasOwner
<1>1. IInv => ConsumedHasOwner
  BY DEF IInv, SessionsKnown, AgentsOK, AgentOK, ConsumedHasOwner
<1> QED BY <1>1, SpecIInv, PTL

(* A grant named by a claimed message can be attached by no other turn. *)
THEOREM ClaimedNeverReplayableCorrect == Spec => []ClaimedNeverReplayable
<1>1. IInv => ClaimedNeverReplayable
  BY DEF IInv, SessionsKnown, AgentsOK, AgentOK, ClaimedNeverReplayable
<1> QED BY <1>1, SpecIInv, PTL

(* The registered tool surface is that of the turn's pages. *)
THEOREM SurfaceMatchesPagesCorrect == Spec => []SurfaceMatchesPages
<1>1. IInv => SurfaceMatchesPages
  BY DEF IInv, AgentsOK, AgentOK, SurfaceMatchesPages
<1> QED BY <1>1, SpecIInv, PTL

(* Tools only execute on grants consumed for this session and turn. *)
THEOREM ExecutionNeedsConsumptionCorrect == Spec => []ExecutionNeedsConsumption
<1>1. IInv => ExecutionNeedsConsumption
  BY DEF IInv, AgentsOK, AgentOK, ExecutionNeedsConsumption, Executable, Resolves
<1> QED BY <1>1, SpecIInv, PTL

(* No entry of an earlier turn is left when a pre-step handler awaits. *)
THEOREM NoStaleTurnInStepCorrect == Spec => []NoStaleTurnInStep
  BY SpecIInv, PTL DEF IInv

-----------------------------------------------------------------------------
(* Only the return of its own pre-step handler ends an agent's stepping.   *)
LEMMA SteppingEndsByReturn ==
    ASSUME IInv, [Next]_vars, NEW a \in Agents, stepping[a], ~stepping'[a]
    PROVE  PreStepReturn(a)
<1>1. ASSUME NEW b \in Agents, PreStepReturn(b) PROVE b = a
  BY <1>1 DEF PreStepReturn, StepRejected, StepUnmarked, StepRefused, StepExpired,
              StepCommitted, Returns, IInv, TypeOK
<1>2. ASSUME NEW b \in Agents, PreStepBegin(b) PROVE FALSE
  BY <1>2 DEF PreStepBegin, IInv, TypeOK
<1>3. ASSUME NEW b \in Agents, ClaimStep(b) PROVE UNCHANGED stepping
  BY <1>3 DEF ClaimStep, ClaimUnmarked, ClaimKnown, ClaimRefused, ClaimAttached,
              ClaimUnregistered, hostVars
<1>4. ASSUME NEW b \in Agents, ClosingStep(b) \/ StartTurn(b) PROVE UNCHANGED stepping
  BY <1>4 DEF ClosingStep, Abort, TurnEnd, TurnLost, Dispose, StartTurn
<1>5. ASSUME ProviderStep \/ DisposeAll \/ UNCHANGED vars PROVE UNCHANGED stepping
  BY <1>5 DEF ProviderStep, Offer, Expire, ProviderRevoke, Disconnect, Reconnect,
              hostVars, DisposeAll, vars
<1> QED BY <1>1, <1>2, <1>3, <1>4, <1>5 DEF Next, AgentStep

(* A handler that rolls back leaves every turn binding as it was. *)
LEMMA RollsBackBindsNothing ==
    ASSUME IInv, NEW a \in Agents, RollsBack(a), NEW g \in Grants
    PROVE  store'[g].turn = store[g].turn
<1>1. PICK r \in BOOLEAN : Become(a, Rollback(World(a), a, turn[a], r))
  BY DEF RollsBack, Registers
<1>2. Shrinks(store, Rollback(World(a), a, turn[a], r).store)
  BY WorldLemma, RollbackLemma
<1> QED BY <1>1, <1>2 DEF Become, Shrinks

(* A rejected step consumes nothing. *)
THEOREM RejectConsumesNothingCorrect == Spec => RejectConsumesNothing
<1>1. ASSUME IInv, [Next]_vars, NEW a \in Agents, stepping[a], ~stepping'[a],
             answer'[a] = "reject", NEW g \in Grants
      PROVE  store'[g].turn = store[g].turn
  <2>1. PreStepReturn(a)
    BY <1>1, SteppingEndsByReturn
  <2>2. ASSUME NEW H \in SUBSET Grants, StepCommitted(a, H) PROVE FALSE
    BY <1>1, <2>2 DEF StepCommitted, Returns, IInv, TypeOK
  <2>3. RollsBack(a)
    BY <2>1, <2>2 DEF PreStepReturn, StepRejected, StepUnmarked, StepRefused, StepExpired
  <2> QED BY <1>1, <2>3, RollsBackBindsNothing
<1>2. IInv /\ [Next]_vars =>
        [\A a \in Agents :
          stepping[a] /\ ~stepping'[a] /\ answer'[a] = "reject"
          => \A g \in Grants : store'[g].turn = store[g].turn]_vars
  BY <1>1
<1> QED BY <1>2, SpecIInv, PTL DEF Spec, RejectConsumesNothing

(* A step enters with every page of its turn authorized. *)
THEOREM EnterIsFullyAuthorizedCorrect == Spec => EnterIsFullyAuthorized
<1>1. ASSUME IInv, [Next]_vars, NEW a \in Agents, stepping[a], ~stepping'[a],
             answer'[a] = "enter", active'[a].turn = turn[a]
      PROVE  DOMAIN active'[a].pages \subseteq active'[a].authorized
  <2>0. /\ active \in [Agents -> ActiveTurns] /\ answer \in [Agents -> {"none", "enter", "reject"}]
        /\ WorldOK(a, World(a), claimed) /\ World(a).cur = active[a]
    BY <1>1, WorldLemma DEF IInv, TypeOK
  <2>1. PreStepReturn(a)
    BY <1>1, SteppingEndsByReturn
  <2>2. ASSUME NEW H \in SUBSET Grants, StepCommitted(a, H)
        PROVE  DOMAIN active'[a].pages \subseteq active'[a].authorized
    <3>1. active'[a] = Committed(active[a], H, aborted[a])
      BY <2>0, <2>2 DEF StepCommitted, Become
    <3>2. active'[a].pages = active[a].pages
          /\ active'[a].authorized = active[a].authorized \cup H
      BY <2>0, <3>1 DEF Committed, ActiveTurns
    <3>3. DOMAIN active[a].pages \ active[a].authorized \subseteq H
      BY <2>2 DEF StepCommitted, Acceptable, Provisional
    <3> QED BY <3>2, <3>3
  <2>3. CASE StepUnmarked(a)
    <3>1. ~(active[a].turn = turn[a] /\ Provisional(active[a]) # {})
      BY <1>1, <2>0, <2>3 DEF StepUnmarked, Returns
    <3>2. PICK r \in BOOLEAN : Become(a, Rollback(World(a), a, turn[a], r))
      BY <2>3 DEF StepUnmarked, RollsBack, Registers
    <3>3. Rollback(World(a), a, turn[a], r) = World(a)
      BY <2>0, <3>1 DEF Rollback
    <3>4. active'[a] = active[a]
      BY <2>0, <3>2, <3>3 DEF Become
    <3> QED BY <1>1, <3>1, <3>4 DEF Provisional
  <2>4. ASSUME Returns(a, "reject") PROVE FALSE
    BY <1>1, <2>0, <2>4 DEF Returns
  <2> QED BY <2>1, <2>2, <2>3, <2>4 DEF PreStepReturn, StepRejected, StepRefused, StepExpired
<1>2. IInv /\ [Next]_vars =>
        [\A a \in Agents :
          stepping[a] /\ ~stepping'[a] /\ answer'[a] = "enter"
             /\ active'[a].turn = turn[a]
          => DOMAIN active'[a].pages \subseteq active'[a].authorized]_vars
  BY <1>1
<1> QED BY <1>2, SpecIInv, PTL DEF Spec, EnterIsFullyAuthorized

(* The decision of a pre-step is about its own turn and all or nothing,    *)
(* whatever expires, leaves or ends while the handler awaits next().       *)
THEOREM DecisionIsWholeCorrect == Spec => DecisionIsWhole
<1> DEFINE Ends(a) == stepping[a] /\ ~stepping'[a]
           Own == \A a \in Agents : Ends(a) => active[a].turn \in {0, turn[a]}
           Rejects == \A a \in Agents : Ends(a) /\ answer'[a] = "reject"
                        => \A g \in Grants : store'[g].turn = store[g].turn
           Enters == \A a \in Agents :
                        Ends(a) /\ answer'[a] = "enter" /\ active'[a].turn = turn[a]
                        => DOMAIN active'[a].pages \subseteq active'[a].authorized
           Decides == \A a \in Agents : Ends(a) =>
              /\ active[a].turn \in {0, turn[a]}
              /\ answer'[a] = "reject" => \A g \in Grants : store'[g].turn = store[g].turn
              /\ answer'[a] = "enter" /\ active'[a].turn = turn[a]
                   => DOMAIN active'[a].pages \subseteq active'[a].authorized
<1>1. NoStaleTurnInStep => Own
  BY DEF NoStaleTurnInStep
<1>2. Own /\ Rejects /\ Enters => Decides
  OBVIOUS
<1>3. NoStaleTurnInStep /\ [Rejects]_vars /\ [Enters]_vars => [Decides]_vars
  BY <1>1, <1>2
<1>4. Spec => [][Rejects]_vars
  BY RejectConsumesNothingCorrect DEF RejectConsumesNothing
<1>5. Spec => [][Enters]_vars
  BY EnterIsFullyAuthorizedCorrect DEF EnterIsFullyAuthorized
<1>6. Spec => [][Decides]_vars
  <2> HIDE DEF Rejects, Enters, Decides
  <2> QED BY <1>3, <1>4, <1>5, NoStaleTurnInStepCorrect, PTL
<1> QED BY <1>6 DEF DecisionIsWhole
-----------------------------------------------------------------------------
(* Aliases                                                                  *)

(* The largest of some numbers up to n.                                     *)
LEMMA MaxIs ==
  ASSUME NEW n \in Nat, NEW S, S \subseteq 0 .. n, S # {}
  PROVE  Max(S) \in S /\ \A y \in S : Max(S) >= y
<1> DEFINE T == {k \in Nat : n - k \in S}
<1>1. T \subseteq Nat /\ T # {}
  <2>1. PICK x \in S : x \in 0 .. n
    OBVIOUS
  <2>2. n - x \in Nat /\ n - (n - x) = x
    BY <2>1
  <2> QED BY <2>1, <2>2
<1>2. PICK r : r = {ss \in Nat \X Nat : ss[1] < ss[2]}
  OBVIOUS
<1>3. IsWellFoundedOn(r, Nat)
  BY <1>2, NatLessThanWellFounded DEF OpToRel
<1>4. PICK m \in T : \A y \in T : <<y, m>> \notin r
  <2> HIDE DEF T
  <2> QED BY <1>1, <1>3, WFMin
<1>5. \A x, y \in Nat : x < y => <<x, y>> \in r
  BY <1>2
<1>6. n - m \in S /\ m \in Nat
  OBVIOUS
<1>7. ASSUME NEW y \in S PROVE n - m >= y
  <2>1. y \in 0 .. n
    OBVIOUS
  <2>2. n - y \in Nat /\ n - (n - y) = y
    BY <2>1
  <2>3. ~(n - y < m)
    BY <1>4, <1>5, <1>6, <2>2
  <2> QED BY <1>6, <2>1, <2>3
<1> QED BY <1>6, <1>7 DEF Max

Distinct(pages) == \A g, h \in DOMAIN pages : pages[g] = pages[h] => g = h

(* Appending numbers the new pages apart from each other and the old ones. *)
LEMMA AppendedDistinct ==
    ASSUME NEW pages \in PageMaps, NEW new \in SUBSET Grants,
           \A g \in new : g \notin DOMAIN pages, Distinct(pages),
           NEW longer \in Appended(pages, new)
    PROVE  Distinct(longer) /\ \A g \in DOMAIN pages : longer[g] = pages[g]
<1> DEFINE n == Cardinality(Grants)
           used == {0} \cup {pages[g] : g \in DOMAIN pages}
           top == Max(used)
           above == {i \in Aliases : i > top}
           numberings == {f \in [new -> above] :
                            {f[g] : g \in new} = (top + 1)..(top + Cardinality(new))}
           joined(f) == [g \in DOMAIN pages \cup new |->
                           IF g \in DOMAIN pages THEN pages[g] ELSE f[g]]
<1>1. longer \in {joined(f) : f \in numberings}
  BY DEF Appended
<1>2. PICK f \in numberings : longer = joined(f)
  <2> HIDE DEF numberings, joined
  <2> QED BY <1>1
<1>3. n \in Nat
  BY FS_CardinalityType
<1>4. PICK D \in SUBSET Grants : pages \in [D -> Aliases]
  BY DEF PageMaps
<1>5. top \in Nat /\ \A g \in DOMAIN pages : top >= pages[g] /\ pages[g] \in Nat
  <2>1. used \subseteq 0 .. n
    BY <1>3, <1>4 DEF Aliases
  <2>2. top \in used /\ \A y \in used : top >= y
    <3>1. used # {}
      OBVIOUS
    <3> HIDE DEF used, n
    <3> QED BY <1>3, <2>1, <3>1, MaxIs
  <2> HIDE DEF top, n
  <2> QED BY <1>3, <2>1, <2>2
<1> HIDE DEF top, n, used
<1>6. IsFiniteSet(new) /\ Cardinality(new) \in Nat
  BY FS_Subset, FS_CardinalityType
<1> DEFINE image == (top + 1)..(top + Cardinality(new))
<1>7. Cardinality(image) = Cardinality(new)
  <2>1. PICK c \in Nat : c = Cardinality(new)
    BY <1>6
  <2>2. Cardinality((top + 1)..(top + c)) = c
    BY <1>5, FS_Interval
  <2> QED BY <2>1, <2>2
<1>8. f \in [new -> above] /\ {f[g] : g \in new} = image
  OBVIOUS
<1> HIDE DEF image, above
<1>9. f \in Surjection(new, image)
  <2>1. f \in [new -> image]
    BY <1>8
  <2>2. \A t \in image : \E s \in new : f[s] = t
    BY <1>8
  <2> QED BY <2>1, <2>2, Fun_IsSurj
<1>10. f \in Injection(new, image)
  BY <1>6, <1>7, <1>9, FS_SurjSameCardinalityImpliesInj
<1>11. \A g, h \in new : f[g] = f[h] => g = h
  BY <1>10 DEF Injection, IsInjective
<1>12. \A g \in new : f[g] > top /\ f[g] \in Nat
  <2> USE DEF above
  <2> QED BY <1>3, <1>8 DEF n, Aliases
<1>13. /\ DOMAIN longer = DOMAIN pages \cup new
       /\ \A g \in DOMAIN longer : longer[g] = IF g \in DOMAIN pages THEN pages[g] ELSE f[g]
  BY <1>2
<1>14. ASSUME NEW g \in DOMAIN longer, NEW h \in DOMAIN longer, longer[g] = longer[h] PROVE g = h
  <2>1. CASE g \in DOMAIN pages /\ h \in DOMAIN pages
    BY <1>13, <1>14, <2>1 DEF Distinct
  <2>2. CASE g \notin DOMAIN pages /\ h \notin DOMAIN pages
    BY <1>11, <1>13, <1>14, <2>2
  <2>3. CASE g \in DOMAIN pages /\ h \notin DOMAIN pages
    BY <1>5, <1>12, <1>13, <1>14, <2>3
  <2>4. CASE g \notin DOMAIN pages /\ h \in DOMAIN pages
    BY <1>5, <1>12, <1>13, <1>14, <2>4
  <2> QED BY <2>1, <2>2, <2>3, <2>4
<1> QED BY <1>13, <1>14 DEF Distinct

(* What the entry cur of an agent and the aliases sh its model was told of *)
(* have to do with each other in turn t: an alias it was told of keeps its *)
(* page, which is authorized; while the turn is live and has no entry, the *)
(* model was told of none.                                                 *)
Named(cur, t, sh, live) ==
    /\ Distinct(cur.pages)
    /\ cur.turn = t /\ t # 0 =>
          \A n \in Aliases : sh[n] # NoGrant =>
              /\ sh[n] \in cur.authorized \cap DOMAIN cur.pages
              /\ cur.pages[sh[n]] = n
    /\ live /\ cur.turn # t => \A n \in Aliases : sh[n] = NoGrant

Live(a) == phase[a] = "running" /\ ~aborted[a]

Aliased == \A a \in Agents : Named(active[a], turn[a], shown[a], Live(a))

(* Without an entry only a live turn says something of what was shown. *)
LEMMA NamedNoTurn ==
    ASSUME NEW t, NEW sh, NEW live \in BOOLEAN,
           live => \A n \in Aliases : sh[n] = NoGrant
    PROVE  Named(NoTurn, t, sh, live)
  BY NoTurnLemma DEF Named, Distinct

LEMMA CleanupNamed ==
    ASSUME NEW a \in Agents, NEW w, NEW cl, WorldOK(a, w, cl), NEW s, NEW t, NEW sh,
           NEW live \in BOOLEAN, NEW live2 \in BOOLEAN,
           Named(w.cur, t, sh, live), live2 => live,
           w.cur.turn = t /\ s = t => ~live2
    PROVE  Named(Cleanup(w, a, s).cur, t, sh, live2)
<1>1. CASE w.cur.turn = 0 \/ w.cur.turn # s
  <2>1. Cleanup(w, a, s) = w
    BY <1>1 DEF Cleanup
  <2> QED BY <2>1 DEF Named
<1>2. CASE w.cur.turn # 0 /\ w.cur.turn = s
  <2>1. Cleanup(w, a, s).cur = NoTurn
    BY <1>2 DEF Cleanup
  <2>2. live2 => \A n \in Aliases : sh[n] = NoGrant
    BY <1>2 DEF Named
  <2> QED BY <2>1, <2>2, NamedNoTurn
<1> QED BY <1>1, <1>2

LEMMA DropStaleNamed ==
    ASSUME NEW a \in Agents, NEW w, NEW cl, WorldOK(a, w, cl), NEW t, NEW sh,
           NEW live \in BOOLEAN, Named(w.cur, t, sh, live)
    PROVE  Named(DropStale(w, a, t).cur, t, sh, live)
<1>1. CASE w.cur.turn \in {0, t}
  BY <1>1 DEF DropStale
<1>2. CASE w.cur.turn \notin {0, t}
  <2>1. DropStale(w, a, t) = Cleanup(w, a, w.cur.turn)
    BY <1>2 DEF DropStale
  <2> QED BY <1>2, <2>1, CleanupNamed
<1> QED BY <1>1, <1>2

(* A rollback keeps the authorized pages and their numbers. *)
LEMMA RollbackNamed ==
    ASSUME NEW a \in Agents, NEW w, NEW cl, WorldOK(a, w, cl), NEW t, NEW sh,
           NEW live \in BOOLEAN, Named(w.cur, t, sh, live)
    PROVE  Named(Rollback(w, a, t, TRUE).cur, t, sh, live)
<1> DEFINE dropped == Provisional(w.cur)
           kept == OnlyPages(w.cur.pages, w.cur.authorized)
<1>1. CASE w.cur.turn # t \/ dropped = {}
  <2>1. Rollback(w, a, t, TRUE) = w
    BY <1>1 DEF Rollback
  <2> QED BY <2>1
<1>2. CASE ~(w.cur.turn # t \/ dropped = {})
  <2>1. w.cur \in ActiveTurns /\ w.cur.pages \in PageMaps
    BY DEF WorldOK, Worlds, ActiveTurns
  <2>2. w.cur.turn = t /\ t # 0
    <3>1. w.cur.turn = 0 => DOMAIN w.cur.pages = {}
      BY NoTurnLemma DEF WorldOK, AgentOK
    <3> QED BY <1>2, <3>1 DEF Provisional
  <2>3. CASE DOMAIN kept = {} /\ ~w.cur.activated
    <3>1. Rollback(w, a, t, TRUE).cur = NoTurn
      BY <1>2, <2>3 DEF Rollback
    <3>2. w.cur.authorized = {}
      BY <2>3 DEF WorldOK, AgentOK
    <3>3. \A n \in Aliases : sh[n] = NoGrant
      BY <2>2, <3>2 DEF Named
    <3> QED BY <3>1, <3>3, NamedNoTurn
  <2>4. CASE ~(DOMAIN kept = {} /\ ~w.cur.activated)
    <3>1. PICK q : q = [w.cur EXCEPT !.pages = kept]
      OBVIOUS
    <3>2. Rollback(w, a, t, TRUE).cur = q
      BY <1>2, <2>4, <3>1 DEF Rollback
    <3>3. q.turn = w.cur.turn /\ q.authorized = w.cur.authorized /\ q.pages = kept
      BY <2>1, <3>1 DEF ActiveTurns
    <3>4. /\ DOMAIN kept = DOMAIN w.cur.pages \cap w.cur.authorized
          /\ \A g \in DOMAIN kept : kept[g] = w.cur.pages[g]
      BY DEF OnlyPages
    <3> HIDE DEF kept
    <3>5. Distinct(kept)
      BY <3>4 DEF Named, Distinct
    <3> QED BY <2>2, <3>2, <3>3, <3>4, <3>5 DEF Named
  <2> QED BY <2>3, <2>4
<1> QED BY <1>1, <1>2

(* New pages are numbered apart from those of the turn so far. *)
LEMMA AttachedNamed ==
    ASSUME NEW cur \in ActiveTurns, NEW t \in Nat, t # 0, NEW sh, cur.turn \in {0, t},
           NEW live \in BOOLEAN, Named(cur, t, sh, live),
           cur.turn = 0 => \A n \in Aliases : sh[n] = NoGrant,
           NEW new \in SUBSET Grants, \A g \in new : g \notin DOMAIN cur.pages,
           NEW pages \in Appended(cur.pages, new),
           NEW q, q.turn = t, q.pages = pages,
           cur.turn # 0 => q.authorized = cur.authorized
    PROVE  Named(q, t, sh, live)
<1>1. cur.pages \in PageMaps
  BY DEF ActiveTurns
<1>2. q.turn = t /\ q.pages = pages
  OBVIOUS
<1>3. /\ DOMAIN pages = DOMAIN cur.pages \cup new
      /\ Distinct(pages) /\ \A g \in DOMAIN cur.pages : pages[g] = cur.pages[g]
  <2>1. Distinct(cur.pages)
    BY DEF Named
  <2>2. PICK p \in PageMaps : p = cur.pages
    BY <1>1
  <2>3. /\ pages \in Appended(p, new) /\ Distinct(p)
        /\ \A g \in new : g \notin DOMAIN p
    BY <2>1, <2>2
  <2>4. DOMAIN pages = DOMAIN p \cup new
    BY <2>3, AppendedLemma
  <2>5. Distinct(pages) /\ \A g \in DOMAIN p : pages[g] = p[g]
    BY <2>3, AppendedDistinct
  <2> QED BY <2>2, <2>4, <2>5
<1>4. CASE cur.turn = 0
  <2>1. \A n \in Aliases : sh[n] = NoGrant
    BY <1>4
  <2> QED BY <1>2, <1>3, <1>4, <2>1 DEF Named
<1>5. CASE cur.turn # 0
  <2>1. q.authorized = cur.authorized
    BY <1>5
  <2> QED BY <1>2, <1>3, <1>5, <2>1 DEF Named
<1> QED BY <1>4, <1>5

(* A handler of agent a disturbs no other agent's names. *)
LEMMA OthersAliased ==
    ASSUME Aliased, TypeOK, NEW a \in Agents, NEW cur \in ActiveTurns,
           active' = [active EXCEPT ![a] = cur],
           \A b \in Agents \ {a} : /\ turn'[b] = turn[b] /\ shown'[b] = shown[b]
                                   /\ phase'[b] = phase[b] /\ aborted'[b] = aborted[b],
           Named(cur, turn'[a], shown'[a], Live(a)')
    PROVE  Aliased'
<1>1. active'[a] = cur /\ \A b \in Agents \ {a} : active'[b] = active[b]
  BY DEF TypeOK
<1>2. ASSUME NEW b \in Agents \ {a}
      PROVE  Named(active'[b], turn'[b], shown'[b], Live(b)')
  BY <1>1, <1>2 DEF Aliased, Live
<1> QED BY <1>1, <1>2 DEF Aliased

(* A handler that tells the model nothing. *)
LEMMA SilentAliased ==
    ASSUME Aliased, IInv, NEW a \in Agents, NEW w, w.cur \in ActiveTurns, Become(a, w),
           UNCHANGED <<turn, phase, aborted, shown>>,
           Named(w.cur, turn[a], shown[a], Live(a))
    PROVE  Aliased'
<1>1. Named(w.cur, turn'[a], shown'[a], Live(a)')
  BY DEF Live
<1> QED BY <1>1, OthersAliased DEF Become, IInv

LEMMA BoundaryNamed ==
    ASSUME Aliased, IInv, NEW a \in Agents
    PROVE  /\ Named(AtBoundary(a).cur, turn[a], shown[a], Live(a))
           /\ AtBoundary(a) \in Worlds /\ AtBoundary(a).cur \in ActiveTurns
<1>1. Named(World(a).cur, turn[a], shown[a], Live(a))
  BY WorldLemma DEF Aliased
<1>2. Named(AtBoundary(a).cur, turn[a], shown[a], Live(a))
  BY <1>1, WorldLemma, DropStaleNamed DEF AtBoundary, Live
<1> QED BY <1>2, BoundaryLemma DEF WorldOK, Worlds

(* The handlers of a claim, when no registration fails. *)
LEMMA ClaimAliased ==
    ASSUME ~RegistrationMayFail, Aliased, IInv, NEW a \in Agents, ClaimStep(a)
    PROVE  Aliased'
<1>0. PICK w : w = AtBoundary(a)
  OBVIOUS
<1>1. /\ Named(w.cur, turn[a], shown[a], Live(a))
      /\ w \in Worlds /\ w.cur \in ActiveTurns /\ w.cur.turn \in {0, turn[a]}
  BY <1>0, BoundaryNamed, BoundaryLemma
<1>2. CASE ClaimUnmarked(a)
  BY <1>0, <1>1, <1>2, SilentAliased DEF ClaimUnmarked, hostVars
<1>3. ASSUME NEW H \in SUBSET Grants, ClaimKnown(a, H) PROVE Aliased'
  BY <1>0, <1>1, <1>3, SilentAliased DEF ClaimKnown, hostVars
<1>4. ASSUME NEW H \in SUBSET Grants, ClaimRefused(a, H) PROVE Aliased'
  <2>1. PICK v : /\ Become(a, v) /\ v.cur = w.cur
                 /\ UNCHANGED <<turn, phase, aborted, shown>>
    <3>1. PICK gone :
            /\ Become(a, [w EXCEPT !.store = Without(@, gone)])
            /\ UNCHANGED <<turn, phase, aborted, shown>>
      BY <1>0, <1>4 DEF ClaimRefused
    <3>2. PICK v : v = [w EXCEPT !.store = Without(@, gone)]
      OBVIOUS
    <3>3. v.cur = w.cur
      BY <1>1, <3>2 DEF Worlds
    <3> QED BY <3>1, <3>2, <3>3
  <2> QED BY <1>1, <2>1, SilentAliased
<1>5. ASSUME NEW H \in SUBSET Grants, ClaimAttached(a, H) PROVE Aliased'
  <2>1. PICK new \in SUBSET Grants : new = H \ DOMAIN w.cur.pages
    OBVIOUS
  <2>2. PICK pages \in Appended(w.cur.pages, new) :
          /\ Become(a, [store |-> w.store,
                        cur |-> [OpenTurn(w, turn[a]) EXCEPT !.pages = pages],
                        tools |-> DOMAIN pages])
          /\ Live(a) /\ UNCHANGED <<turn, phase, aborted, shown>>
    BY <1>0, <1>5, <2>1 DEF ClaimAttached, Claiming, Live
  <2>3. PICK q : q = [OpenTurn(w, turn[a]) EXCEPT !.pages = pages]
    OBVIOUS
  <2>4. turn[a] \in Nat /\ turn[a] # 0
    BY <2>2 DEF IInv, TypeOK, RunningTurn, Live
  <2>5. Named(q, turn[a], shown[a], Live(a))
    <3>1. PICK t, sh, live, cur :
            t = turn[a] /\ sh = shown[a] /\ live = Live(a) /\ cur = w.cur
      OBVIOUS
    <3>2. /\ cur \in ActiveTurns /\ cur.turn \in {0, t} /\ Named(cur, t, sh, live)
          /\ t \in Nat /\ t # 0 /\ live \in BOOLEAN
      BY <1>1, <2>4, <3>1 DEF Live
    <3>3. cur.turn = 0 => \A n \in Aliases : sh[n] = NoGrant
      BY <2>2, <3>1, <3>2 DEF Named
    <3>4. pages \in Appended(cur.pages, new) /\ \A g \in new : g \notin DOMAIN cur.pages
      BY <2>1, <2>2, <3>1
    <3>5. q.turn = t /\ q.pages = pages /\ (cur.turn # 0 => q.authorized = cur.authorized)
      BY <1>1, <2>3, <2>4, <3>1, NoTurnLemma DEF OpenTurn, ActiveTurns
    <3>6. Named(q, t, sh, live)
      BY <3>2, <3>3, <3>4, <3>5, AttachedNamed
    <3> QED BY <3>1, <3>6
  <2>6. q \in ActiveTurns
    <3>1. w.cur.pages \in PageMaps
      BY <1>1 DEF ActiveTurns
    <3>2. pages \in PageMaps
      BY <3>1, AppendedLemma
    <3>3. OpenTurn(w, turn[a]) \in ActiveTurns
      BY <1>1, <2>4, NoTurnLemma DEF OpenTurn, ActiveTurns
    <3> QED BY <2>3, <3>2, <3>3 DEF ActiveTurns
  <2>7. PICK v : v = [store |-> w.store, cur |-> q, tools |-> DOMAIN pages]
    OBVIOUS
  <2>8. v.cur = q /\ Become(a, v)
    BY <2>2, <2>3, <2>7
  <2>9. Named(v.cur, turn[a], shown[a], Live(a))
    BY <2>5, <2>8
  <2> QED BY <2>2, <2>6, <2>8, <2>9, SilentAliased
<1> QED BY <1>2, <1>3, <1>4, <1>5 DEF ClaimStep, ClaimUnregistered

LEMMA RollsBackAliased ==
    ASSUME ~RegistrationMayFail, Aliased, IInv, NEW a \in Agents, RollsBack(a),
           UNCHANGED <<turn, phase, aborted, shown>>
    PROVE  Aliased'
<1>1. Become(a, Rollback(World(a), a, turn[a], TRUE))
  BY DEF RollsBack, Registers
<1>2. Named(World(a).cur, turn[a], shown[a], Live(a))
  BY WorldLemma DEF Aliased
<1>3. Named(Rollback(World(a), a, turn[a], TRUE).cur, turn[a], shown[a], Live(a))
  BY <1>2, WorldLemma, RollbackNamed DEF Live
<1>4. Rollback(World(a), a, turn[a], TRUE).cur \in ActiveTurns
  BY WorldLemma, RollbackLemma DEF WorldOK, Worlds
<1> QED BY <1>1, <1>3, <1>4, SilentAliased

(* The batch becomes authorized and the model is told of its pages. *)
LEMMA CommitAliased ==
    ASSUME Aliased, IInv, NEW a \in Agents, NEW H \in SUBSET Grants, StepCommitted(a, H)
    PROVE  Aliased'
<1> DEFINE pages == active[a].pages
           now == [n \in Aliases |-> IF \E g \in H : pages[g] = n
                                     THEN CHOOSE g \in H : pages[g] = n
                                     ELSE shown[a][n]]
<1>1. /\ active[a] \in ActiveTurns /\ turn[a] \in Nat /\ Distinct(pages)
      /\ shown \in [Agents -> [Aliases -> Grants \cup {NoGrant}]]
      /\ active[a].turn = turn[a] /\ H # {} /\ H \subseteq DOMAIN pages
      /\ UNCHANGED <<turn, phase, aborted>>
      /\ shown' = [shown EXCEPT ![a] = now]
  BY DEF StepCommitted, Acceptable, Returns, IInv, TypeOK, Aliased, Named
<1>2. turn[a] # 0
  BY <1>1, NoTurnLemma DEF IInv, AgentsOK, AgentOK
<1>3. PICK q \in ActiveTurns :
        /\ q = Committed(active[a], H, aborted[a])
        /\ q.turn = turn[a] /\ q.pages = pages
        /\ q.authorized = active[a].authorized \cup H
  <2>1. aborted[a] \in BOOLEAN
    BY DEF IInv, TypeOK
  <2>2. PICK q : q = Committed(active[a], H, aborted[a])
    OBVIOUS
  <2>3. /\ q.turn = active[a].turn /\ q.pages = active[a].pages
        /\ q.authorized = active[a].authorized \cup H
    BY <1>1, <2>2 DEF Committed, ActiveTurns
  <2>4. q \in ActiveTurns
    BY <1>1, <2>1, <2>2 DEF Committed, ActiveTurns
  <2> QED BY <1>1, <2>2, <2>3, <2>4
<1>4. active' = [active EXCEPT ![a] = q]
  BY <1>3 DEF StepCommitted, Become
<1>5. shown'[a] = now
  BY <1>1
<1>6. ASSUME NEW n \in Aliases, now[n] # NoGrant
      PROVE  now[n] \in q.authorized \cap DOMAIN pages /\ pages[now[n]] = n
  <2>1. CASE \E g \in H : pages[g] = n
    <3>1. PICK g : g = (CHOOSE h \in H : pages[h] = n)
      OBVIOUS
    <3>2. g \in H /\ pages[g] = n
      BY <2>1, <3>1
    <3>3. now[n] = g
      BY <2>1, <3>1
    <3> HIDE DEF now, pages
    <3> QED BY <1>1, <1>3, <3>2, <3>3
  <2>2. CASE ~\E g \in H : pages[g] = n
    <3>1. now[n] = shown[a][n]
      BY <2>2
    <3> HIDE DEF now
    <3> QED BY <1>1, <1>2, <1>3, <1>6, <3>1 DEF Aliased, Named
  <2> QED BY <2>1, <2>2
<1>7. Named(q, turn'[a], shown'[a], Live(a)')
  <2> HIDE DEF now
  <2> QED BY <1>1, <1>3, <1>5, <1>6 DEF Named
<1>8. \A b \in Agents \ {a} : shown'[b] = shown[b]
  BY <1>1
<1> QED BY <1>1, <1>3, <1>4, <1>7, <1>8, OthersAliased DEF IInv

LEMMA PreStepReturnAliased ==
    ASSUME ~RegistrationMayFail, Aliased, IInv, NEW a \in Agents, PreStepReturn(a)
    PROVE  Aliased'
<1>1. CASE StepRejected(a)
  BY <1>1, RollsBackAliased DEF StepRejected, Returns
<1>2. CASE StepUnmarked(a)
  BY <1>2, RollsBackAliased DEF StepUnmarked, Returns
<1>3. ASSUME NEW H \in SUBSET Grants, StepRefused(a, H) PROVE Aliased'
  BY <1>3, RollsBackAliased DEF StepRefused, Returns
<1>4. ASSUME NEW H \in SUBSET Grants, NEW late \in SUBSET H, StepExpired(a, H, late)
      PROVE  Aliased'
  BY <1>4, RollsBackAliased DEF StepExpired, Returns
<1> QED BY <1>1, <1>2, <1>3, <1>4, CommitAliased DEF PreStepReturn

(* A handler that may end the life of its agent's turn. *)
LEMMA EndingAliased ==
    ASSUME Aliased, IInv, NEW a \in Agents, NEW w, w.cur \in ActiveTurns, Become(a, w),
           UNCHANGED <<turn, shown>>,
           \A b \in Agents \ {a} : phase'[b] = phase[b] /\ aborted'[b] = aborted[b],
           Named(w.cur, turn[a], shown[a], Live(a)')
    PROVE  Aliased'
<1>1. Named(w.cur, turn'[a], shown'[a], Live(a)')
  OBVIOUS
<1> QED BY <1>1, OthersAliased DEF Become, IInv

LEMMA ClosingAliased ==
    ASSUME Aliased, IInv, NEW a \in Agents, ClosingStep(a)
    PROVE  Aliased'
<1>0. /\ phase \in [Agents -> {"idle", "running", "disposed"}]
      /\ aborted \in [Agents -> BOOLEAN]
      /\ WorldOK(a, World(a), claimed) /\ World(a).cur = active[a]
      /\ active[a] \in ActiveTurns
  BY WorldLemma DEF IInv, TypeOK
<1>1. ASSUME NEW t, ~Live(a)'
      PROVE  /\ Named(Cleanup(World(a), a, t).cur, turn[a], shown[a], Live(a)')
             /\ Cleanup(World(a), a, t).cur \in ActiveTurns
  <2>1. Named(World(a).cur, turn[a], shown[a], Live(a))
    BY <1>0 DEF Aliased
  <2>2. PICK now, later \in BOOLEAN : now = Live(a) /\ later = Live(a)' /\ ~later
    BY <1>1 DEF Live
  <2>3. Named(Cleanup(World(a), a, t).cur, turn[a], shown[a], later)
    BY <1>0, <2>1, <2>2, CleanupNamed, SMTT(40)
  <2>4. Cleanup(World(a), a, t).cur \in ActiveTurns
    BY <1>0, CleanupLemma DEF WorldOK, Worlds
  <2> QED BY <2>2, <2>3, <2>4
<1>2. CASE Abort(a)
  <2>1. ~Live(a)' /\ UNCHANGED <<turn, shown, phase>>
        /\ \A b \in Agents \ {a} : aborted'[b] = aborted[b]
    BY <1>0, <1>2 DEF Abort, Live
  <2>2. CASE active[a].listening
    <3>1. Become(a, Cleanup(World(a), a, turn[a]))
      BY <1>2, <2>2 DEF Abort
    <3> QED BY <1>1, <2>1, <3>1, EndingAliased
  <2>3. CASE ~active[a].listening
    <3>1. Become(a, World(a))
      BY <1>2, <2>3 DEF Abort
    <3>2. Named(World(a).cur, turn[a], shown[a], Live(a)')
      BY <1>0, <2>1 DEF Aliased, Named
    <3> QED BY <1>0, <2>1, <3>1, <3>2, EndingAliased
  <2> QED BY <2>2, <2>3
<1>3. CASE TurnEnd(a)
  <2>1. /\ ~Live(a)' /\ UNCHANGED <<turn, shown, aborted>>
        /\ \A b \in Agents \ {a} : phase'[b] = phase[b]
        /\ Become(a, Cleanup(World(a), a, turn[a]))
    BY <1>0, <1>3 DEF TurnEnd, Live
  <2> QED BY <1>1, <2>1, EndingAliased
<1>4. CASE Dispose(a)
  <2>1. /\ ~Live(a)' /\ UNCHANGED <<turn, shown, aborted>>
        /\ \A b \in Agents \ {a} : phase'[b] = phase[b]
        /\ Become(a, Cleanup(World(a), a, active[a].turn))
    BY <1>0, <1>4 DEF Dispose, Live
  <2> QED BY <1>1, <2>1, EndingAliased
<1>5. CASE TurnLost(a)
  <2>1. /\ ~Live(a)' /\ UNCHANGED <<turn, shown, aborted, active>>
        /\ \A b \in Agents \ {a} : phase'[b] = phase[b]
    BY <1>0, <1>5 DEF TurnLost, Live
  <2>2. Named(active[a], turn'[a], shown'[a], Live(a)')
    BY <2>1 DEF Aliased, Named
  <2>3. active' = [active EXCEPT ![a] = active[a]]
    BY <2>1 DEF IInv, TypeOK
  <2> QED BY <1>0, <2>1, <2>2, <2>3, OthersAliased DEF IInv
<1> QED BY <1>2, <1>3, <1>4, <1>5 DEF ClosingStep

LEMMA StartAliased ==
    ASSUME Aliased, IInv, NEW a \in Agents, StartTurn(a)
    PROVE  Aliased'
<1>1. /\ shown'[a] = NothingShown /\ active' = [active EXCEPT ![a] = active[a]]
      /\ active[a] \in ActiveTurns
      /\ \A b \in Agents \ {a} : /\ turn'[b] = turn[b] /\ shown'[b] = shown[b]
                                 /\ phase'[b] = phase[b] /\ aborted'[b] = aborted[b]
  BY DEF StartTurn, IInv, TypeOK
<1>2. \A n \in Aliases : shown'[a][n] = NoGrant
  BY <1>1 DEF NothingShown
<1>3. Named(active[a], turn'[a], shown'[a], Live(a)')
  BY <1>2 DEF Aliased, Named
<1> QED BY <1>1, <1>3, OthersAliased DEF IInv

(* Whoever is told of an alias finds the page under it. *)
LEMMA NextAliased ==
    ASSUME ~RegistrationMayFail, IInv, Aliased, [Next]_vars
    PROVE  Aliased'
<1>1. ASSUME UNCHANGED <<active, turn, shown, phase, aborted>> PROVE Aliased'
  BY <1>1 DEF Aliased, Live
<1>2. CASE ProviderStep \/ UNCHANGED vars
  BY <1>1, <1>2 DEF ProviderStep, Offer, Expire, ProviderRevoke, Disconnect, Reconnect,
                    hostVars, vars
<1>3. CASE DisposeAll
  <2>1. ASSUME NEW a \in Agents
        PROVE  active'[a] = NoTurn /\ ~Live(a)'
    BY <1>3 DEF DisposeAll, Live
  <2>2. ASSUME NEW a \in Agents
        PROVE  Named(active'[a], turn'[a], shown'[a], Live(a)')
    BY <2>1, NoTurnLemma DEF Named, Distinct
  <2> QED BY <2>2 DEF Aliased
<1>4. ASSUME NEW a \in Agents, AgentStep(a) PROVE Aliased'
  <2>1. CASE PreStepBegin(a)
    <3>1. /\ Become(a, AtBoundary(a)) /\ UNCHANGED <<turn, phase, aborted, shown>>
      BY <2>1 DEF PreStepBegin
    <3> QED BY <3>1, BoundaryNamed, SilentAliased
  <2> QED BY <1>4, <2>1, StartAliased, ClaimAliased, PreStepReturnAliased, ClosingAliased
          DEF AgentStep
<1> QED BY <1>2, <1>3, <1>4 DEF Next

(* Pages of a turn are numbered apart, and an alias the model was told of  *)
(* keeps naming its page until the turn is over.  Where a registration can *)
(* fail the turn can be closed while it runs, and numbering starts again.  *)
THEOREM AliasStableCorrect ==
    ASSUME ~RegistrationMayFail
    PROVE  Spec => []AliasStable
<1>1. Init => Aliased
  <2>1. ASSUME Init, NEW a \in Agents
        PROVE  Named(active[a], turn[a], shown[a], Live(a))
    BY <2>1, NoTurnLemma DEF Init, Named, Distinct, Live
  <2> QED BY <2>1 DEF Aliased
<1>2. IInv /\ Aliased /\ [Next]_vars => Aliased'
  BY NextAliased
<1>3. IInv /\ Aliased => AliasStable
  <2> SUFFICES ASSUME IInv, Aliased, NEW a \in Agents
               PROVE  /\ Distinct(active[a].pages)
                      /\ active[a].turn = turn[a] =>
                           \A g \in DOMAIN active[a].pages :
                              shown[a][active[a].pages[g]] \in {NoGrant, g}
    BY DEF AliasStable, Distinct
  <2>1. Named(active[a], turn[a], shown[a], Live(a))
    BY DEF Aliased
  <2>2. active[a].turn = 0 => DOMAIN active[a].pages = {}
    BY NoTurnLemma DEF IInv, AgentsOK, AgentOK
  <2>3. \A g \in DOMAIN active[a].pages : active[a].pages[g] \in Aliases
    BY DEF IInv, TypeOK, ActiveTurns, PageMaps
  <2> QED BY <2>1, <2>2, <2>3 DEF Named, Distinct
<1> QED BY <1>1, <1>2, <1>3, SpecIInv, PTL DEF Spec
=============================================================================
