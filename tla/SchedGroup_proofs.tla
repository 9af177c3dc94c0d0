-------------------------- MODULE SchedGroup_proofs --------------------------
(***************************************************************************)
(* Theorems about the task groups, for every set of tasks and groups.  The *)
(* lists are described without counting: each list is linked both ways,    *)
(* and no set of its tasks is closed under going back, so that whoever     *)
(* goes back from a task comes to the head.                                *)
(***************************************************************************)
EXTENDS SchedGroup, TLAPS

Links == [Nodes -> Nodes \cup {Poison}]

\* The tasks of O and the head g are linked by n and p: what follows a node is
\* one of them, and so is what comes before; no tasks are linked among
\* themselves alone.
Ring(O, g, n, p) ==
    /\ \A x \in O \cup {g} : /\ n[x] \in O \cup {g} /\ p[n[x]] = x
                             /\ p[x] \in O \cup {g} /\ n[p[x]] = x
    /\ \A S \in SUBSET O : S # {} => \E x \in S : p[x] \notin S

\* The task an ioctl has off every list.
InHand == IF op.kind \in {"attach", "attach2"} THEN {op.t}
          ELSE IF op.kind = "move" THEN {op.pos} ELSE {}

\* The tasks on the list of a group.
On(g) == {t \in Tasks \ InHand : tg[t] = g /\ state[t] = "running"}

\* Where the ioctl in progress stands: a walk is always at the first task.
OpInv ==
    /\ op.kind \in {"none", "attach", "attach2", "walk", "move"}
    /\ op.kind = "none" => op = NoOp
    /\ op.kind \in {"attach", "attach2"} =>
          /\ op.t \in Tasks /\ state[op.t] = "running"
          /\ op.to \in Groups \cup {InitGroup}
          /\ op.to # InitGroup => group[op.to] = "live"
    /\ op.kind \in {"walk", "move"} => op.to \in Groups /\ group[op.to] = "live"
    /\ op.kind = "attach2" => tg[op.t] = op.to
    /\ op.kind = "walk" => op.pos = next[op.to] /\ op.n = next[op.pos]
    /\ op.kind = "move" =>
          /\ op.pos \in Tasks /\ state[op.pos] = "running" /\ tg[op.pos] = op.to
          /\ op.n = next[op.to]

ListsInv == \A g \in Groups : group[g] = "live" => Ring(On(g), g, next, prev)

TasksInv ==
    \A t \in Tasks : state[t] = "running" /\ tg[t] # InitGroup => group[tg[t]] = "live"

\* While none of the situations has come up.
ListInv == ~oops /\ OpInv /\ ListsInv /\ TasksInv

\* What an operation is a record of.
Operation == [kind : {"none", "attach", "attach2", "walk", "move"},
              t : Tasks \cup {InitGroup}, to : Groups \cup {InitGroup},
              pos : Nodes \cup {Poison}, n : Nodes \cup {Poison}]

OpTyped == op \in Operation /\ (op.kind \in {"attach", "attach2"} => op.t \in Tasks)

GroupInv == TypeOK /\ OpTyped /\ (met = {} => ListInv)

-----------------------------------------------------------------------------
(* Rings. *)

\* A task leaves a ring.
LEMMA Unlink ==
    ASSUME NEW O \in SUBSET Tasks, NEW g \in Groups, NEW n \in Links, NEW p \in Links,
           NEW x \in O, Ring(O, g, n, p)
    PROVE  /\ n[x] \in (O \cup {g}) \ {x}
           /\ p[x] \in (O \cup {g}) \ {x}
           /\ Ring(O \ {x}, g, [n EXCEPT ![p[x]] = n[x], ![x] = Poison],
                               [p EXCEPT ![n[x]] = p[x], ![x] = Poison])
<1> DEFINE m == [n EXCEPT ![p[x]] = n[x], ![x] = Poison]
           q == [p EXCEPT ![n[x]] = p[x], ![x] = Poison]
<1>1. g \notin O /\ x # g /\ O \cup {g} \subseteq Nodes
  BY GroupAssumption DEF Nodes
<1>2. \A y \in O \cup {g} : /\ n[y] \in O \cup {g} /\ p[n[y]] = y
                            /\ p[y] \in O \cup {g} /\ n[p[y]] = y
  BY DEF Ring
<1>3. \A S \in SUBSET O : S # {} => \E y \in S : p[y] \notin S
  BY DEF Ring
<1>4. p[x] # x
  BY <1>3, {x} \in SUBSET O
<1>5. n[x] # x
  BY <1>2, <1>4
<1>6. \A y \in (O \cup {g}) \ {x} :
         /\ m[y] = IF y = p[x] THEN n[x] ELSE n[y]
         /\ q[y] = IF y = n[x] THEN p[x] ELSE p[y]
  BY <1>1, <1>2 DEF Links
<1> HIDE DEF m, q
<1>7. ASSUME NEW y \in (O \ {x}) \cup {g}
      PROVE  /\ m[y] \in (O \ {x}) \cup {g} /\ q[m[y]] = y
             /\ q[y] \in (O \ {x}) \cup {g} /\ m[q[y]] = y
  <2>1. y \in (O \cup {g}) \ {x}
    BY <1>1, <1>7
  <2>2. m[y] \in (O \cup {g}) \ {x} /\ q[m[y]] = y
    BY <1>2, <1>4, <1>5, <1>6, <2>1
  <2>3. q[y] \in (O \cup {g}) \ {x} /\ m[q[y]] = y
    BY <1>2, <1>4, <1>5, <1>6, <2>1
  <2> QED
    BY <1>1, <2>2, <2>3
<1>8. ASSUME NEW S \in SUBSET (O \ {x}), S # {}, \A y \in S : q[y] \in S
      PROVE  FALSE
  <2>1. CASE n[x] \in S
    <3>1. p[x] \in S
      BY <1>1, <1>2, <1>5, <1>6, <1>8, <2>1
    <3>2. \A y \in S \cup {x} : p[y] \in S \cup {x}
      BY <1>1, <1>2, <1>6, <1>8, <3>1
    <3>3. S \cup {x} \in SUBSET O
      OBVIOUS
    <3> QED
      BY <1>3, <3>2, <3>3
  <2>2. CASE n[x] \notin S
    <3>1. \A y \in S : p[y] \in S
      BY <1>1, <1>6, <1>8, <2>2
    <3>2. S \in SUBSET O
      OBVIOUS
    <3> QED
      BY <1>3, <1>8, <3>1, <3>2
  <2> QED
    BY <2>1, <2>2
<1>9. Ring(O \ {x}, g, m, q)
  BY <1>7, <1>8 DEF Ring
<1> QED
  BY <1>1, <1>2, <1>4, <1>5, <1>9 DEF m, q

\* A task joins a ring behind its head.
LEMMA Link ==
    ASSUME NEW O \in SUBSET Tasks, NEW g \in Groups, NEW n \in Links, NEW p \in Links,
           NEW x \in Tasks \ O, Ring(O, g, n, p)
    PROVE  Ring(O \cup {x}, g, [n EXCEPT ![g] = x, ![x] = n[g]],
                               [p EXCEPT ![n[g]] = x, ![x] = g])
<1> DEFINE m == [n EXCEPT ![g] = x, ![x] = n[g]]
           q == [p EXCEPT ![n[g]] = x, ![x] = g]
<1>1. g \notin O /\ x # g /\ O \cup {g, x} \subseteq Nodes
  BY GroupAssumption DEF Nodes
<1>2. \A y \in O \cup {g} : /\ n[y] \in O \cup {g} /\ p[n[y]] = y
                            /\ p[y] \in O \cup {g} /\ n[p[y]] = y
  BY DEF Ring
<1>3. \A S \in SUBSET O : S # {} => \E y \in S : p[y] \notin S
  BY DEF Ring
<1>4. \A y \in O \cup {g, x} :
         /\ m[y] = IF y = x THEN n[g] ELSE IF y = g THEN x ELSE n[y]
         /\ q[y] = IF y = x THEN g ELSE IF y = n[g] THEN x ELSE p[y]
  BY <1>1, <1>2 DEF Links
<1> HIDE DEF m, q
<1>5. \A y \in O \cup {g, x} : /\ m[y] \in O \cup {g, x} /\ q[m[y]] = y
                               /\ q[y] \in O \cup {g, x} /\ m[q[y]] = y
  BY <1>1, <1>2, <1>4
<1>6. ASSUME NEW S \in SUBSET (O \cup {x}), S # {}, \A y \in S : q[y] \in S
      PROVE  FALSE
  <2>1. x \notin S
    BY <1>1, <1>4, <1>6
  <2>2. \A y \in S : p[y] \in S
    BY <1>4, <1>6, <2>1
  <2> QED
    BY <1>3, <1>6, <2>1, <2>2
<1>7. Ring(O \cup {x}, g, m, q)
  BY <1>5, <1>6 DEF Ring
<1> QED
  BY <1>7 DEF m, q

\* What happens elsewhere leaves a ring alone.
LEMMA Elsewhere ==
    ASSUME NEW O, NEW g, NEW n, NEW p, NEW m, NEW q, Ring(O, g, n, p),
           \A x \in O \cup {g} : m[x] = n[x] /\ q[x] = p[x]
    PROVE  Ring(O, g, m, q)
BY DEF Ring

\* The list of a new group.
LEMMA NewRing ==
    ASSUME NEW g, NEW n, NEW p, n[g] = g, p[g] = g
    PROVE  Ring({}, g, n, p)
BY DEF Ring

\* A ring whose head is followed by itself has no tasks.
LEMMA EmptyRing ==
    ASSUME NEW O \in SUBSET Tasks, NEW g \in Groups, NEW n, NEW p,
           Ring(O, g, n, p), n[g] = g
    PROVE  O = {}
<1>1. g \notin O
  BY GroupAssumption
<1>2. \A x \in O : p[x] \in O
  <2> SUFFICES ASSUME NEW x \in O PROVE p[x] # g
    BY DEF Ring
  <2> QED
    BY <1>1 DEF Ring
<1> QED
  BY <1>2 DEF Ring

\* A walk from the head comes to all tasks of a ring and to no other.
LEMMA WalkReaches ==
    ASSUME NEW O \in SUBSET Tasks, NEW g \in Groups, NEW n, NEW p, Ring(O, g, n, p)
    PROVE  O = {t \in Tasks : \A S \in SUBSET Tasks :
                   (\A x \in S \cup {g} : n[x] \in Tasks => n[x] \in S) => t \in S}
<1>1. g \notin O /\ g \notin Tasks
  BY GroupAssumption
<1>2. ASSUME NEW S \in SUBSET Tasks, \A x \in S \cup {g} : n[x] \in Tasks => n[x] \in S
      PROVE  O \subseteq S
  <2> SUFFICES ASSUME O \ S # {} PROVE FALSE
    OBVIOUS
  <2>1. PICK x \in O \ S : p[x] \notin O \ S
    BY DEF Ring
  <2>2. p[x] \in S \cup {g} /\ n[p[x]] = x
    BY <2>1 DEF Ring
  <2> QED
    BY <1>2, <2>2
<1>3. \A x \in O \cup {g} : n[x] \in Tasks => n[x] \in O
  BY <1>1 DEF Ring
<1> QED
  BY <1>2, <1>3

-----------------------------------------------------------------------------
(* Types. *)

LEMMA LinksTyped ==
    ASSUME next \in Links, prev \in Links, oops \in BOOLEAN, NEW x \in Tasks
    PROVE  /\ list_del(x) => next' \in Links /\ prev' \in Links /\ oops' \in BOOLEAN
           /\ \A head \in Groups :
                 list_add(x, head) => next' \in Links /\ prev' \in Links /\ oops' \in BOOLEAN
<1>1. x \in Nodes /\ Groups \subseteq Nodes
  BY DEF Nodes
<1>2. ASSUME list_del(x)
      PROVE  next' \in Links /\ prev' \in Links /\ oops' \in BOOLEAN
  BY <1>1, <1>2 DEF list_del, Links, links
<1>3. ASSUME NEW head \in Groups, list_add(x, head)
      PROVE  next' \in Links /\ prev' \in Links /\ oops' \in BOOLEAN
  BY <1>1, <1>3 DEF list_add, Links, links
<1> QED
  BY <1>2, <1>3

LEMMA WalkTyped ==
    ASSUME next \in Links, oops \in BOOLEAN, OpTyped, NEW pos \in Nodes \cup {Poison}, Walk(pos)
    PROVE  OpTyped' /\ oops' \in BOOLEAN
<1>1. Sound(pos) => next[pos] \in Nodes \cup {Poison}
  BY DEF Sound, Links
<1> QED
  BY <1>1 DEF Walk, OpTyped, Operation

LEMMA NoOpTyped == NoOp \in Operation /\ NoOp.kind = "none"
  BY DEF NoOp, Operation

LEMMA TypedInit == Init => TypeOK /\ OpTyped
<1> SUFFICES ASSUME Init PROVE TypeOK /\ OpTyped
  OBVIOUS
<1>1. OpTyped
  BY NoOpTyped DEF Init, OpTyped
<1>2. TypeOK
  BY DEF Init, TypeOK
<1> QED
  BY <1>1, <1>2

LEMMA TypedNext == TypeOK /\ OpTyped /\ [Next]_vars => TypeOK' /\ OpTyped'
<1> SUFFICES ASSUME TypeOK, OpTyped, [Next]_vars
             PROVE  TypeOK' /\ OpTyped'
  OBVIOUS
<1>0. /\ next \in Links /\ prev \in Links /\ oops \in BOOLEAN
      /\ Groups \subseteq Nodes /\ Tasks \subseteq Nodes
  BY DEF TypeOK, Links, Nodes
<1>1. ASSUME NEW g \in Groups, sched_create_group(g)
      PROVE  TypeOK' /\ OpTyped'
  BY <1>0, <1>1 DEF sched_create_group, TypeOK, OpTyped, Operation, Links
<1>2. ASSUME NEW t \in Tasks, NEW g \in Groups \cup {InitGroup}, attach_begin(t, g)
      PROVE  TypeOK' /\ OpTyped'
  <2>1. next' \in Links /\ prev' \in Links /\ oops' \in BOOLEAN
    BY <1>0, <1>2, LinksTyped DEF attach_begin, links
  <2>2. OpTyped'
    BY <1>2, NoOpTyped DEF attach_begin, OpTyped, Operation
  <2>3. met' \subseteq Situations
    BY <1>2 DEF attach_begin, Meet, TypeOK
  <2> QED
    BY <1>2, <2>1, <2>2, <2>3 DEF attach_begin, TypeOK, Links
<1>3. CASE attach_point
  BY <1>3 DEF attach_point, TypeOK, OpTyped, Operation, links
<1>4. CASE attach_end
  <2>1. next' \in Links /\ prev' \in Links /\ oops' \in BOOLEAN
    <3>1. CASE op.to = InitGroup
      BY <1>0, <1>4, <3>1 DEF attach_end, links
    <3>2. CASE op.to # InitGroup
      <4>1. op.to \in Groups /\ op.t \in Tasks
        BY <1>4, <3>2 DEF attach_end, OpTyped, Operation
      <4> QED
        BY <1>0, <1>4, <3>2, <4>1, LinksTyped DEF attach_end
    <3> QED
      BY <3>1, <3>2
  <2> QED
    BY <1>4, <2>1, NoOpTyped DEF attach_end, TypeOK, OpTyped, Operation, Links
<1>5. ASSUME NEW g \in Groups, destroy_begin(g)
      PROVE  TypeOK' /\ OpTyped'
  <2>1. OpTyped'
    <3>1. next[g] \in Nodes \cup {Poison}
      BY <1>0 DEF Links
    <3>2. Sound(next[g]) => next[next[g]] \in Nodes \cup {Poison}
      BY <1>0, <3>1 DEF Links, Sound
    <3> QED
      BY <1>5, <3>1, <3>2, NoOpTyped DEF destroy_begin, OpTyped, Operation
  <2>2. met' \subseteq Situations /\ oops' \in BOOLEAN
    BY <1>5 DEF destroy_begin, Meet, TypeOK
  <2> QED
    BY <1>5, <2>1, <2>2 DEF destroy_begin, TypeOK, links
<1>6. CASE destroy_unlink
  <2>1. next' \in Links /\ prev' \in Links /\ oops' \in BOOLEAN
    BY <1>0, <1>6, LinksTyped DEF destroy_unlink, links
  <2> QED
    BY <1>6, <2>1 DEF destroy_unlink, TypeOK, OpTyped, Operation, Links
<1>7. CASE destroy_move
  <2>1. OpTyped' /\ oops' \in BOOLEAN
    <3>1. op.n \in Nodes \cup {Poison}
      BY DEF OpTyped, Operation
    <3> QED
      BY <1>0, <1>7, <3>1, WalkTyped DEF destroy_move
  <2> QED
    BY <1>7, <2>1 DEF destroy_move, TypeOK, links
<1>8. CASE destroy_end
  BY <1>8, NoOpTyped DEF destroy_end, TypeOK, OpTyped, Operation, links
<1>9. ASSUME NEW t \in Tasks, NEW child \in Tasks, fork(t, child)
      PROVE  TypeOK' /\ OpTyped'
  <2>1. met' \subseteq Situations
    BY <1>9 DEF fork, Meet, TypeOK
  <2> QED
    BY <1>0, <1>9, <2>1 DEF fork, TypeOK, OpTyped, Operation, Links
<1>10. ASSUME NEW t \in Tasks, exit_begin(t)
       PROVE  TypeOK' /\ OpTyped'
  <2>1. next' \in Links /\ prev' \in Links /\ oops' \in BOOLEAN
    BY <1>0, <1>10, LinksTyped DEF exit_begin, links
  <2>2. state' \in [Tasks -> {"unborn", "running", "leaving", "exiting", "dead"}]
    BY <1>10 DEF exit_begin, TypeOK
  <2>3. met' \subseteq Situations
    BY <1>10 DEF exit_begin, Meet, TypeOK
  <2> QED
    BY <1>10, <2>1, <2>2, <2>3 DEF exit_begin, TypeOK, OpTyped, Operation, Links
<1>11. ASSUME NEW t \in Tasks, exit_point(t)
       PROVE  TypeOK' /\ OpTyped'
  BY <1>11 DEF exit_point, Meet, TypeOK, OpTyped, Operation, links
<1>12. ASSUME NEW t \in Tasks, reap(t)
       PROVE  TypeOK' /\ OpTyped'
  BY <1>12 DEF reap, TypeOK, OpTyped, Operation, links
<1>13. CASE UNCHANGED vars
  BY <1>13 DEF vars, TypeOK, OpTyped, Operation, links
<1> QED
  BY <1>1, <1>2, <1>3, <1>4, <1>5, <1>6, <1>7, <1>8, <1>9, <1>10, <1>11, <1>12, <1>13
     DEF Next, Attachment, Destruction

-----------------------------------------------------------------------------
(* What the operations on lists do to the rings. *)

LEMMA ListFacts ==
    ASSUME TypeOK, OpTyped, ListInv, NEW g \in Groups, group[g] = "live"
    PROVE  /\ On(g) \in SUBSET Tasks /\ Ring(On(g), g, next, prev)
           /\ \A x \in On(g) \cup {g} : Sound(x) /\ Sound(next[x]) /\ Sound(prev[x])
<1>1. On(g) \in SUBSET Tasks /\ Ring(On(g), g, next, prev)
  BY DEF ListInv, ListsInv, On
<1>2. \A x \in On(g) \cup {g} : Sound(x)
  BY GroupAssumption DEF On, Sound
<1>3. \A x \in On(g) \cup {g} : next[x] \in On(g) \cup {g} /\ prev[x] \in On(g) \cup {g}
  BY <1>1 DEF Ring
<1> QED
  BY <1>1, <1>2, <1>3

\* A task that is on a list leaves it, and no other list changes.
LEMMA Delisted ==
    ASSUME TypeOK, OpTyped, ListInv, NEW g \in Groups, NEW x \in On(g), list_del(x)
    PROVE  /\ ~oops' /\ group[g] = "live"
           /\ Ring(On(g) \ {x}, g, next', prev')
           /\ \A h \in Groups \ {g} :
                 group[h] = "live" => Ring(On(h), h, next', prev')
<1>1. x \in Tasks /\ tg[x] = g /\ state[x] = "running"
  BY DEF On
<1>2. g # InitGroup /\ group[g] = "live"
  BY <1>1, GroupAssumption DEF ListInv, TasksInv
<1>3. On(g) \in SUBSET Tasks /\ Ring(On(g), g, next, prev) /\ next \in Links /\ prev \in Links
  BY <1>2, ListFacts DEF TypeOK, Links
<1>4. Sound(next[x]) /\ Sound(prev[x])
  BY <1>2, ListFacts
<1>5. /\ next' = [next EXCEPT ![prev[x]] = next[x], ![x] = Poison]
      /\ prev' = [prev EXCEPT ![next[x]] = prev[x], ![x] = Poison]
      /\ oops' = oops
  BY <1>4 DEF list_del
<1>6. /\ next[x] \in On(g) \cup {g} /\ prev[x] \in On(g) \cup {g}
      /\ Ring(On(g) \ {x}, g, next', prev')
  BY <1>3, <1>5, Unlink
<1>7. ASSUME NEW h \in Groups \ {g}, group[h] = "live"
      PROVE  Ring(On(h), h, next', prev')
  <2>1. \A y \in On(h) \cup {h} : y \notin On(g) \cup {g}
    BY GroupAssumption DEF On
  <2>2. On(h) \cup {h} \subseteq Nodes
    BY DEF On, Nodes
  <2>3. \A y \in On(h) \cup {h} : next'[y] = next[y] /\ prev'[y] = prev[y]
    BY <1>3, <1>5, <1>6, <2>1, <2>2 DEF Links
  <2>4. Ring(On(h), h, next, prev)
    BY <1>7, ListFacts
  <2> QED
    BY <2>3, <2>4, Elsewhere
<1> QED
  BY <1>2, <1>5, <1>6, <1>7 DEF ListInv

\* A task that is on no list joins one, and no other list changes.
LEMMA Enlisted ==
    ASSUME TypeOK, OpTyped, ListInv, NEW g \in Groups, group[g] = "live",
           NEW x \in Tasks, \A h \in Groups : x \notin On(h), list_add(x, g)
    PROVE  /\ ~oops'
           /\ Ring(On(g) \cup {x}, g, next', prev')
           /\ \A h \in Groups \ {g} :
                 group[h] = "live" => Ring(On(h), h, next', prev')
<1>1. On(g) \in SUBSET Tasks /\ Ring(On(g), g, next, prev) /\ next \in Links /\ prev \in Links
  BY ListFacts DEF TypeOK, Links
<1>2. Sound(g) /\ Sound(next[g])
  BY ListFacts
<1>3. /\ next' = [next EXCEPT ![g] = x, ![x] = next[g]]
      /\ prev' = [prev EXCEPT ![next[g]] = x, ![x] = g]
      /\ oops' = oops
  BY <1>2 DEF list_add
<1>4. next[g] \in On(g) \cup {g}
  BY <1>1 DEF Ring
<1>5. Ring(On(g) \cup {x}, g, next', prev')
  <2>1. x \in Tasks \ On(g)
    OBVIOUS
  <2> QED
    BY <1>1, <1>3, <2>1, Link
<1>6. ASSUME NEW h \in Groups \ {g}, group[h] = "live"
      PROVE  Ring(On(h), h, next', prev')
  <2>1. \A y \in On(h) \cup {h} : y \notin On(g) \cup {g, x}
    BY GroupAssumption DEF On
  <2>2. On(h) \cup {h} \subseteq Nodes
    BY DEF On, Nodes
  <2>3. \A y \in On(h) \cup {h} : next'[y] = next[y] /\ prev'[y] = prev[y]
    BY <1>1, <1>3, <1>4, <2>1, <2>2 DEF Links
  <2>4. Ring(On(h), h, next, prev)
    BY <1>6, ListFacts
  <2> QED
    BY <2>3, <2>4, Elsewhere
<1> QED
  BY <1>3, <1>5, <1>6 DEF ListInv

\* When what is on a list does not change and no link of it does, it is right.
LEMMA ListsKept ==
    ASSUME ListInv,
           \A g \in Groups : group'[g] = "live" =>
               /\ group[g] = "live"
               /\ On(g)' = On(g)
               /\ \A x \in On(g) \cup {g} : next'[x] = next[x] /\ prev'[x] = prev[x]
    PROVE  ListsInv'
<1> SUFFICES ASSUME NEW g \in Groups, group'[g] = "live"
             PROVE  Ring(On(g)', g, next', prev')
  BY DEF ListsInv
<1>1. Ring(On(g), g, next', prev')
  BY Elsewhere DEF ListInv, ListsInv
<1> QED
  BY <1>1

LEMMA ListInit == Init => ListInv
<1> SUFFICES ASSUME Init PROVE ListInv
  OBVIOUS
<1>1. OpInv
  BY DEF Init, OpInv, NoOp
<1>2. \A g \in Groups : group[g] # "live"
  BY DEF Init
<1>3. \A t \in Tasks : tg[t] = InitGroup
  BY DEF Init
<1> QED
  BY <1>1, <1>2, <1>3 DEF Init, ListInv, ListsInv, TasksInv

\* Whatever happens in the middle of a call that is not a part of it is one of
\* the situations, and so is the use of a group that is gone.
LEMMA NotMet ==
    ASSUME NEW situation, NEW happens \in BOOLEAN, Meet(When(situation, happens)), met' = {}
    PROVE  met = {} /\ ~happens
BY DEF Meet, When

-----------------------------------------------------------------------------
(* Each step keeps the invariant, as long as it is none of the situations. *)

LEMMA CreateStep ==
    ASSUME TypeOK, OpTyped, ListInv, NEW g \in Groups, sched_create_group(g)
    PROVE  ListInv'
<1>1. On(g) = {}
  BY GroupAssumption DEF On, sched_create_group, ListInv, TasksInv
<1>2. /\ next' = [next EXCEPT ![g] = g] /\ prev' = [prev EXCEPT ![g] = g]
      /\ group' = [group EXCEPT ![g] = "live"] /\ op = NoOp /\ op' = NoOp
      /\ UNCHANGED <<state, tg, oops>>
  BY DEF sched_create_group
<1>3. next \in Links /\ prev \in Links /\ g \in Nodes
  BY DEF TypeOK, Links, Nodes
<1>4. ASSUME NEW h \in Groups, group'[h] = "live"
      PROVE  Ring(On(h)', h, next', prev')
  <2>1. On(h)' = On(h)
    BY <1>2 DEF On, InHand, NoOp
  <2>2. CASE h = g
    <3>1. next'[g] = g /\ prev'[g] = g
      BY <1>2, <1>3 DEF Links
    <3> QED
      BY <1>1, <2>1, <2>2, <3>1, NewRing
  <2>3. CASE h # g
    <3>1. group[h] = "live"
      BY <1>2, <1>4, <2>3 DEF TypeOK
    <3>2. Ring(On(h), h, next, prev)
      BY <3>1, ListFacts
    <3>3. \A y \in On(h) \cup {h} : next'[y] = next[y] /\ prev'[y] = prev[y]
      BY <1>2, <1>3, <2>3, GroupAssumption DEF On, Links, Nodes
    <3> QED
      BY <2>1, <3>2, <3>3, Elsewhere
  <2> QED
    BY <2>2, <2>3
<1>5. OpInv'
  BY <1>2 DEF OpInv, NoOp
<1>6. TasksInv'
  BY <1>2 DEF ListInv, TasksInv, TypeOK
<1> QED
  BY <1>2, <1>4, <1>5, <1>6 DEF ListInv, ListsInv

LEMMA AttachBeginStep ==
    ASSUME TypeOK, OpTyped, ListInv, NEW t \in Tasks, NEW g \in Groups \cup {InitGroup},
           attach_begin(t, g), met' = {}
    PROVE  ListInv'
<1>1. g # InitGroup => group[g] = "live"
  BY NotMet DEF attach_begin, TypeOK
<1>2. /\ op = NoOp /\ state[t] = "running"
      /\ op' = [NoOp EXCEPT !.kind = "attach", !.t = t, !.to = g]
      /\ UNCHANGED <<state, tg, group>>
  BY DEF attach_begin
<1>3. InHand = {} /\ InHand' = {t}
  BY <1>2 DEF InHand, NoOp
<1>4. \A h \in Groups : On(h)' = On(h) \ {t}
  BY <1>2, <1>3 DEF On
<1>5. OpInv'
  BY <1>1, <1>2 DEF OpInv, NoOp
<1>6. TasksInv'
  BY <1>2 DEF ListInv, TasksInv
<1>7. ~oops' /\ ListsInv'
  <2>1. CASE tg[t] = InitGroup
    <3>1. UNCHANGED <<links, oops>>
      BY <2>1 DEF attach_begin
    <3>2. \A h \in Groups : On(h)' = On(h)
      BY <1>4, <2>1, GroupAssumption DEF On
    <3> QED
      BY <1>2, <3>1, <3>2, ListsKept DEF links, ListInv
  <2>2. CASE tg[t] # InitGroup
    <3>1. tg[t] \in Groups /\ t \in On(tg[t]) /\ list_del(t)
      BY <1>2, <1>3, <2>2 DEF attach_begin, On, TypeOK
    <3>2. /\ ~oops'
          /\ Ring(On(tg[t]) \ {t}, tg[t], next', prev')
          /\ \A h \in Groups \ {tg[t]} : group[h] = "live" => Ring(On(h), h, next', prev')
      BY <3>1, Delisted
    <3>3. \A h \in Groups \ {tg[t]} : On(h)' = On(h)
      BY <1>4 DEF On
    <3> QED
      BY <1>2, <1>4, <3>2, <3>3 DEF ListsInv
  <2> QED
    BY <2>1, <2>2
<1> QED
  BY <1>5, <1>6, <1>7 DEF ListInv

LEMMA AttachPointStep ==
    ASSUME TypeOK, OpTyped, ListInv, attach_point
    PROVE  ListInv'
<1>1. /\ op.kind = "attach" /\ op' = [op EXCEPT !.kind = "attach2"]
      /\ tg' = [tg EXCEPT ![op.t] = op.to]
      /\ UNCHANGED <<state, group, links, oops>>
  BY DEF attach_point
<1>2. /\ op.t \in Tasks /\ state[op.t] = "running" /\ op.to \in Groups \cup {InitGroup}
      /\ op.to # InitGroup => group[op.to] = "live"
  BY <1>1 DEF ListInv, OpInv
<1>3. op'.kind = "attach2" /\ op'.t = op.t /\ op'.to = op.to
  BY <1>1 DEF OpTyped, Operation
<1>4. tg'[op.t] = op.to /\ \A t \in Tasks \ {op.t} : tg'[t] = tg[t]
  BY <1>1, <1>2 DEF TypeOK
<1>5. InHand = {op.t} /\ InHand' = {op.t}
  BY <1>1, <1>3 DEF InHand
<1>6. \A h \in Groups : On(h)' = On(h)
  BY <1>1, <1>4, <1>5 DEF On
<1>7. OpInv'
  BY <1>1, <1>2, <1>3, <1>4 DEF OpInv
<1>8. TasksInv'
  BY <1>1, <1>2, <1>4 DEF ListInv, TasksInv
<1>9. ListsInv'
  BY <1>1, <1>6, ListsKept DEF links
<1> QED
  BY <1>1, <1>7, <1>8, <1>9 DEF ListInv

LEMMA AttachEndStep ==
    ASSUME TypeOK, OpTyped, ListInv, attach_end
    PROVE  ListInv'
<1>1. op.kind = "attach2" /\ op' = NoOp /\ UNCHANGED <<state, tg, group>>
  BY DEF attach_end
<1>2. /\ op.t \in Tasks /\ state[op.t] = "running" /\ op.to \in Groups \cup {InitGroup}
      /\ op.to # InitGroup => group[op.to] = "live"
      /\ tg[op.t] = op.to
  BY <1>1 DEF ListInv, OpInv
<1>3. InHand = {op.t} /\ InHand' = {}
  BY <1>1 DEF InHand, NoOp
<1>4. OpInv'
  BY <1>1 DEF OpInv, NoOp
<1>5. TasksInv'
  BY <1>1 DEF ListInv, TasksInv
<1>6. ~oops' /\ ListsInv'
  <2>1. CASE op.to = InitGroup
    <3>1. UNCHANGED <<links, oops>>
      BY <2>1 DEF attach_end
    <3>2. \A h \in Groups : On(h)' = On(h)
      BY <1>1, <1>2, <1>3, <2>1, GroupAssumption DEF On
    <3> QED
      BY <1>1, <3>1, <3>2, ListsKept DEF links, ListInv
  <2>2. CASE op.to # InitGroup
    <3>1. PICK g \in Groups, x \in Tasks :
                g = op.to /\ group[g] = "live" /\ x = op.t /\ list_add(x, g)
      BY <1>2, <2>2 DEF attach_end
    <3>2. \A h \in Groups : x \notin On(h)
      BY <1>3, <3>1 DEF On
    <3>3. /\ ~oops'
          /\ Ring(On(g) \cup {x}, g, next', prev')
          /\ \A h \in Groups \ {g} : group[h] = "live" => Ring(On(h), h, next', prev')
      BY <1>2, <3>1, <3>2, Enlisted
    <3>4. On(g)' = On(g) \cup {x}
      BY <1>1, <1>2, <1>3, <3>1 DEF On
    <3>5. \A h \in Groups \ {g} : On(h)' = On(h)
      BY <1>1, <1>2, <1>3, <3>1 DEF On
    <3> QED
      BY <1>1, <3>3, <3>4, <3>5 DEF ListsInv
  <2> QED
    BY <2>1, <2>2
<1> QED
  BY <1>4, <1>5, <1>6 DEF ListInv

\* A walk begins at the first task, or at the head when there is none.
LEMMA DestroyBeginStep ==
    ASSUME TypeOK, OpTyped, ListInv, NEW g \in Groups, destroy_begin(g), met' = {}
    PROVE  ListInv'
<1>1. group[g] = "live"
  <2>1. group[g] # "freed"
    BY NotMet DEF destroy_begin
  <2> QED
    BY <2>1 DEF destroy_begin, TypeOK
<1>2. /\ op = NoOp /\ UNCHANGED <<state, tg, group, links>>
      /\ op' = [NoOp EXCEPT !.kind = "walk", !.to = g, !.pos = next[g],
                            !.n = IF Sound(next[g]) THEN next[next[g]] ELSE Poison]
  BY DEF destroy_begin
<1>3. /\ Sound(g) /\ Sound(next[g])
      /\ next[g] \in On(g) \cup {g}
  BY <1>1, ListFacts DEF Ring
<1>4. ~oops'
  <2>1. next[g] \in Groups => next[g] = g
    BY <1>3, GroupAssumption DEF On
  <2> QED
    BY <1>3, <2>1 DEF destroy_begin
<1>5. InHand = {} /\ InHand' = {}
  BY <1>2 DEF InHand, NoOp
<1>6. \A h \in Groups : On(h)' = On(h)
  BY <1>2, <1>5 DEF On
<1>7. OpInv'
  BY <1>1, <1>2, <1>3 DEF OpInv, NoOp, links
<1>8. TasksInv' /\ ListsInv'
  BY <1>2, <1>6, ListsKept DEF ListInv, TasksInv, links
<1> QED
  BY <1>4, <1>7, <1>8 DEF ListInv

LEMMA DestroyUnlinkStep ==
    ASSUME TypeOK, OpTyped, ListInv, destroy_unlink
    PROVE  ListInv'
<1>1. PICK g \in Groups, x \in Tasks : g = op.to /\ x = op.pos
  BY DEF destroy_unlink, ListInv, OpInv
<1>2. /\ op.kind = "walk" /\ op' = [op EXCEPT !.kind = "move"]
      /\ UNCHANGED <<state, tg, group>>
  BY DEF destroy_unlink
<1>3. group[g] = "live" /\ x = next[g] /\ op.n = next[x]
  BY <1>1, <1>2 DEF ListInv, OpInv
<1>4. Ring(On(g), g, next, prev) /\ On(g) \in SUBSET Tasks
  BY <1>3, ListFacts
<1>5. x \in On(g) /\ prev[x] = g
  BY <1>3, <1>4, GroupAssumption DEF Ring
<1>6. tg[x] = g /\ state[x] = "running" /\ list_del(x)
  BY <1>1, <1>5, GroupAssumption DEF On, destroy_unlink
<1>7. /\ ~oops'
      /\ Ring(On(g) \ {x}, g, next', prev')
      /\ \A h \in Groups \ {g} : group[h] = "live" => Ring(On(h), h, next', prev')
  BY <1>5, <1>6, Delisted
<1>8. /\ op'.kind = "move" /\ op'.pos = x /\ op'.to = g /\ op'.n = next[x]
  BY <1>1, <1>2, <1>3 DEF OpTyped, Operation
<1>9. next'[g] = next[x]
  <2>1. Sound(next[x]) /\ Sound(prev[x])
    BY <1>3, <1>5, ListFacts
  <2>2. next' = [next EXCEPT ![prev[x]] = next[x], ![x] = Poison]
    BY <1>6, <2>1 DEF list_del
  <2>3. g # x /\ g \in Nodes
    BY GroupAssumption DEF Nodes
  <2> QED
    BY <1>5, <2>2, <2>3 DEF TypeOK
<1>10. InHand = {} /\ InHand' = {x}
  BY <1>2, <1>8 DEF InHand
<1>11. \A h \in Groups : On(h)' = On(h) \ {x}
  BY <1>2, <1>10 DEF On
<1>12. \A h \in Groups \ {g} : On(h)' = On(h)
  BY <1>6, <1>11 DEF On
<1>13. ListsInv'
  BY <1>2, <1>7, <1>11, <1>12 DEF ListsInv
<1>14. OpInv'
  BY <1>2, <1>3, <1>6, <1>8, <1>9 DEF OpInv
<1>15. TasksInv'
  BY <1>2 DEF ListInv, TasksInv
<1> QED
  BY <1>7, <1>13, <1>14, <1>15 DEF ListInv

LEMMA DestroyMoveStep ==
    ASSUME TypeOK, OpTyped, ListInv, destroy_move
    PROVE  ListInv'
<1>1. PICK g \in Groups, x \in Tasks : g = op.to /\ x = op.pos
  BY DEF destroy_move, ListInv, OpInv
<1>2. /\ op.kind = "move" /\ Walk(op.n) /\ tg' = [tg EXCEPT ![x] = InitGroup]
      /\ UNCHANGED <<state, group, links>>
  BY <1>1 DEF destroy_move
<1>3. group[g] = "live" /\ op.n = next[g] /\ tg[x] = g
  BY <1>1, <1>2 DEF ListInv, OpInv
<1>4. next[g] \in On(g) \cup {g} /\ Sound(next[g])
  BY <1>3, ListFacts DEF Ring
<1>5. op' = [op EXCEPT !.kind = "walk", !.pos = next[g], !.n = next[next[g]]] /\ ~oops'
  <2>1. next[g] \in Groups => next[g] = g
    BY <1>4, GroupAssumption DEF On
  <2> QED
    BY <1>1, <1>2, <1>3, <1>4, <2>1 DEF Walk, ListInv
<1>6. op'.kind = "walk" /\ op'.to = g /\ op'.pos = next[g] /\ op'.n = next[next[g]]
  BY <1>1, <1>5 DEF OpTyped, Operation
<1>7. InHand = {x} /\ InHand' = {}
  BY <1>1, <1>2, <1>6 DEF InHand
<1>8. \A t \in Tasks : tg'[t] = IF t = x THEN InitGroup ELSE tg[t]
  BY <1>2 DEF TypeOK
<1>9. \A h \in Groups : On(h)' = On(h)
  BY <1>2, <1>7, <1>8, GroupAssumption DEF On
<1>10. ListsInv'
  BY <1>2, <1>9, ListsKept DEF links
<1>11. OpInv'
  BY <1>2, <1>3, <1>6 DEF OpInv, links
<1>12. TasksInv'
  BY <1>2, <1>8 DEF ListInv, TasksInv
<1> QED
  BY <1>5, <1>10, <1>11, <1>12 DEF ListInv

\* When the walk is at the head there is nobody left.
LEMMA DestroyEndStep ==
    ASSUME TypeOK, OpTyped, ListInv, destroy_end
    PROVE  ListInv'
<1>1. PICK g \in Groups : g = op.to
  BY DEF destroy_end, ListInv, OpInv
<1>2. /\ op.kind = "walk" /\ op' = NoOp /\ op.pos = g
      /\ group' = [group EXCEPT ![g] = "freed"]
      /\ UNCHANGED <<state, tg, links, oops>>
  BY <1>1 DEF destroy_end
<1>3. group[g] = "live" /\ next[g] = g
  BY <1>1, <1>2 DEF ListInv, OpInv
<1>4. On(g) = {}
  BY <1>3, ListFacts, EmptyRing
<1>5. InHand = {} /\ InHand' = {}
  BY <1>2 DEF InHand, NoOp
<1>6. \A h \in Groups : On(h)' = On(h)
  BY <1>2, <1>5 DEF On
<1>7. \A h \in Groups : group'[h] = IF h = g THEN "freed" ELSE group[h]
  BY <1>2 DEF TypeOK
<1>8. ListsInv'
  BY <1>2, <1>6, <1>7, ListsKept DEF links
<1>9. OpInv'
  BY <1>2 DEF OpInv, NoOp
<1>10. TasksInv'
  <2> SUFFICES ASSUME NEW t \in Tasks, state[t] = "running", tg[t] # InitGroup
               PROVE  group'[tg[t]] = "live"
    BY <1>2 DEF TasksInv
  <2>1. tg[t] \in Groups /\ group[tg[t]] = "live"
    BY DEF ListInv, TasksInv, TypeOK
  <2>2. tg[t] # g
    BY <1>4, <1>5 DEF On
  <2> QED
    BY <1>7, <2>1, <2>2
<1> QED
  BY <1>2, <1>8, <1>9, <1>10 DEF ListInv

\* A copy of a task that is in no group is on no list either.
LEMMA ForkStep ==
    ASSUME TypeOK, OpTyped, ListInv, NEW t \in Tasks, NEW child \in Tasks,
           fork(t, child), met' = {}
    PROVE  ListInv'
<1>1. tg[t] = InitGroup
  BY NotMet DEF fork
<1>2. /\ state[child] = "unborn" /\ state' = [state EXCEPT ![child] = "running"]
      /\ tg' = [tg EXCEPT ![child] = InitGroup]
      /\ next' = [next EXCEPT ![child] = next[t]]
      /\ prev' = [prev EXCEPT ![child] = prev[t]]
      /\ UNCHANGED <<group, op, oops>>
  BY <1>1 DEF fork
<1>3. \A u \in Tasks \ {child} : state'[u] = state[u] /\ tg'[u] = tg[u]
  BY <1>2 DEF TypeOK
<1>4. tg'[child] = InitGroup /\ state'[child] = "running"
  BY <1>2 DEF TypeOK
<1>5. \A y \in Nodes \ {child} : next'[y] = next[y] /\ prev'[y] = prev[y]
  BY <1>2 DEF TypeOK
<1>6. \A h \in Groups : child \notin On(h) \cup {h} /\ On(h) \cup {h} \subseteq Nodes
  BY <1>2, GroupAssumption DEF On, Nodes
<1>7. \A h \in Groups : On(h)' = On(h)
  <2> SUFFICES ASSUME NEW h \in Groups PROVE On(h)' = On(h)
    OBVIOUS
  <2>1. InHand' = InHand
    BY <1>2 DEF InHand
  <2>2. child \notin On(h) /\ child \notin On(h)'
    BY <1>4, <1>6, GroupAssumption DEF On
  <2> QED
    BY <1>3, <2>1, <2>2 DEF On
<1>8. ListsInv'
  BY <1>2, <1>5, <1>6, <1>7, ListsKept
<1>9. OpInv'
  <2>1. op.kind \in {"attach", "attach2"} => op.t # child /\ op.t \in Tasks
    BY <1>2 DEF ListInv, OpInv
  <2>2. op.kind = "move" => op.pos # child /\ op.pos \in Tasks
    BY <1>2 DEF ListInv, OpInv
  <2>3. op.kind \in {"walk", "move"} => /\ op.to \in Groups /\ next'[op.to] = next[op.to]
    BY <1>5, <1>6 DEF ListInv, OpInv
  <2>4. op.kind = "walk" => next'[op.pos] = next[op.pos]
    <3> SUFFICES ASSUME op.kind = "walk" PROVE next'[op.pos] = next[op.pos]
      OBVIOUS
    <3>1. op.to \in Groups /\ group[op.to] = "live" /\ op.pos = next[op.to]
      BY DEF ListInv, OpInv
    <3>2. op.pos \in On(op.to) \cup {op.to}
      BY <3>1, ListFacts DEF Ring
    <3> QED
      BY <1>5, <1>6, <3>1, <3>2
  <2> QED
    BY <1>2, <1>3, <2>1, <2>2, <2>3, <2>4 DEF ListInv, OpInv
<1>10. TasksInv'
  BY <1>2, <1>3, <1>4 DEF ListInv, TasksInv
<1> QED
  BY <1>2, <1>8, <1>9, <1>10 DEF ListInv

\* A task that leaves between calls takes itself off its list.
LEMMA ExitBeginStep ==
    ASSUME TypeOK, OpTyped, ListInv, NEW t \in Tasks, exit_begin(t), met' = {}
    PROVE  ListInv'
<1>1. op = NoOp
  BY NotMet DEF exit_begin
<1>2. /\ state[t] = "running" /\ UNCHANGED <<tg, group, op>>
      /\ \/ state' = [state EXCEPT ![t] = "exiting"]
         \/ state' = [state EXCEPT ![t] = "leaving"]
  BY DEF exit_begin
<1>3. state'[t] # "running" /\ \A u \in Tasks \ {t} : state'[u] = state[u]
  BY <1>2 DEF TypeOK
<1>4. InHand = {} /\ InHand' = {}
  BY <1>1, <1>2 DEF InHand, NoOp
<1>5. \A h \in Groups : On(h)' = On(h) \ {t}
  BY <1>2, <1>3, <1>4 DEF On
<1>6. OpInv'
  BY <1>1, <1>2 DEF OpInv, NoOp
<1>7. TasksInv'
  BY <1>2, <1>3 DEF ListInv, TasksInv
<1>8. ~oops' /\ ListsInv'
  <2>1. CASE tg[t] = InitGroup
    <3>1. UNCHANGED <<links, oops>>
      BY <2>1 DEF exit_begin
    <3>2. \A h \in Groups : On(h)' = On(h)
      BY <1>5, <2>1, GroupAssumption DEF On
    <3> QED
      BY <1>2, <3>1, <3>2, ListsKept DEF links, ListInv
  <2>2. CASE tg[t] # InitGroup
    <3>1. tg[t] \in Groups /\ t \in On(tg[t]) /\ list_del(t)
      BY <1>2, <1>4, <2>2 DEF exit_begin, On, TypeOK
    <3>2. /\ ~oops'
          /\ Ring(On(tg[t]) \ {t}, tg[t], next', prev')
          /\ \A h \in Groups \ {tg[t]} : group[h] = "live" => Ring(On(h), h, next', prev')
      BY <3>1, Delisted
    <3>3. \A h \in Groups \ {tg[t]} : On(h)' = On(h)
      BY <1>5 DEF On
    <3> QED
      BY <1>2, <1>5, <3>2, <3>3 DEF ListsInv
  <2> QED
    BY <2>1, <2>2
<1> QED
  BY <1>6, <1>7, <1>8 DEF ListInv

LEMMA ExitEndStep ==
    ASSUME TypeOK, OpTyped, ListInv, NEW t \in Tasks,
           (exit_point(t) /\ met' = {}) \/ reap(t)
    PROVE  ListInv'
<1>1. /\ state[t] # "running" /\ state'[t] # "running"
      /\ \A u \in Tasks \ {t} : state'[u] = state[u] /\ tg'[u] = tg[u]
      /\ UNCHANGED <<group, links, op, oops>>
  BY DEF exit_point, reap, TypeOK
<1>2. InHand' = InHand
  BY <1>1 DEF InHand
<1>3. \A h \in Groups : On(h)' = On(h)
  BY <1>1, <1>2 DEF On
<1>4. OpInv'
  BY <1>1 DEF ListInv, OpInv, links
<1>5. TasksInv'
  BY <1>1 DEF ListInv, TasksInv
<1>6. ListsInv'
  BY <1>1, <1>3, ListsKept DEF links
<1> QED
  BY <1>1, <1>4, <1>5, <1>6 DEF ListInv

-----------------------------------------------------------------------------
(* The theorems. *)

LEMMA GroupInit == Init => GroupInv
  BY TypedInit, ListInit DEF GroupInv

LEMMA GroupNext == GroupInv /\ [Next]_vars => GroupInv'
<1> SUFFICES ASSUME GroupInv, [Next]_vars PROVE GroupInv'
  OBVIOUS
<1>1. TypeOK' /\ OpTyped'
  BY TypedNext DEF GroupInv
<1>2. ASSUME met' = {} PROVE ListInv'
  <2>1. met = {}
    BY <1>2 DEF Next, Attachment, Destruction, vars, sched_create_group, attach_begin,
                attach_point, attach_end, destroy_begin, destroy_unlink, destroy_move,
                destroy_end, fork, exit_begin, exit_point, reap, Meet
  <2>2. TypeOK /\ OpTyped /\ ListInv
    BY <2>1 DEF GroupInv
  <2>3. ASSUME NEW g \in Groups, sched_create_group(g) \/ destroy_begin(g)
        PROVE  ListInv'
    BY <1>2, <2>2, <2>3, CreateStep, DestroyBeginStep
  <2>4. ASSUME NEW t \in Tasks, NEW g \in Groups \cup {InitGroup}, attach_begin(t, g)
        PROVE  ListInv'
    BY <1>2, <2>2, <2>4, AttachBeginStep
  <2>5. CASE Attachment
    BY <2>2, <2>5, AttachPointStep, AttachEndStep DEF Attachment
  <2>6. CASE Destruction
    BY <2>2, <2>6, DestroyUnlinkStep, DestroyMoveStep, DestroyEndStep DEF Destruction
  <2>7. ASSUME NEW t \in Tasks, NEW child \in Tasks, fork(t, child)
        PROVE  ListInv'
    BY <1>2, <2>2, <2>7, ForkStep
  <2>8. ASSUME NEW t \in Tasks, exit_begin(t) \/ exit_point(t) \/ reap(t)
        PROVE  ListInv'
    BY <1>2, <2>2, <2>8, ExitBeginStep, ExitEndStep
  <2>9. CASE UNCHANGED vars
    <3>1. InHand' = InHand /\ \A h : On(h)' = On(h)
      BY <2>9 DEF vars, InHand, On
    <3>2. ListsInv'
      BY <2>2, <2>9, <3>1, ListsKept DEF vars, links
    <3> QED
      BY <2>2, <2>9, <3>2 DEF vars, links, ListInv, OpInv, TasksInv
  <2> QED
    BY <2>3, <2>4, <2>5, <2>6, <2>7, <2>8, <2>9 DEF Next
<1> QED
  BY <1>1, <1>2 DEF GroupInv

\* Between calls the list of a live group has the running tasks that point to
\* it and no other, and can be walked both ways, as long as no task was forked
\* in a group, none exited during a call and no group was used that is gone.
THEOREM ListsAlwaysAgree == Spec => []ListsAgree
<1>1. ASSUME GroupInv PROVE ListsAgree
  <2>1. SUFFICES ASSUME met = {}, op = NoOp, NEW g \in Groups, group[g] = "live"
                 PROVE  /\ Members(g) = {t \in Tasks : tg[t] = g /\ state[t] = "running"}
                        /\ \A x \in Members(g) \cup {g} :
                              next[x] \in Members(g) \cup {g} /\ prev[next[x]] = x
    BY <1>1 DEF ListsAgree, GroupInv
  <2>2. On(g) \in SUBSET Tasks /\ Ring(On(g), g, next, prev)
    BY <1>1, <2>1, ListFacts DEF GroupInv
  <2>3. Members(g) = On(g)
    BY <2>2, WalkReaches DEF Members
  <2>4. On(g) = {t \in Tasks : tg[t] = g /\ state[t] = "running"}
    BY <2>1 DEF On, InHand, NoOp
  <2> QED
    BY <2>2, <2>3, <2>4 DEF Ring
<1> QED
  BY <1>1, GroupInit, GroupNext, PTL DEF Spec

\* Only those situations make the kernel follow a bad entry, or leave a task
\* running in a group that was destroyed.
THEOREM HarmlessOtherwise == Spec => []OnlyThoseHarm
<1>1. GroupInv => OnlyThoseHarm
  BY DEF GroupInv, ListInv, TasksInv, OnlyThoseHarm, NobodyLeftBehind, OnlyKnownOops
<1> QED
  BY <1>1, GroupInit, GroupNext, PTL DEF Spec
=============================================================================
