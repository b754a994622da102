----------------------------- MODULE FleetProofs ----------------------------
(***************************************************************************)
(* Proofs about Fleet, for any proxies, any finite set of migrating routes *)
(* and any number of admin requests at a time, and for every bound.        *)
(***************************************************************************)
EXTENDS Fleet, FiniteSetTheorems, TLAPS

-----------------------------------------------------------------------------
(* The inductive invariant                                                  *)
Works == {"build", "add", "set", "send"}
Ends == {"prepared", "completed", "aborted"}

AnyStep == [do : Works, p : Proxy, must : BOOLEAN] \cup [do : {"move"}, p : Proxy, r : Route, must : BOOLEAN]
             \cup [do : Ends, p : {None}, must : {TRUE}]

Job == [pc : {"wire", "save", "apply"}, s : DesiredState, by : Worker \cup {None}, met : BOOLEAN]

Task == [todo : Seq(AnyStep), s : DesiredState, waits : BOOLEAN]

Typed ==
    /\ defaults \in Nat /\ owner \in [Route -> Proxy] /\ row \in [Proxy -> DesiredState]
    /\ task \in [Worker -> Task]
    /\ link \in SUBSET Proxy /\ ready \in [Proxy -> [pc : {"none", "read", "send"}, s : DesiredState]]
    /\ jobs \in [Proxy -> SUBSET Job] /\ saved \in [Proxy -> DesiredState]
    /\ live \in [Proxy -> [cfg : Nat, routes : SUBSET Route]]
    /\ overlap \in BOOLEAN /\ pushed \in BOOLEAN /\ slipped \in BOOLEAN
    /\ tangled \in [Proxy -> BOOLEAN] /\ unsaved \in [Proxy -> BOOLEAN]

(* What is built for a proxy is set and sent to it next.                    *)
Leads(s, t) ==
    /\ s.do = "build" => t.do \in {"add", "set"}
    /\ s.do = "build" /\ ~s.must => t.do = "set"
    /\ s.do = "add" => t.do = "set"
    /\ s.do = "set" => t.do = "send"
    /\ s.do \in {"build", "add", "set"} => t.p = s.p
Follows(s, t) ==
    /\ t.do = "add" => s.do = "build"
    /\ t.do = "set" => s.do \in {"build", "add"}
    /\ t.do = "send" => s.do = "set"

Rest(t) ==
    \A i \in 1..Len(t) :
        /\ t[i].do \in {"build", "add", "set"} => i + 1 <= Len(t)
        /\ i + 1 <= Len(t) => Leads(t[i], t[i + 1]) /\ Follows(t[i], t[i + 1])

Chained == \A w \in Worker : Rest(task[w].todo)

(* Request w stands before step do, or in it, for p.                        *)
Before(w, do, p) == Busy(w) /\ Head(task[w].todo).do = do /\ Dest(w) = p

(* A call waits for the one job that carries its name.                      *)
Calls ==
    /\ \A w \in Worker : task[w].waits => Busy(w) /\ Head(task[w].todo).do = "send"
    /\ \A p \in Proxy : \A j \in jobs[p] : j.by # None => task[j.by].waits /\ Dest(j.by) = p
    /\ \A p \in Proxy : \A i, j \in jobs[p] : i.by = j.by /\ i.by # None => i = j

(* Only what was built has a revision.                                      *)
Blank ==
    /\ \A p \in Proxy : row[p].rev = 0 =>
          row[p] = NoState /\ saved[p] = NoState /\ jobs[p] = {} /\ live[p].routes = {} /\ ready[p].pc # "send"
    /\ \A w \in Worker, p \in Proxy : Before(w, "set", p) \/ Before(w, "send", p) => task[w].s.rev # 0
    /\ \A w \in Worker, p \in Proxy : Before(w, "send", p) => row[p].rev # 0

(* A state is about to be sent to p.                                        *)
Unsent(p) == ready[p].pc # "none" \/ \E w \in Worker : Before(w, "send", p) /\ ~task[w].waits

(* A job that met no other is the only one, and the row's until that changes. *)
Fresh ==
    \A p \in Proxy : \A j \in jobs[p] :
        /\ j.met => tangled[p]
        /\ ~j.met => jobs[p] = {j} /\ (p \in link /\ ~Unsent(p) => j.s = row[p])

Settled ==
    \A p \in Proxy : p \in link /\ ~Unsent(p) /\ jobs[p] = {} /\ ~tangled[p] => Same(live[p], row[p])

(* Requests that do not overlap run one at a time.                          *)
Solo == \A v, w \in Worker : Busy(v) /\ Busy(w) => v = w

(* Revisions grow.                                                          *)
Numbered ==
    \A p \in Proxy :
        /\ \A s \in Known(p) : s.rev <= row[p].rev /\ (s.rev = 0 => s = NoState)
        /\ \A s, t \in Known(p) : s.rev = t.rev => s = t
        /\ \A w \in Worker : /\ Before(w, "set", p) => task[w].s.rev = row[p].rev + 1
                             /\ Before(w, "send", p) => task[w].s = row[p]

(* A file that was written holds what runs or is about to.                  *)
Filed ==
    \A p \in Proxy : ~unsaved[p] =>
        /\ (\A j \in jobs[p] : j.pc = "wire") /\ ~tangled[p] => Same(live[p], saved[p])
        /\ \A j \in jobs[p] : ~j.met /\ j.pc = "apply" => saved[p] = j.s

Ordered == ~overlap => Solo /\ Numbered

Inv == Typed /\ Chained /\ Calls /\ Blank /\ Fresh /\ Settled /\ Filed /\ Ordered

-----------------------------------------------------------------------------
(* The programs                                                             *)

(* A program that can stand between others.                                 *)
Segment(t) ==
    /\ t \in Seq(AnyStep) /\ Rest(t)
    /\ t # <<>> => t[1].do \notin {"add", "set", "send"}

(* Programs one after the other.                                            *)
LEMMA Joined ==
    ASSUME NEW s, NEW t, Segment(s), Segment(t)
    PROVE  Segment(s \o t)
<1> DEFINE u == s \o t
<1>1. /\ s \in Seq(AnyStep) /\ t \in Seq(AnyStep) /\ u \in Seq(AnyStep) /\ Len(u) = Len(s) + Len(t)
      /\ Len(s) \in Nat /\ Len(t) \in Nat
      /\ \A i \in 1..Len(s) : u[i] = s[i] /\ s[i] \in AnyStep
      /\ \A i \in 1..Len(t) : u[Len(s) + i] = t[i] /\ t[i] \in AnyStep
  BY DEF Segment
<1> HIDE DEF u
<1>2. ASSUME NEW i \in 1..Len(u)
      PROVE  /\ u[i].do \in {"build", "add", "set"} => i + 1 <= Len(u)
             /\ i + 1 <= Len(u) => Leads(u[i], u[i + 1]) /\ Follows(u[i], u[i + 1])
  <2>1. CASE i + 1 <= Len(s)
    <3>1. i \in 1..Len(s) /\ i + 1 \in 1..Len(s)
      BY <1>1, <2>1
    <3> QED BY <1>1, <2>1, <3>1 DEF Segment, Rest
  <2>2. CASE i > Len(s)
    <3> DEFINE k == i - Len(s)
    <3>1. k \in 1..Len(t) /\ u[i] = t[k] /\ (i + 1 <= Len(u) => k + 1 \in 1..Len(t) /\ u[i + 1] = t[k + 1])
      BY <1>1, <2>2
    <3>2. /\ t[k].do \in {"build", "add", "set"} => k + 1 <= Len(t)
          /\ k + 1 <= Len(t) => Leads(t[k], t[k + 1]) /\ Follows(t[k], t[k + 1])
      BY <3>1 DEF Segment, Rest
    <3> HIDE DEF k
    <3>3. k + 1 <= Len(t) <=> i + 1 <= Len(u)
      BY <1>1 DEF k
    <3> QED BY <3>1, <3>2, <3>3
  <2>3. CASE i = Len(s)
    <3>1. i \in 1..Len(s) /\ u[i] = s[i] /\ s[i].do \notin {"build", "add", "set"}
      BY <1>1, <2>3 DEF Segment, Rest
    <3>2. ASSUME i + 1 <= Len(u)
          PROVE  u[i + 1] = t[1] /\ t[1].do \notin {"add", "set", "send"}
      <4>1. 1 \in 1..Len(t) /\ t # <<>> /\ u[i + 1] = t[1]
        BY <1>1, <2>3, <3>2
      <4> QED BY <4>1 DEF Segment
    <3> QED BY <3>1, <3>2 DEF Leads, Follows
  <2> QED BY <1>1, <2>1, <2>2, <2>3
<1>3. ASSUME u # <<>>
      PROVE  u[1].do \notin {"add", "set", "send"}
  <2>1. CASE s = <<>>
    <3>1. Len(s) = 0 /\ 1 \in 1..Len(t) /\ t # <<>> /\ u[1] = t[1]
      BY <1>1, <1>3, <2>1
    <3> QED BY <3>1 DEF Segment
  <2>2. CASE s # <<>>
    <3>1. 1 \in 1..Len(s) /\ u[1] = s[1]
      BY <1>1, <2>2
    <3> QED BY <2>2, <3>1 DEF Segment
  <2> QED BY <2>1, <2>2
<1> QED BY <1>1, <1>2, <1>3 DEF Segment, Rest, u

(* Short sequences.                                                         *)
LEMMA Short ==
    ASSUME NEW S, NEW a \in S, NEW b \in S, NEW c \in S, NEW d \in S
    PROVE  /\ <<a>> \in Seq(S) /\ Len(<<a>>) = 1
           /\ <<a, b, c>> \in Seq(S) /\ Len(<<a, b, c>>) = 3
           /\ <<a, b, c, d>> \in Seq(S) /\ Len(<<a, b, c, d>>) = 4
  OBVIOUS

(* The routes in some order.                                                *)
LEMMA RoutesInOrder == SetToSeq(Route) \in [1..Cardinality(Route) -> Route] /\ Cardinality(Route) \in Nat
<1>1. Cardinality(Route) \in Nat /\ ExistsBijection(1..Cardinality(Route), Route)
  BY FleetAssumption, FS_CardinalityType
<1>2. PICK f \in [1..Cardinality(Route) -> Route] : IsInjective(f)
  BY <1>1 DEF ExistsBijection, Bijection, Injection, IsInjective
<1> QED BY <1>1, <1>2 DEF SetToSeq

(* The moves of all routes.                                                 *)
LEMMA MovesAre ==
    ASSUME NEW p \in Proxy, NEW must \in BOOLEAN
    PROVE  Segment(Moves(p, must))
<1> DEFINE n == Cardinality(Route)
           q == SetToSeq(Route)
<1>1. q \in [1..n -> Route] /\ n \in Nat
  BY RoutesInOrder
<1>2. Moves(p, must) = [i \in 1..Len(q) |-> [do |-> "move", p |-> p, r |-> q[i], must |-> must]]
  BY DEF Moves
<1> HIDE DEF n, q
<1>3. Len(q) = n
  BY <1>1
<1>4. \A i \in 1..n : Moves(p, must)[i] = [do |-> "move", p |-> p, r |-> q[i], must |-> must]
  BY <1>2, <1>3
<1>5. Moves(p, must) \in [1..n -> AnyStep]
  <2>1. ASSUME NEW i \in 1..n
        PROVE  [do |-> "move", p |-> p, r |-> q[i], must |-> must] \in AnyStep
    <3>1. q[i] \in Route
      BY <1>1
    <3> QED BY <3>1 DEF AnyStep
  <2> QED BY <1>2, <1>3, <2>1
<1>6. Moves(p, must) \in Seq(AnyStep) /\ Len(Moves(p, must)) = n
  BY <1>1, <1>5
<1>7. ASSUME NEW i \in 1..n
      PROVE  Moves(p, must)[i].do = "move"
  <2>1. [do |-> "move", p |-> p, r |-> q[i], must |-> must].do = "move"
    OBVIOUS
  <2>2. Moves(p, must)[i] = [do |-> "move", p |-> p, r |-> q[i], must |-> must]
    BY <1>4
  <2> QED BY <2>1, <2>2
<1>8. Rest(Moves(p, must))
  BY <1>1, <1>6, <1>7 DEF Rest, Leads, Follows
<1> QED BY <1>1, <1>6, <1>7, <1>8 DEF Segment

(* A push.                                                                  *)
LEMMA PushIs ==
    ASSUME NEW p \in Proxy, NEW must \in BOOLEAN
    PROVE  Segment(pushDesired(p, must)) /\ pushDesired(p, must) # <<>>
<1> DEFINE u == <<Step("build", p, must), Step("set", p, must), Step("send", p, must)>>
<1>1. /\ Step("build", p, must) \in AnyStep /\ Step("set", p, must) \in AnyStep
      /\ Step("send", p, must) \in AnyStep
  BY DEF Step, AnyStep, Works
<1>2. u \in Seq(AnyStep) /\ Len(u) = 3 /\ u # <<>>
  <2>1. u \in Seq(AnyStep) /\ Len(u) = 3
    BY <1>1, Short
  <2> QED BY <2>1
<1>3. /\ u[1].do = "build" /\ u[2].do = "set" /\ u[3].do = "send"
      /\ u[1].p = p /\ u[2].p = p
  BY DEF Step
<1> HIDE DEF u
<1>4. Rest(u)
  <2> SUFFICES ASSUME NEW i \in 1..3
               PROVE  /\ u[i].do \in {"build", "add", "set"} => i + 1 <= 3
                      /\ i + 1 <= 3 => Leads(u[i], u[i + 1]) /\ Follows(u[i], u[i + 1])
    BY <1>2 DEF Rest
  <2>1. CASE i = 1
    BY <1>3, <2>1 DEF Leads, Follows
  <2>2. CASE i = 2
    <3>1. u[i + 1] = u[3]
      BY <2>2
    <3>2. u[3].p = p
      BY DEF u, Step
    <3> QED BY <1>3, <2>2, <3>1, <3>2 DEF Leads, Follows
  <2>3. CASE i = 3
    BY <1>3, <2>3
  <2> QED BY <2>1, <2>2, <2>3
<1>5. u = pushDesired(p, must)
  BY DEF u, pushDesired
<1> QED BY <1>2, <1>3, <1>4, <1>5 DEF Segment

(* The push of the routes that migrate.                                     *)
LEMMA StageIs == Segment(stageRoutesOnDest)
<1> DEFINE u == <<Step("build", To, TRUE), Step("add", To, TRUE), Step("set", To, TRUE), Step("send", To, TRUE)>>
<1>1. /\ Step("build", To, TRUE) \in AnyStep /\ Step("set", To, TRUE) \in AnyStep
      /\ Step("send", To, TRUE) \in AnyStep /\ Step("add", To, TRUE) \in AnyStep
  BY FleetAssumption DEF Step, AnyStep, Works
<1>2. u \in Seq(AnyStep) /\ Len(u) = 4 /\ u # <<>>
  <2>1. u \in Seq(AnyStep) /\ Len(u) = 4
    BY <1>1, Short
  <2> QED BY <2>1
<1>3. /\ u[1].do = "build" /\ u[2].do = "add" /\ u[3].do = "set" /\ u[4].do = "send"
      /\ u[1].p = To /\ u[2].p = To /\ u[3].p = To /\ u[4].p = To /\ u[1].must
  BY DEF Step
<1> HIDE DEF u
<1>4. Rest(u)
  <2> SUFFICES ASSUME NEW i \in 1..4
               PROVE  /\ u[i].do \in {"build", "add", "set"} => i + 1 <= 4
                      /\ i + 1 <= 4 => Leads(u[i], u[i + 1]) /\ Follows(u[i], u[i + 1])
    BY <1>2 DEF Rest
  <2>1. CASE i = 1
    BY <1>3, <2>1 DEF Leads, Follows
  <2>2. CASE i = 2
    BY <1>3, <2>2 DEF Leads, Follows
  <2>3. CASE i = 3
    BY <1>3, <2>3 DEF Leads, Follows
  <2>4. CASE i = 4
    BY <1>3, <2>4
  <2> QED BY <2>1, <2>2, <2>3, <2>4
<1>5. u = stageRoutesOnDest
  BY DEF u, stageRoutesOnDest
<1> QED BY <1>2, <1>3, <1>4, <1>5 DEF Segment

(* The note of a migration's phase.                                         *)
LEMMA NoteIs ==
    ASSUME NEW ph \in Ends
    PROVE  Segment(<<Step(ph, None, TRUE)>>)
<1> DEFINE u == <<Step(ph, None, TRUE)>>
<1>1. Step(ph, None, TRUE) \in AnyStep
  BY DEF Step, AnyStep
<1>2. u \in Seq(AnyStep) /\ Len(u) = 1
  BY <1>1, Short
<1>3. u[1].do \in Ends
  BY DEF Step
<1> HIDE DEF u
<1>4. Rest(u)
  BY <1>2, <1>3 DEF Rest, Ends
<1> QED BY <1>2, <1>3, <1>4 DEF Segment, Ends, u

(* What a migration's requests do.                                          *)
LEMMA MigrationIs ==
    Segment(migrationPrep) /\ Segment(migrationComplete) /\ Segment(migrationAbort)
<1>1. \A m \in BOOLEAN : Segment(Moves(To, m)) /\ Segment(Moves(From, m))
  BY MovesAre, FleetAssumption
<1>2. \A m \in BOOLEAN : Segment(pushDesired(To, m)) /\ Segment(pushDesired(From, m))
  BY PushIs, FleetAssumption
<1>3. \A ph \in Ends : Segment(<<Step(ph, None, TRUE)>>)
  BY NoteIs
<1>4. Segment(migrationPrep)
  <2>1. Segment(Moves(To, TRUE) \o pushDesired(To, TRUE))
    BY <1>1, <1>2, Joined
  <2>2. Segment(Moves(To, TRUE) \o pushDesired(To, TRUE) \o pushDesired(From, FALSE))
    BY <2>1, <1>2, Joined
  <2>3. Segment(Moves(To, TRUE) \o pushDesired(To, TRUE) \o pushDesired(From, FALSE) \o Moves(From, FALSE))
    BY <2>2, <1>1, Joined
  <2>4. Segment(Moves(To, TRUE) \o pushDesired(To, TRUE) \o pushDesired(From, FALSE) \o Moves(From, FALSE) \o stageRoutesOnDest)
    BY <2>3, StageIs, Joined
  <2>5. Segment(<<Step("prepared", None, TRUE)>>)
    BY <1>3 DEF Ends
  <2> QED BY <2>4, <2>5, Joined DEF migrationPrep
<1>5. Segment(migrationComplete)
  <2>1. Segment(Moves(To, TRUE) \o pushDesired(To, TRUE))
    BY <1>1, <1>2, Joined
  <2>2. Segment(Moves(To, TRUE) \o pushDesired(To, TRUE) \o pushDesired(From, TRUE))
    BY <2>1, <1>2, Joined
  <2>3. Segment(<<Step("completed", None, TRUE)>>)
    BY <1>3 DEF Ends
  <2> QED BY <2>2, <2>3, Joined DEF migrationComplete
<1>6. Segment(migrationAbort)
  <2>1. Segment(Moves(From, FALSE) \o pushDesired(From, FALSE))
    BY <1>1, <1>2, Joined
  <2>2. Segment(Moves(From, FALSE) \o pushDesired(From, FALSE) \o pushDesired(To, FALSE))
    BY <2>1, <1>2, Joined
  <2>3. Segment(<<Step("aborted", None, TRUE)>>)
    BY <1>3 DEF Ends
  <2> QED BY <2>2, <2>3, Joined DEF migrationAbort
<1> QED BY <1>4, <1>5, <1>6

-----------------------------------------------------------------------------
(* Steps of a request                                                       *)

(* Request w has done step do for p and goes on with state s.               *)
Onward(w, do, p, s) ==
    /\ \A v \in Worker \ {w} : task'[v] = task[v]
    /\ ~task'[w].waits
    /\ \A q \in Proxy :
        /\ Before(w, "add", q)' => do = "build" /\ p = q /\ task'[w].s = s
        /\ Before(w, "set", q)' => do \in {"build", "add"} /\ p = q /\ task'[w].s = s
        /\ Before(w, "send", q)' => do = "set" /\ p = q /\ task'[w].s = s
    /\ do = "set" => Before(w, "send", p)'

(* The rest of a program is what is left of it.                             *)
LEMMA RestOfRest ==
    ASSUME NEW t \in Seq(AnyStep), t # <<>>, Rest(t)
    PROVE  /\ Tail(t) \in Seq(AnyStep) /\ Rest(Tail(t))
           /\ Head(t).do \in {"build", "add", "set"} => Tail(t) # <<>>
           /\ Tail(t) # <<>> => Leads(Head(t), Head(Tail(t))) /\ Follows(Head(t), Head(Tail(t)))
<1> DEFINE u == Tail(t)
<1>1. /\ u \in Seq(AnyStep) /\ Len(t) \in Nat /\ Len(u) \in Nat /\ Len(t) = Len(u) + 1 /\ Head(t) = t[1]
      /\ \A i \in 1..Len(u) : u[i] = t[i + 1]
  OBVIOUS
<1>2. /\ u # <<>> => Len(u) >= 1 /\ Head(u) = u[1]
      /\ Len(u) >= 1 => u # <<>>
  BY <1>1
<1> HIDE DEF u
<1>3. \A i \in 1..Len(t) :
        /\ t[i].do \in {"build", "add", "set"} => i + 1 <= Len(t)
        /\ i + 1 <= Len(t) => Leads(t[i], t[i + 1]) /\ Follows(t[i], t[i + 1])
  BY DEF Rest
<1>4. Rest(u)
  <2> SUFFICES ASSUME NEW i \in 1..Len(u)
               PROVE  /\ u[i].do \in {"build", "add", "set"} => i + 1 <= Len(u)
                      /\ i + 1 <= Len(u) => Leads(u[i], u[i + 1]) /\ Follows(u[i], u[i + 1])
    BY DEF Rest
  <2> DEFINE k == i + 1
  <2>1. k \in 1..Len(t) /\ u[i] = t[k] /\ (i + 1 <= Len(u) => u[i + 1] = t[k + 1])
    BY <1>1
  <2>2. k + 1 <= Len(t) <=> i + 1 <= Len(u)
    BY <1>1
  <2> HIDE DEF k
  <2> QED BY <1>3, <2>1, <2>2
<1>5. 1 \in 1..Len(t)
  BY <1>1
<1>6. t[1].do \in {"build", "add", "set"} => u # <<>>
  BY <1>1, <1>2, <1>3, <1>5
<1>7. ASSUME u # <<>>
      PROVE  Leads(t[1], u[1]) /\ Follows(t[1], u[1])
  <2>1. u[1] = t[2] /\ 1 + 1 <= Len(t) /\ 1 + 1 = 2
    BY <1>1, <1>2, <1>7
  <2> QED BY <1>3, <1>5, <2>1
<1> QED BY <1>1, <1>2, <1>4, <1>6, <1>7 DEF u

(* A request that goes on.                                                  *)
LEMMA ContinueIs ==
    ASSUME Typed, Chained, NEW w \in Worker, Busy(w), NEW s \in DesiredState, task' = Continue(w, s),
           NEW do, NEW p, do = Head(task[w].todo).do, p = Dest(w)
    PROVE  task' \in [Worker -> Task] /\ Chained' /\ Onward(w, do, p, s)
<1> DEFINE t == task[w].todo
           h == Head(t)
<1>1. task \in [Worker -> Task] /\ task[w] \in Task /\ t \in Seq(AnyStep) /\ t # <<>> /\ Rest(t)
  BY DEF Typed, Task, Chained, Busy
<1>2. /\ Tail(t) \in Seq(AnyStep) /\ Rest(Tail(t))
      /\ h.do \in {"build", "add", "set"} => Tail(t) # <<>>
      /\ Tail(t) # <<>> => Leads(h, Head(Tail(t))) /\ Follows(h, Head(Tail(t)))
  BY <1>1, RestOfRest
<1>3. /\ Tail(t) = <<>> => task' = [task EXCEPT ![w] = Idle]
      /\ Tail(t) # <<>> =>
            task' = [task EXCEPT ![w] = [todo |-> Tail(t), s |-> s, waits |-> FALSE]]
  <2>1. CASE Tail(t) = <<>>
    BY <2>1 DEF Continue, Resume
  <2>2. CASE Tail(t) # <<>>
    BY <2>2 DEF Continue, Resume
  <2> QED BY <2>1, <2>2
<1> HIDE DEF t, h
<1>4. ASSUME Tail(t) = <<>>
      PROVE  task'[w].todo = Tail(t) /\ ~task'[w].waits /\ task'[w] \in Task
  <2>1. task'[w] = Idle
    BY <1>1, <1>3, <1>4
  <2>2. Idle.todo = <<>> /\ Idle.waits = FALSE /\ Idle \in Task
    BY DEF Idle, Task, NoState, DesiredState
  <2> QED BY <1>4, <2>1, <2>2
<1>5. ASSUME Tail(t) # <<>>
      PROVE  task'[w].todo = Tail(t) /\ ~task'[w].waits /\ task'[w].s = s /\ task'[w] \in Task
  <2>1. task'[w] = [todo |-> Tail(t), s |-> s, waits |-> FALSE]
    BY <1>1, <1>3, <1>5
  <2> QED BY <1>1, <1>2, <2>1 DEF Task
<1>6. task'[w].todo = Tail(t) /\ ~task'[w].waits /\ task'[w] \in Task
  BY <1>4, <1>5
<1>7. \A v \in Worker \ {w} : task'[v] = task[v]
  BY <1>1, <1>3
<1>8. task' \in [Worker -> Task]
  BY <1>1, <1>3, <1>6, <1>7
<1>9. Chained'
  BY <1>2, <1>6, <1>7 DEF Chained
<1>10. \A d, q : Before(w, d, q)' <=> Tail(t) # <<>> /\ Head(Tail(t)).do = d /\ Head(Tail(t)).p = q
  BY <1>6 DEF Before, Busy, Dest
<1>11. p = h.p /\ do = h.do
  BY DEF Dest, h, t
<1>12. ASSUME NEW q \in Proxy
       PROVE  /\ Before(w, "add", q)' => do = "build" /\ p = q /\ task'[w].s = s
              /\ Before(w, "set", q)' => do \in {"build", "add"} /\ p = q /\ task'[w].s = s
              /\ Before(w, "send", q)' => do = "set" /\ p = q /\ task'[w].s = s
  BY <1>2, <1>5, <1>10, <1>11 DEF Leads, Follows
<1>13. do = "set" => Before(w, "send", p)'
  BY <1>2, <1>10, <1>11 DEF Leads
<1> QED BY <1>6, <1>7, <1>8, <1>9, <1>12, <1>13 DEF Onward

(* A request that ends.                                                     *)
Ended(w) == task' = [task EXCEPT ![w] = Idle]

(* Nothing of a request that ended is left.                                 *)
LEMMA DropIs ==
    ASSUME Typed, Chained, NEW w \in Worker, Ended(w),
           NEW do, NEW p, NEW s, do # "set"
    PROVE  task' \in [Worker -> Task] /\ Chained' /\ Onward(w, do, p, s) /\ ~Busy(w)'
<1>1. Idle.todo = <<>> /\ Idle.waits = FALSE /\ Idle \in Task
  BY DEF Idle, Task, NoState, DesiredState
<1>2. task \in [Worker -> Task]
  BY DEF Typed
<1>3. task'[w] = Idle /\ task' \in [Worker -> Task] /\ \A v \in Worker \ {w} : task'[v] = task[v]
  BY <1>1, <1>2 DEF Ended
<1>4. ~Busy(w)' /\ \A d, q : ~Before(w, d, q)'
  BY <1>1, <1>3 DEF Busy, Before
<1>5. Rest(<<>>)
  BY DEF Rest
<1>6. Chained'
  BY <1>1, <1>3, <1>5 DEF Chained
<1> QED BY <1>1, <1>3, <1>4, <1>6 DEF Onward

(* A request that goes on after a call it gave up, whose steps it leaves out. *)
LEMMA SkipIs ==
    ASSUME Typed, Chained, NEW w \in Worker, Busy(w), ~Head(task[w].todo).must, Head(task[w].todo).do # "add",
           NEW s, s = task[w].s, task' = Resume(w, AfterCall(task[w].todo), s), NEW p
    PROVE  task' \in [Worker -> Task] /\ Chained' /\ Onward(w, "send", p, s)
<1> DEFINE t == task[w].todo
           u == AfterCall(t)
<1>1. /\ task \in [Worker -> Task] /\ task[w] \in Task /\ t \in Seq(AnyStep) /\ t # <<>> /\ Rest(t)
      /\ s \in DesiredState /\ ~Head(t).must /\ Head(t).do # "add"
  BY DEF Typed, Task, Chained, Busy
<1> HIDE DEF t
<1>2. /\ u \in Seq(AnyStep) /\ Rest(u)
      /\ u # <<>> => Head(u).do \notin {"add", "set", "send"}
  <2> DEFINE a == Tail(t)
             b == Tail(a)
             c == Tail(b)
  <2>1. /\ a \in Seq(AnyStep) /\ Rest(a)
        /\ Head(t).do \in {"build", "add", "set"} => a # <<>>
        /\ a # <<>> => Leads(Head(t), Head(a)) /\ Follows(Head(t), Head(a))
    BY <1>1, RestOfRest
  <2>2. CASE Head(t).do \notin {"build", "set"}
    <3>1. u = a
      BY <2>2 DEF AfterCall
    <3> QED BY <1>1, <2>1, <2>2, <3>1 DEF Follows
  <2>3. CASE Head(t).do = "set"
    <3>1. u = b
      BY <2>3 DEF AfterCall
    <3>2. a # <<>> /\ Head(a).do = "send"
      BY <2>1, <2>3 DEF Leads
    <3> HIDE DEF a
    <3>3. /\ b \in Seq(AnyStep) /\ Rest(b)
          /\ b # <<>> => Follows(Head(a), Head(b))
      BY <2>1, <3>2, RestOfRest
    <3> QED BY <3>1, <3>2, <3>3 DEF Follows
  <2>4. CASE Head(t).do = "build"
    <3>1. u = c
      BY <2>4 DEF AfterCall
    <3>2. a # <<>> /\ Head(a).do = "set"
      BY <1>1, <2>1, <2>4 DEF Leads
    <3> HIDE DEF a
    <3>3. /\ b \in Seq(AnyStep) /\ Rest(b) /\ b # <<>>
          /\ Leads(Head(a), Head(b))
      BY <2>1, <3>2, RestOfRest
    <3>4. Head(b).do = "send"
      BY <3>2, <3>3 DEF Leads
    <3> HIDE DEF b
    <3>5. /\ c \in Seq(AnyStep) /\ Rest(c)
          /\ c # <<>> => Follows(Head(b), Head(c))
      BY <3>3, RestOfRest
    <3> QED BY <3>1, <3>4, <3>5 DEF Follows
  <2> QED BY <2>2, <2>3, <2>4
<1>3. task' = Resume(w, u, s)
  BY DEF t
<1> HIDE DEF u
<1>4. CASE u = <<>>
  <2>1. Ended(w)
    BY <1>3, <1>4 DEF Resume, Ended
  <2>2. PICK do : do = "send"
    OBVIOUS
  <2>3. task' \in [Worker -> Task] /\ Chained' /\ Onward(w, do, p, s)
    BY <2>1, <2>2, DropIs
  <2> QED BY <2>2, <2>3
<1>5. CASE u # <<>>
  <2>1. task' = [task EXCEPT ![w] = [todo |-> u, s |-> s, waits |-> FALSE]]
    BY <1>3, <1>5 DEF Resume
  <2>2. [todo |-> u, s |-> s, waits |-> FALSE] \in Task
    BY <1>1, <1>2 DEF Task
  <2>3. /\ task' \in [Worker -> Task] /\ task'[w].todo = u /\ ~task'[w].waits
        /\ \A v \in Worker \ {w} : task'[v] = task[v]
    BY <1>1, <2>1, <2>2
  <2>4. Chained'
    BY <1>2, <2>3 DEF Chained
  <2>5. \A q : ~Before(w, "add", q)' /\ ~Before(w, "set", q)' /\ ~Before(w, "send", q)'
    BY <1>2, <1>5, <2>3 DEF Before, Busy
  <2> QED BY <2>3, <2>4, <2>5 DEF Onward
<1> QED BY <1>4, <1>5

(* A step that failed: the request goes on or ends.                         *)
LEMMA FailedIs ==
    ASSUME Typed, Chained, NEW w \in Worker, Busy(w), Head(task[w].todo).do # "add", task' = Failed(w),
           NEW p, NEW s, s = task[w].s
    PROVE  task' \in [Worker -> Task] /\ Chained' /\ Onward(w, "send", p, s)
<1>1. CASE Head(task[w].todo).must
  <2>1. PICK do : do = "send"
    OBVIOUS
  <2>2. do # "set" /\ Ended(w)
    BY <1>1, <2>1 DEF Ended, Failed
  <2>3. task' \in [Worker -> Task] /\ Chained' /\ Onward(w, do, p, s)
    BY <2>2, DropIs
  <2> QED BY <2>1, <2>3
<1>2. CASE ~Head(task[w].todo).must
  <2>1. task' = Resume(w, AfterCall(task[w].todo), s)
    BY <1>2 DEF Failed
  <2> QED BY <1>2, <2>1, SkipIs
<1> QED BY <1>1, <1>2

(* A request that begins.                                                   *)
LEMMA BeginIs ==
    ASSUME Typed, Chained, NEW w \in Worker, NEW t, Segment(t), task' = [task EXCEPT ![w] = [Idle EXCEPT !.todo = t]],
           NEW p, NEW s
    PROVE  task' \in [Worker -> Task] /\ Chained' /\ Onward(w, "begin", p, s)
<1> DEFINE n == [Idle EXCEPT !.todo = t]
<1>1. n.todo = t /\ n.waits = FALSE /\ n \in Task
  BY DEF Idle, Task, NoState, DesiredState, Segment
<1>2. task \in [Worker -> Task]
  BY DEF Typed
<1> HIDE DEF n
<1>3. task'[w] = n /\ task' \in [Worker -> Task] /\ \A v \in Worker \ {w} : task'[v] = task[v]
  BY <1>1, <1>2 DEF n
<1>4. Chained'
  BY <1>1, <1>3 DEF Chained, Segment
<1>5. t # <<>> => Head(t) = t[1]
  BY DEF Segment
<1>6. \A q : ~Before(w, "add", q)' /\ ~Before(w, "set", q)' /\ ~Before(w, "send", q)'
  BY <1>1, <1>3, <1>5 DEF Before, Busy, Segment
<1> QED BY <1>1, <1>3, <1>4, <1>6 DEF Onward

(* What other requests do is not disturbed.                                 *)
LEMMA Others ==
    ASSUME NEW w \in Worker, NEW do, NEW p, NEW s, Onward(w, do, p, s)
    PROVE  \A v \in Worker \ {w} :
              /\ task'[v] = task[v] /\ (Busy(v)' <=> Busy(v)) /\ Dest(v)' = Dest(v)
              /\ \A d, q : Before(v, d, q)' <=> Before(v, d, q)
  BY DEF Onward, Busy, Dest, Before

(* A step that only moves a request on, or begins one.                      *)
LEMMA TaskStep ==
    ASSUME Inv, Typed', Chained', NEW w \in Worker, NEW do, NEW p, NEW s, Onward(w, do, p, s), do # "set",
           UNCHANGED <<row, link, ready, jobs, agent, tangled>>,
           \A q \in Proxy : Before(w, "send", q) /\ ~task[w].waits => q \notin link,
           \A q \in Proxy : \A j \in jobs[q] : j.by # w,
           do \in {"build", "add"} => p \in Proxy /\ s.rev = row[p].rev + 1,
           ~overlap' => ~overlap /\ (Busy(w) \/ \A v \in Worker : ~Busy(v))
    PROVE  Inv'
<1> USE DEF agent
<1>1. \A v \in Worker \ {w} :
         /\ task'[v] = task[v] /\ (Busy(v)' <=> Busy(v)) /\ Dest(v)' = Dest(v)
         /\ \A d, q : Before(v, d, q)' <=> Before(v, d, q)
  BY Others
<1>2. /\ ~task'[w].waits
      /\ \A q \in Proxy :
            /\ Before(w, "add", q)' => do = "build" /\ p = q /\ task'[w].s = s
            /\ Before(w, "set", q)' => do \in {"build", "add"} /\ p = q /\ task'[w].s = s
            /\ ~Before(w, "send", q)'
  BY DEF Onward
<1>3. Typed
  BY DEF Inv
<1>4. \A q \in Proxy : row[q].rev \in Nat /\ row[q].cfg \in Nat /\ \A j \in jobs[q] : j.by \in Worker \cup {None}
  BY <1>3 DEF Typed, Job, DesiredState
<1>5. Calls'
  <2>1. \A v \in Worker : task'[v].waits => v # w
    BY <1>2
  <2>2. \A v \in Worker \ {w} : (Busy(v) /\ Head(task[v].todo).do = "send") => (Busy(v) /\ Head(task[v].todo).do = "send")'
    BY <1>1
  <2> QED BY <1>1, <1>4, <2>1, <2>2 DEF Inv, Calls
<1>6. Blank'
  <2>1. \A q \in Proxy : Before(w, "set", q)' => task'[w].s.rev # 0
    BY <1>2, <1>4
  <2> QED BY <1>1, <1>2, <2>1 DEF Inv, Blank
<1>7. \A q \in Proxy : q \in link /\ ~Unsent(q)' => ~Unsent(q)
  BY <1>1 DEF Unsent
<1>8. Fresh'
  BY <1>7 DEF Inv, Fresh
<1>9. Settled'
  BY <1>7 DEF Inv, Settled, Same
<1>10. Filed'
  BY DEF Inv, Filed, Same
<1>11. ASSUME ~overlap'
       PROVE  (Solo /\ Numbered)'
  <2>1. ~overlap /\ Solo /\ Numbered
    BY <1>11 DEF Inv, Ordered
  <2>2. Solo'
    BY <1>1, <1>11, <2>1 DEF Solo
  <2>3. \A q \in Proxy : Known(q)' = Known(q)
    BY DEF Known
  <2>4. Numbered'
    BY <1>1, <1>2, <2>1, <2>3 DEF Numbered
  <2> QED BY <2>2, <2>4
<1> QED BY <1>5, <1>6, <1>8, <1>9, <1>10, <1>11 DEF Inv, Ordered

(* A request between its calls has no job.                                  *)
LEMMA NoJob ==
    ASSUME Inv, NEW w \in Worker, ~task[w].waits
    PROVE  \A q \in Proxy : \A j \in jobs[q] : j.by # w
<1>1. w # None
  BY FleetAssumption
<1> QED BY <1>1 DEF Inv, Calls

(* Standing at a step.                                                      *)
LEMMA AtIs ==
    ASSUME Inv, NEW w \in Worker, NEW do, At(w, do)
    PROVE  /\ Busy(w) /\ ~task[w].waits /\ Head(task[w].todo) \in AnyStep /\ Head(task[w].todo).do = do
           /\ task[w].s \in DesiredState /\ task[w].todo \in Seq(AnyStep)
           /\ \A d, q : Before(w, d, q) => d = do /\ q = Dest(w)
           /\ Before(w, do, Dest(w))
           /\ do \in Works => Dest(w) \in Proxy
<1>1. task[w] \in Task
  BY DEF Inv, Typed
<1>2. task[w].s \in DesiredState /\ task[w].todo \in Seq(AnyStep) /\ task[w].todo # <<>>
  BY <1>1 DEF Task, At, Busy
<1>3. Head(task[w].todo) \in AnyStep
  BY <1>2
<1>4. do \in Works => Head(task[w].todo).p \in Proxy
  BY <1>3 DEF AnyStep, At, Works, Ends
<1> QED BY <1>2, <1>3, <1>4 DEF At, Before, Dest

(* Building a state keeps the invariant: it has the next revision.          *)
LEMMA BuildStep ==
    ASSUME Inv, NEW w \in Worker, BuildDesiredState(w)
    PROVE  Inv'
<1>1. PICK p \in Proxy : p = Dest(w)
  BY AtIs DEF BuildDesiredState, Works
<1>2. PICK cfg \in {defaults, 0} :
         task' = Continue(w, [rev |-> row[p].rev + 1, cfg |-> cfg, routes |-> {r \in Route : owner[r] = p}])
  BY <1>1 DEF BuildDesiredState, NextDesiredRevision, ListRoutesForProxy
<1>a. PICK s : s = [rev |-> row[p].rev + 1, cfg |-> cfg, routes |-> {r \in Route : owner[r] = p}]
  OBVIOUS
<1>3. s \in DesiredState /\ s.rev = row[p].rev + 1
  BY <1>a DEF Inv, Typed, DesiredState
<1>4. /\ Busy(w) /\ ~task[w].waits /\ Head(task[w].todo).do = "build" /\ \A d, q : Before(w, d, q) => d = "build"
      /\ task' = Continue(w, s)
      /\ UNCHANGED <<hub, link, ready, jobs, agent, ops, history>>
  BY <1>1, <1>2, <1>a, AtIs DEF BuildDesiredState
<1>5. task' \in [Worker -> Task] /\ Chained' /\ Onward(w, "build", p, s)
  BY <1>1, <1>3, <1>4, ContinueIs DEF Inv
<1>6. Typed'
  BY <1>4, <1>5 DEF Inv, Typed, hub, agent, history
<1>7. \A q \in Proxy : \A j \in jobs[q] : j.by # w
  BY <1>4, NoJob
<1> QED BY <1>3, <1>4, <1>5, <1>6, <1>7, TaskStep DEF hub, history

(* Adding the migrating routes keeps the invariant: the revision is taken
   again.                                                                   *)
LEMMA AddStep ==
    ASSUME Inv, NEW w \in Worker, AddExtra(w)
    PROVE  Inv'
<1>1. PICK p \in Proxy : p = Dest(w)
  BY AtIs DEF AddExtra, Works
<1>2. PICK s : s = [task[w].s EXCEPT !.routes = Route, !.rev = row[p].rev + 1]
  OBVIOUS
<1>3. /\ Busy(w) /\ ~task[w].waits /\ Head(task[w].todo).do = "add" /\ \A d, q : Before(w, d, q) => d = "add"
      /\ Before(w, "add", p) /\ task[w].s \in DesiredState
      /\ task' = Continue(w, s)
      /\ UNCHANGED <<hub, link, ready, jobs, agent, ops, faults, history>>
  BY <1>1, <1>2, AtIs DEF AddExtra, NextDesiredRevision
<1>4. s \in DesiredState /\ s.rev = row[p].rev + 1
  <2>1. row[p].rev + 1 \in Nat
    BY DEF Inv, Typed, DesiredState
  <2> QED BY <1>2, <1>3, <2>1 DEF DesiredState
<1>5. task' \in [Worker -> Task] /\ Chained' /\ Onward(w, "add", p, s)
  BY <1>1, <1>3, <1>4, ContinueIs DEF Inv
<1>6. Typed'
  BY <1>3, <1>5 DEF Inv, Typed, hub, agent, history
<1>7. \A q \in Proxy : \A j \in jobs[q] : j.by # w
  BY <1>3, NoJob
<1> QED BY <1>3, <1>4, <1>5, <1>6, <1>7, TaskStep DEF hub, history

(* Assigning a route keeps the invariant.                                   *)
LEMMA MoveStep ==
    ASSUME Inv, NEW w \in Worker, SetRouteProxy(w)
    PROVE  Inv'
<1>1. /\ Busy(w) /\ ~task[w].waits /\ Head(task[w].todo).do = "move" /\ \A d, q : Before(w, d, q) => d = "move"
      /\ task[w].s \in DesiredState /\ Head(task[w].todo) \in AnyStep
      /\ owner' = [owner EXCEPT ![Head(task[w].todo).r] = Dest(w)] /\ task' = Continue(w, task[w].s)
      /\ UNCHANGED <<defaults, row, phase, link, ready, jobs, agent, ops, faults, history>>
  BY AtIs DEF SetRouteProxy
<1>2. PICK p, s : p = Dest(w) /\ s = task[w].s
  OBVIOUS
<1>3. task' \in [Worker -> Task] /\ Chained' /\ Onward(w, "move", p, s)
  BY <1>1, <1>2, ContinueIs DEF Inv
<1>4. Dest(w) \in Proxy
  BY <1>1 DEF AnyStep, Works, Ends, Dest
<1>5. owner' \in [Route -> Proxy]
  BY <1>1, <1>4 DEF Inv, Typed
<1>6. Typed'
  BY <1>1, <1>3, <1>5 DEF Inv, Typed, agent, history
<1>7. \A q \in Proxy : \A j \in jobs[q] : j.by # w
  BY <1>1, NoJob
<1> QED BY <1>1, <1>3, <1>6, <1>7, TaskStep DEF history

(* Noting the phase keeps the invariant.                                    *)
LEMMA NoteStep ==
    ASSUME Inv, NEW w \in Worker, UpdateServiceMigration(w)
    PROVE  Inv'
<1>1. PICK ph \in {"prepared", "completed", "aborted"} : At(w, ph) /\ phase' = ph
  BY DEF UpdateServiceMigration
<1>2. /\ Busy(w) /\ ~task[w].waits /\ Head(task[w].todo).do = ph /\ \A d, q : Before(w, d, q) => d = ph
      /\ task[w].s \in DesiredState
      /\ task' = Continue(w, task[w].s)
      /\ UNCHANGED <<defaults, owner, row, link, ready, jobs, agent, ops, faults, history>>
  BY <1>1, AtIs DEF UpdateServiceMigration
<1>3. PICK p, s : p = Dest(w) /\ s = task[w].s
  OBVIOUS
<1>4. task' \in [Worker -> Task] /\ Chained' /\ Onward(w, ph, p, s)
  BY <1>2, <1>3, ContinueIs DEF Inv
<1>5. Typed'
  BY <1>2, <1>4 DEF Inv, Typed, agent, history
<1>6. \A q \in Proxy : \A j \in jobs[q] : j.by # w
  BY <1>2, NoJob
<1> QED BY <1>2, <1>4, <1>5, <1>6, TaskStep DEF history

(* The start of a request keeps the invariant.                              *)
LEMMA BeginStep ==
    ASSUME Inv, NEW w \in Worker, NEW t, Segment(t), Begin(w, t), pushed' \in BOOLEAN, UNCHANGED hub
    PROVE  Inv'
<1>1. /\ ~Busy(w) /\ task' = [task EXCEPT ![w] = [Idle EXCEPT !.todo = t]]
      /\ overlap' = (overlap \/ \E v \in Worker : Busy(v))
      /\ UNCHANGED <<link, ready, jobs, agent, faults, slipped, tangled>>
  BY DEF Begin
<1>2. PICK p, s : p = None /\ s = NoState
  OBVIOUS
<1>3. task' \in [Worker -> Task] /\ Chained' /\ Onward(w, "begin", p, s)
  BY <1>1, BeginIs DEF Inv
<1>4. Typed'
  BY <1>1, <1>3 DEF Inv, Typed, agent, hub
<1>5. ~task[w].waits /\ \A d, q : ~Before(w, d, q)
  BY <1>1 DEF Inv, Calls, Before
<1>6. \A q \in Proxy : \A j \in jobs[q] : j.by # w
  BY <1>5, NoJob
<1>7. ~overlap' => ~overlap /\ \A v \in Worker : ~Busy(v)
  BY <1>1 DEF Inv, Typed
<1> QED BY <1>1, <1>3, <1>4, <1>5, <1>6, <1>7, TaskStep DEF hub

(* Storing a state keeps the invariant: it is newer than all that is known,
   and on its way next.                                                     *)
LEMMA SetStep ==
    ASSUME Inv, NEW w \in Worker, SetDesiredState(w)
    PROVE  Inv'
<1>1. PICK p \in Proxy : p = Dest(w)
  BY AtIs DEF SetDesiredState, Works
<1>2. PICK s \in DesiredState : s = task[w].s
  BY AtIs DEF SetDesiredState
<1>3. /\ Busy(w) /\ ~task[w].waits /\ Head(task[w].todo).do = "set" /\ \A d, q : Before(w, d, q) => d = "set"
      /\ Before(w, "set", p)
      /\ row' = [row EXCEPT ![p] = s] /\ task' = Continue(w, s)
      /\ UNCHANGED <<defaults, owner, phase, link, ready, jobs, agent, ops, faults, history>>
  BY <1>1, <1>2, AtIs DEF SetDesiredState
<1>4. task' \in [Worker -> Task] /\ Chained' /\ Onward(w, "set", p, s)
  BY <1>1, <1>3, ContinueIs DEF Inv
<1>5. /\ row \in [Proxy -> DesiredState] /\ row' \in [Proxy -> DesiredState] /\ row'[p] = s
      /\ \A q \in Proxy \ {p} : row'[q] = row[q]
  BY <1>3 DEF Inv, Typed
<1>6. Typed'
  BY <1>3, <1>4, <1>5 DEF Inv, Typed, agent, history
<1>7. \A v \in Worker \ {w} :
         /\ task'[v] = task[v] /\ (Busy(v)' <=> Busy(v)) /\ Dest(v)' = Dest(v)
         /\ \A d, q : Before(v, d, q)' <=> Before(v, d, q)
  BY <1>4, Others
<1>8. /\ ~task'[w].waits
      /\ \A q \in Proxy :
            /\ ~Before(w, "add", q)' /\ ~Before(w, "set", q)'
            /\ Before(w, "send", q)' => p = q /\ task'[w].s = s
      /\ Before(w, "send", p)'
  BY <1>4 DEF Onward
<1>9. \A q \in Proxy : \A j \in jobs[q] : j.by # w /\ j.by \in Worker \cup {None}
  BY <1>3, NoJob DEF Inv, Typed, Job
<1>10. Calls'
  <2>1. \A v \in Worker : task'[v].waits => v # w
    BY <1>8
  <2>2. \A v \in Worker \ {w} : (Busy(v) /\ Head(task[v].todo).do = "send") => (Busy(v) /\ Head(task[v].todo).do = "send")'
    BY <1>7
  <2> QED BY <1>3, <1>7, <1>9, <2>1, <2>2 DEF Inv, Calls
<1>11. Blank'
  <2>1. s.rev # 0
    BY <1>2, <1>3 DEF Inv, Blank
  <2> QED BY <1>3, <1>5, <1>7, <1>8, <2>1 DEF Inv, Blank, agent
<1>12. Unsent(p)' /\ \A q \in Proxy : ~Unsent(q)' => ~Unsent(q)
  BY <1>3, <1>7, <1>8 DEF Unsent
<1>13. Fresh'
  BY <1>3, <1>5, <1>12 DEF Inv, Fresh, history
<1>14. Settled'
  BY <1>3, <1>5, <1>12 DEF Inv, Settled, Same, agent, history
<1>15. ASSUME ~overlap'
       PROVE  (Solo /\ Numbered)'
  <2>1. ~overlap /\ Solo /\ Numbered
    BY <1>3, <1>15 DEF Inv, Ordered, history
  <2>2. \A v \in Worker \ {w} : ~Busy(v) /\ ~Busy(v)' /\ \A d, q : ~Before(v, d, q)'
    BY <1>3, <1>7, <2>1 DEF Solo, Before
  <2>3. Solo'
    BY <2>2 DEF Solo
  <2>4. /\ \A t \in Known(p)' : t = s \/ t \in Known(p)
        /\ \A q \in Proxy \ {p} : Known(q)' = Known(q)
    BY <1>3, <1>5 DEF Known, agent
  <2>5. s.rev = row[p].rev + 1 /\ row[p].rev \in Nat /\ \A t \in Known(p) : t.rev <= row[p].rev /\ t.rev \in Nat
    <3>1. \A t \in Known(p) : t \in DesiredState
      BY DEF Known, Inv, Typed, Job
    <3> QED BY <1>2, <1>3, <1>5, <2>1, <3>1 DEF Numbered, DesiredState
  <2>6. Numbered'
    <3>1. ASSUME NEW q \in Proxy
          PROVE  /\ \A t \in Known(q)' : t.rev <= row'[q].rev /\ (t.rev = 0 => t = NoState)
                 /\ \A t, u \in Known(q)' : t.rev = u.rev => t = u
      <4>1. CASE q # p
        BY <1>5, <2>1, <2>4, <4>1 DEF Numbered
      <4>2. CASE q = p
        <5>1. \A t \in Known(p)' : t.rev <= s.rev /\ (t.rev = 0 => t = NoState)
          BY <2>1, <2>4, <2>5 DEF Numbered
        <5>2. ASSUME NEW t \in Known(p)', NEW u \in Known(p)', t.rev = u.rev
              PROVE  t = u
          BY <2>1, <2>4, <2>5, <5>2 DEF Numbered
        <5> QED BY <1>5, <4>2, <5>1, <5>2
      <4> QED BY <4>1, <4>2
    <3>2. ASSUME NEW q \in Proxy, NEW v \in Worker
          PROVE  /\ ~Before(v, "set", q)'
                 /\ Before(v, "send", q)' => task'[v].s = row'[q]
      BY <1>5, <1>8, <2>2
    <3> QED BY <3>1, <3>2 DEF Numbered
  <2> QED BY <2>3, <2>6
<1>16. Filed'
  BY <1>3 DEF Inv, Filed, Same, agent, history
<1> QED BY <1>4, <1>6, <1>10, <1>11, <1>13, <1>14, <1>15, <1>16 DEF Inv, Ordered

(* A call to a proxy that is offline keeps the invariant: the proxy is told
   when it connects.                                                        *)
LEMMA OfflineStep ==
    ASSUME Inv, NEW w \in Worker, NEW p \in Proxy, Before(w, "send", p), p \notin link \/ task[w].waits,
           \A q \in Proxy : \A j \in jobs[q] : j.by # w,
           task' = Failed(w), UNCHANGED <<hub, link, ready, jobs, agent, ops, history>>
    PROVE  Inv'
<1>1. PICK s : s = task[w].s
  OBVIOUS
<1>2. task' \in [Worker -> Task] /\ Chained' /\ Onward(w, "send", p, s)
  BY <1>1, FailedIs DEF Inv, Before
<1>3. Typed'
  BY <1>2 DEF Inv, Typed, hub, agent, history
<1>4. \A q \in Proxy : Before(w, "send", q) /\ ~task[w].waits => q \notin link
  BY DEF Before
<1>5. ~overlap' => ~overlap /\ Busy(w)
  BY DEF Before, history
<1> QED BY <1>2, <1>3, <1>4, <1>5, TaskStep DEF hub, history

-----------------------------------------------------------------------------
(* Sending                                                                  *)

(* What remains of a job that changes.                                      *)
LEMMA JobFields ==
    ASSUME NEW i \in Job
    PROVE  /\ [i EXCEPT !.met = TRUE] \in Job /\ [i EXCEPT !.met = TRUE].pc = i.pc
           /\ [i EXCEPT !.met = TRUE].s = i.s /\ [i EXCEPT !.met = TRUE].by = i.by /\ [i EXCEPT !.met = TRUE].met
           /\ [i EXCEPT !.by = None] \in Job /\ [i EXCEPT !.by = None].pc = i.pc
           /\ [i EXCEPT !.by = None].s = i.s /\ [i EXCEPT !.by = None].by = None /\ [i EXCEPT !.by = None].met = i.met
           /\ \A c \in {"wire", "save", "apply"} :
                 /\ [i EXCEPT !.pc = c] \in Job /\ [i EXCEPT !.pc = c].pc = c
                 /\ [i EXCEPT !.pc = c].s = i.s /\ [i EXCEPT !.pc = c].by = i.by /\ [i EXCEPT !.pc = c].met = i.met
<1>1. /\ [i EXCEPT !.met = TRUE] \in Job /\ [i EXCEPT !.met = TRUE].pc = i.pc
      /\ [i EXCEPT !.met = TRUE].s = i.s /\ [i EXCEPT !.met = TRUE].by = i.by /\ [i EXCEPT !.met = TRUE].met = TRUE
  BY DEF Job
<1>2. /\ [i EXCEPT !.by = None] \in Job /\ [i EXCEPT !.by = None].pc = i.pc
      /\ [i EXCEPT !.by = None].s = i.s /\ [i EXCEPT !.by = None].by = None /\ [i EXCEPT !.by = None].met = i.met
  BY DEF Job
<1>3. ASSUME NEW c \in {"wire", "save", "apply"}
      PROVE  /\ [i EXCEPT !.pc = c] \in Job /\ [i EXCEPT !.pc = c].pc = c
             /\ [i EXCEPT !.pc = c].s = i.s /\ [i EXCEPT !.pc = c].by = i.by /\ [i EXCEPT !.pc = c].met = i.met
  BY DEF Job
<1> QED BY <1>1, <1>2, <1>3

(* What is under way to p once a state has gone out: the jobs there were,
   which have met it, and the new one, which has met what there was.        *)
LEMMA SentIs ==
    ASSUME Typed, NEW p \in Proxy, NEW s \in DesiredState, NEW by \in Worker \cup {None}, Sent(p, s, by)
    PROVE  /\ jobs' \in [Proxy -> SUBSET Job] /\ tangled' \in [Proxy -> BOOLEAN]
           /\ \A q \in Proxy \ {p} : jobs'[q] = jobs[q] /\ tangled'[q] = tangled[q]
           /\ jobs'[p] # {}
           /\ \A j \in jobs'[p] :
                 \/ j.met /\ jobs[p] # {} /\ \E i \in jobs[p] : j.pc = i.pc /\ j.s = i.s /\ j.by = i.by
                 \/ j.pc = "wire" /\ j.s = s /\ j.by = by /\ (~j.met => jobs[p] = {} /\ s = row[p])
           /\ \A j \in jobs'[p] : ~j.met => jobs'[p] = {j}
           /\ \A j \in jobs'[p] : j.met => tangled'[p]
           /\ \A i, j \in jobs'[p] : i.by = j.by /\ i.by # by =>
                 \E k, l \in jobs[p] : k.by = i.by /\ l.by = j.by /\ i = [k EXCEPT !.met = TRUE] /\ j = [l EXCEPT !.met = TRUE]
           /\ (\A k \in jobs[p] : k.by # by) => \A i, j \in jobs'[p] : i.by = by /\ j.by = by => i = j
           /\ ~tangled'[p] => ~tangled[p] /\ jobs[p] = {} /\ s = row[p]
<1> DEFINE met == jobs[p] # {} \/ s # row[p]
           new == [pc |-> "wire", s |-> s, by |-> by, met |-> met]
           old == Met(jobs[p])
<1>1. jobs' = [jobs EXCEPT ![p] = old \cup {new}] /\ tangled' = [tangled EXCEPT ![p] = tangled[p] \/ met]
  BY DEF Sent
<1>2. /\ jobs \in [Proxy -> SUBSET Job] /\ tangled \in [Proxy -> BOOLEAN]
  BY DEF Typed
<1>3. new \in Job /\ new.pc = "wire" /\ new.s = s /\ new.by = by /\ new.met = met /\ met \in BOOLEAN
  BY DEF Job
<1>4. ASSUME NEW i \in jobs[p]
      PROVE  /\ [i EXCEPT !.met = TRUE] \in Job /\ [i EXCEPT !.met = TRUE].pc = i.pc
             /\ [i EXCEPT !.met = TRUE].s = i.s /\ [i EXCEPT !.met = TRUE].by = i.by /\ [i EXCEPT !.met = TRUE].met
  <2>1. i \in Job
    BY <1>2
  <2> QED BY <2>1, JobFields
<1> HIDE DEF new
<1>5. old \in SUBSET Job
  BY <1>4 DEF Met
<1>6. ASSUME NEW j \in old
      PROVE  j.met /\ jobs[p] # {} /\ \E i \in jobs[p] : j.pc = i.pc /\ j.s = i.s /\ j.by = i.by
                 /\ j = [i EXCEPT !.met = TRUE]
  BY <1>4 DEF Met
<1>7. jobs[p] = {} => old = {}
  BY DEF Met
<1> HIDE DEF old
<1>8. /\ jobs' \in [Proxy -> SUBSET Job] /\ jobs'[p] = old \cup {new}
      /\ \A q \in Proxy \ {p} : jobs'[q] = jobs[q]
  BY <1>1, <1>2, <1>3, <1>5
<1> HIDE DEF met
<1>9. /\ tangled' \in [Proxy -> BOOLEAN] /\ tangled'[p] = (tangled[p] \/ met)
      /\ \A q \in Proxy \ {p} : tangled'[q] = tangled[q]
  BY <1>1, <1>2, <1>3
<1>10. /\ jobs'[p] # {}
       /\ \A j \in jobs'[p] :
              \/ j.met /\ jobs[p] # {} /\ \E i \in jobs[p] : j.pc = i.pc /\ j.s = i.s /\ j.by = i.by
              \/ j.pc = "wire" /\ j.s = s /\ j.by = by /\ (~j.met => jobs[p] = {} /\ s = row[p])
  <2>1. ASSUME NEW j \in old
        PROVE  j.met /\ jobs[p] # {} /\ \E i \in jobs[p] : j.pc = i.pc /\ j.s = i.s /\ j.by = i.by
    BY <1>6
  <2>2. new.pc = "wire" /\ new.s = s /\ new.by = by /\ (~new.met => jobs[p] = {} /\ s = row[p])
    BY <1>3 DEF met
  <2> QED BY <1>8, <2>1, <2>2
<1>11. \A j \in jobs'[p] : ~j.met => jobs'[p] = {j}
  BY <1>3, <1>6, <1>7, <1>8 DEF met
<1>12. \A j \in jobs'[p] : j.met => tangled'[p]
  BY <1>2, <1>3, <1>6, <1>8, <1>9 DEF met
<1>13. \A i, j \in jobs'[p] : i.by = j.by /\ i.by # by =>
          \E k, l \in jobs[p] : k.by = i.by /\ l.by = j.by /\ i = [k EXCEPT !.met = TRUE] /\ j = [l EXCEPT !.met = TRUE]
  BY <1>3, <1>6, <1>8
<1>14. ~tangled'[p] => ~tangled[p] /\ jobs[p] = {} /\ s = row[p]
  BY <1>2, <1>9 DEF met
<1>15. (\A k \in jobs[p] : k.by # by) => \A i, j \in jobs'[p] : i.by = by /\ j.by = by => i = j
  BY <1>6, <1>8
<1> QED BY <1>8, <1>9, <1>10, <1>11, <1>12, <1>13, <1>14, <1>15

(* A state that goes out keeps the invariant.                               *)
LEMMA SendStep ==
    ASSUME Inv, Typed', Chained', Calls', NEW p \in Proxy, NEW s \in DesiredState, NEW by \in Worker \cup {None},
           Sent(p, s, by), row[p].rev # 0, ~overlap => s \in Known(p),
           UNCHANGED <<hub, link, agent, overlap>>,
           \A q \in Proxy : ready'[q] = ready[q] \/ (q = p /\ ready'[q].pc = "none"),
           \A v \in Worker : task'[v].s = task[v].s /\ task'[v].todo = task[v].todo,
           \A v \in Worker : ~Before(v, "send", p) => task'[v] = task[v]
    PROVE  Inv'
<1> USE DEF hub, agent
<1>1. /\ \A q \in Proxy \ {p} : jobs'[q] = jobs[q] /\ tangled'[q] = tangled[q]
      /\ jobs'[p] # {}
      /\ \A j \in jobs'[p] :
            \/ j.met /\ jobs[p] # {} /\ \E i \in jobs[p] : j.pc = i.pc /\ j.s = i.s /\ j.by = i.by
            \/ j.pc = "wire" /\ j.s = s /\ j.by = by /\ (~j.met => jobs[p] = {} /\ s = row[p])
      /\ \A j \in jobs'[p] : ~j.met => jobs'[p] = {j}
      /\ \A j \in jobs'[p] : j.met => tangled'[p]
      /\ ~tangled'[p] => ~tangled[p] /\ jobs[p] = {} /\ s = row[p]
  BY SentIs DEF Inv
<1>2. \A v \in Worker : (Busy(v)' <=> Busy(v)) /\ \A d, q : Before(v, d, q)' <=> Before(v, d, q)
  BY DEF Busy, Before, Dest
<1>3. Blank'
  BY <1>1, <1>2 DEF Inv, Blank
<1>4. \A q \in Proxy \ {p} : ~Unsent(q)' => ~Unsent(q)
  <2>1. \A v \in Worker, q \in Proxy \ {p} : Before(v, "send", q) => task'[v] = task[v]
    BY DEF Before
  <2> QED BY <1>2, <2>1 DEF Unsent
<1>5. Fresh'
  BY <1>1, <1>4 DEF Inv, Fresh
<1>6. Settled'
  BY <1>1, <1>4 DEF Inv, Settled, Same
<1>7. ASSUME ~overlap'
      PROVE  (Solo /\ Numbered)'
  <2>1. ~overlap /\ Solo /\ Numbered
    BY <1>7 DEF Inv, Ordered
  <2>2. Solo'
    BY <1>2, <2>1 DEF Solo
  <2>3. \A q \in Proxy : Known(q)' \subseteq Known(q)
    <3>1. ASSUME NEW q \in Proxy, NEW t \in Known(q)'
          PROVE  t \in Known(q)
      <4>1. CASE t = row[q] \/ t = saved[q] \/ (ready'[q].pc = "send" /\ t = ready'[q].s)
        BY <4>1 DEF Known
      <4>2. CASE \E j \in jobs'[q] : t = j.s
        BY <1>1, <2>1, <4>2 DEF Known
      <4> QED BY <3>1, <4>1, <4>2 DEF Known
    <3> QED BY <3>1
  <2>4. Numbered'
    BY <1>2, <2>1, <2>3 DEF Numbered
  <2> QED BY <2>2, <2>4
<1>8. Filed'
  <2>1. ASSUME NEW q \in Proxy, ~unsaved[q], \A j \in jobs'[q] : j.pc = "wire", ~tangled'[q]
        PROVE  Same(live[q], saved[q])
    BY <1>1, <2>1 DEF Inv, Filed
  <2>2. ASSUME NEW q \in Proxy, ~unsaved[q], NEW j \in jobs'[q], ~j.met, j.pc = "apply"
        PROVE  saved[q] = j.s
    BY <1>1, <2>2 DEF Inv, Filed
  <2> QED BY <2>1, <2>2 DEF Filed, Same
<1> QED BY <1>3, <1>5, <1>6, <1>7, <1>8 DEF Inv, Ordered

(* A call to an agent keeps the invariant.                                  *)
LEMMA CallStep ==
    ASSUME Inv, NEW w \in Worker, ApplyDesired(w)
    PROVE  Inv'
<1>1. PICK p \in Proxy : p = Dest(w)
  BY AtIs DEF ApplyDesired, Works
<1>2. PICK s \in DesiredState : s = task[w].s
  BY AtIs DEF ApplyDesired
<1>3. /\ Busy(w) /\ ~task[w].waits /\ Head(task[w].todo).do = "send" /\ Before(w, "send", p)
      /\ UNCHANGED <<hub, link, ready, agent, ops, faults, overlap, pushed, slipped>>
  BY <1>1, AtIs DEF ApplyDesired
<1>4. \A q \in Proxy : \A j \in jobs[q] : j.by # w
  BY <1>3, NoJob
<1>5. CASE p \notin link
  <2>1. task' = Failed(w) /\ UNCHANGED <<jobs, tangled>>
    BY <1>1, <1>5 DEF ApplyDesired, targetFor
  <2> QED BY <1>3, <1>4, <1>5, <2>1, OfflineStep DEF history
<1>6. CASE p \in link
  <2>1. Sent(p, s, w) /\ task' = [task EXCEPT ![w].waits = TRUE]
    BY <1>1, <1>2, <1>6 DEF ApplyDesired, targetFor
  <2>2. task \in [Worker -> Task] /\ task[w] \in Task
    BY DEF Inv, Typed
  <2>3. /\ task' \in [Worker -> Task] /\ task'[w].waits /\ task'[w].s = task[w].s /\ task'[w].todo = task[w].todo
        /\ \A v \in Worker \ {w} : task'[v] = task[v]
    <3>1. [task[w] EXCEPT !.waits = TRUE] \in Task
      BY <2>2 DEF Task
    <3> QED BY <2>1, <2>2, <3>1 DEF Task
  <2>4. Chained'
    BY <2>3 DEF Inv, Chained
  <2>5. jobs' \in [Proxy -> SUBSET Job] /\ tangled' \in [Proxy -> BOOLEAN]
    BY <2>1, SentIs DEF Inv
  <2>6. Typed'
    BY <1>3, <2>3, <2>5 DEF Inv, Typed, hub, agent
  <2>7. Calls'
    <3>1. \A v \in Worker : (Busy(v)' <=> Busy(v)) /\ Dest(v)' = Dest(v) /\ Head(task'[v].todo) = Head(task[v].todo)
      BY <2>3 DEF Busy, Dest
    <3>2. \A v \in Worker : task'[v].waits => Busy(v)' /\ Head(task'[v].todo).do = "send"
      BY <1>3, <2>3, <3>1 DEF Inv, Calls
    <3>3. /\ \A q \in Proxy \ {p} : jobs'[q] = jobs[q]
          /\ \A j \in jobs'[p] : j.by = w \/ \E i \in jobs[p] : j.by = i.by
          /\ \A i, j \in jobs'[p] : i.by = j.by /\ i.by # w =>
                \E k, l \in jobs[p] : k.by = i.by /\ l.by = j.by /\ i = [k EXCEPT !.met = TRUE] /\ j = [l EXCEPT !.met = TRUE]
          /\ \A i, j \in jobs'[p] : i.by = w /\ j.by = w => i = j
      BY <1>4, <2>1, SentIs DEF Inv
    <3>4. ASSUME NEW q \in Proxy, NEW j \in jobs'[q], j.by # None
          PROVE  task'[j.by].waits /\ Dest(j.by)' = q
      <4>1. CASE j.by = w
        BY <1>1, <1>4, <2>3, <3>1, <3>3, <4>1
      <4>2. CASE j.by # w
        <5>1. PICK i \in jobs[q] : i.by = j.by
          BY <3>3, <4>2
        <5>2. i.by \in Worker /\ task[i.by].waits /\ Dest(i.by) = q
          BY <3>4, <5>1 DEF Inv, Calls, Typed, Job
        <5> QED BY <2>3, <3>1, <4>2, <5>1, <5>2
      <4> QED BY <4>1, <4>2
    <3>5. ASSUME NEW q \in Proxy, NEW i \in jobs'[q], NEW j \in jobs'[q], i.by = j.by, i.by # None
          PROVE  i = j
      <4>1. CASE q # p
        BY <3>3, <3>5, <4>1 DEF Inv, Calls
      <4>2. CASE q = p /\ i.by # w
        <5>1. PICK k, l \in jobs[p] : k.by = i.by /\ l.by = j.by /\ i = [k EXCEPT !.met = TRUE] /\ j = [l EXCEPT !.met = TRUE]
          BY <3>3, <3>5, <4>2
        <5>2. k = l
          BY <3>5, <5>1 DEF Inv, Calls
        <5> QED BY <5>1, <5>2
      <4>3. CASE q = p /\ i.by = w
        BY <3>3, <3>5, <4>3 DEF Job
      <4> QED BY <4>1, <4>2, <4>3
    <3> QED BY <3>2, <3>4, <3>5 DEF Calls
  <2>8. row[p].rev # 0
    BY <1>3 DEF Inv, Blank
  <2>9. ~overlap => s \in Known(p)
    <3>1. ~overlap => s = row[p]
      BY <1>2, <1>3 DEF Inv, Ordered, Numbered
    <3> QED BY <3>1 DEF Known
  <2>10. \A v \in Worker : ~Before(v, "send", p) => task'[v] = task[v]
    BY <1>3, <2>3
  <2> QED BY <1>3, <2>1, <2>3, <2>4, <2>6, <2>7, <2>8, <2>9, <2>10, SendStep
<1> QED BY <1>5, <1>6

(* The state a new session is told keeps the invariant.                     *)
LEMMA ReadyCallStep ==
    ASSUME Inv, NEW p \in Proxy, OnReadyCall(p)
    PROVE  Inv'
<1>1. PICK s \in DesiredState : s = ready[p].s
  BY DEF Inv, Typed
<1>2. /\ ready[p].pc = "send" /\ Sent(p, s, None) /\ ready' = [ready EXCEPT ![p] = NotReady]
      /\ UNCHANGED <<hub, task, link, agent, ops, faults, overlap, pushed, slipped>>
  BY <1>1 DEF OnReadyCall
<1>3. /\ jobs' \in [Proxy -> SUBSET Job] /\ tangled' \in [Proxy -> BOOLEAN]
      /\ \A q \in Proxy \ {p} : jobs'[q] = jobs[q]
      /\ \A j \in jobs'[p] : j.by = None \/ \E i \in jobs[p] : j.by = i.by
      /\ \A i, j \in jobs'[p] : i.by = j.by /\ i.by # None =>
             \E k, l \in jobs[p] : k.by = i.by /\ l.by = j.by /\ i = [k EXCEPT !.met = TRUE] /\ j = [l EXCEPT !.met = TRUE]
  BY <1>2, SentIs DEF Inv
<1>4. /\ ready' \in [Proxy -> [pc : {"none", "read", "send"}, s : DesiredState]]
      /\ \A q \in Proxy : ready'[q] = ready[q] \/ (q = p /\ ready'[q].pc = "none")
  <2>1. NotReady \in [pc : {"none", "read", "send"}, s : DesiredState] /\ NotReady.pc = "none"
    BY DEF NotReady, NoState, DesiredState
  <2> QED BY <1>2, <2>1 DEF Inv, Typed
<1>5. Typed' /\ Chained'
  BY <1>2, <1>3, <1>4 DEF Inv, Typed, Chained, hub, agent
<1>6. Calls'
  <2>1. ASSUME NEW q \in Proxy, NEW j \in jobs'[q], j.by # None
        PROVE  task[j.by].waits /\ Dest(j.by) = q
    <3>1. PICK i \in jobs[q] : i.by = j.by
      BY <1>3, <2>1
    <3> QED BY <2>1, <3>1 DEF Inv, Calls
  <2>2. ASSUME NEW q \in Proxy, NEW i \in jobs'[q], NEW j \in jobs'[q], i.by = j.by, i.by # None
        PROVE  i = j
    <3>1. CASE q # p
      BY <1>3, <2>2, <3>1 DEF Inv, Calls
    <3>2. CASE q = p
      <4>1. PICK k, l \in jobs[p] : k.by = i.by /\ l.by = j.by /\ i = [k EXCEPT !.met = TRUE] /\ j = [l EXCEPT !.met = TRUE]
        BY <1>3, <2>2, <3>2
      <4>2. k = l
        BY <2>2, <4>1 DEF Inv, Calls
      <4> QED BY <4>1, <4>2
    <3> QED BY <3>1, <3>2
  <2> QED BY <1>2, <2>1, <2>2 DEF Inv, Calls, Busy, Dest
<1>7. row[p].rev # 0 /\ (~overlap => s \in Known(p))
  BY <1>1, <1>2 DEF Inv, Blank, Known
<1> QED BY <1>2, <1>4, <1>5, <1>6, <1>7, SendStep

(* What is asked of requests where none goes on.                            *)
LEMMA Resting ==
    ASSUME UNCHANGED task
    PROVE  \A v, d, q : (Busy(v)' <=> Busy(v)) /\ Dest(v)' = Dest(v) /\ (Before(v, d, q)' <=> Before(v, d, q))
  BY DEF Busy, Dest, Before

(* A session's start, or its first look at the row, keeps the invariant.    *)
LEMMA ReadyStep ==
    ASSUME Inv, NEW p \in Proxy, connectOnce(p) \/ OnReady(p)
    PROVE  Inv'
<1> USE DEF hub, agent
<1>1. PICK r \in [pc : {"none", "read", "send"}, s : DesiredState] :
         /\ ready' = [ready EXCEPT ![p] = r]
         /\ r.pc = "send" => r.s = row[p] /\ row[p].rev # 0
         /\ \/ UNCHANGED <<jobs, tangled>> /\ (r.pc = "none" => row[p].rev = 0)
            \/ jobs' = [jobs EXCEPT ![p] = Met(jobs[p])] /\ tangled' = [tangled EXCEPT ![p] = TRUE]
  <2>1. NotReady \in [pc : {"none", "read", "send"}, s : DesiredState] /\ NotReady.pc = "none"
    BY DEF NotReady, NoState, DesiredState
  <2>2. CASE connectOnce(p)
    <3>1. /\ [pc |-> "read", s |-> NoState] \in [pc : {"none", "read", "send"}, s : DesiredState]
          /\ [pc |-> "read", s |-> NoState].pc = "read"
      BY DEF NoState, DesiredState
    <3> QED BY <2>2, <3>1 DEF connectOnce, history
  <2>3. CASE OnReady(p) /\ ready' = [ready EXCEPT ![p] = NotReady]
                        /\ jobs' = [jobs EXCEPT ![p] = Met(jobs[p])] /\ tangled' = [tangled EXCEPT ![p] = TRUE]
    BY <2>1, <2>3
  <2>4. CASE /\ OnReady(p) /\ UNCHANGED <<jobs, tangled>>
             /\ ready' = [ready EXCEPT ![p] = IF row[p].rev = 0 THEN NotReady ELSE [pc |-> "send", s |-> row[p]]]
    <3>1. CASE row[p].rev = 0
      BY <2>1, <2>4, <3>1
    <3>2. CASE row[p].rev # 0
      <4>1. row[p] \in DesiredState
        BY DEF Inv, Typed
      <4>2. [pc |-> "send", s |-> row[p]] \in [pc : {"none", "read", "send"}, s : DesiredState]
        BY <4>1
      <4> QED BY <2>4, <3>2, <4>2
    <3> QED BY <3>1, <3>2
  <2> QED BY <2>2, <2>3, <2>4 DEF OnReady
<1>2. /\ link' \in SUBSET Proxy /\ link \subseteq link' /\ \A q \in Proxy \ {p} : q \in link' => q \in link
      /\ UNCHANGED <<hub, task, agent, overlap, pushed, slipped>>
  BY DEF connectOnce, OnReady, Inv, Typed, history
<1>3. /\ ready' \in [Proxy -> [pc : {"none", "read", "send"}, s : DesiredState]] /\ ready'[p] = r
      /\ \A q \in Proxy \ {p} : ready'[q] = ready[q]
  BY <1>1 DEF Inv, Typed
<1>a. jobs \in [Proxy -> SUBSET Job] /\ tangled \in [Proxy -> BOOLEAN]
  BY DEF Inv, Typed
<1>b. ASSUME NEW j \in Met(jobs[p])
      PROVE  /\ j \in Job /\ j.met
             /\ \E i \in jobs[p] : j = [i EXCEPT !.met = TRUE] /\ j.pc = i.pc /\ j.s = i.s /\ j.by = i.by
  <2>1. PICK i \in jobs[p] : j = [i EXCEPT !.met = TRUE]
    BY DEF Met
  <2>2. i \in Job
    BY <1>a
  <2> QED BY <2>1, <2>2, JobFields
<1>c. jobs[p] # {} => Met(jobs[p]) # {}
  BY DEF Met
<1>d. /\ jobs' \in [Proxy -> SUBSET Job] /\ tangled' \in [Proxy -> BOOLEAN]
      /\ \A q \in Proxy \ {p} : jobs'[q] = jobs[q] /\ tangled'[q] = tangled[q]
      /\ \/ jobs'[p] = jobs[p] /\ tangled'[p] = tangled[p] /\ (r.pc = "none" => row[p].rev = 0)
         \/ jobs'[p] = Met(jobs[p]) /\ tangled'[p]
  <2>1. Met(jobs[p]) \in SUBSET Job
    BY <1>b
  <2> QED BY <1>1, <1>a, <2>1
<1>e. \A q \in Proxy : /\ \A j \in jobs'[q] : \E i \in jobs[q] : j.pc = i.pc /\ j.s = i.s /\ j.by = i.by
                       /\ ~tangled'[q] => jobs'[q] = jobs[q] /\ ~tangled[q]
                       /\ \A j \in jobs'[q] : ~j.met => jobs'[q] = jobs[q]
  BY <1>b, <1>d
<1>4. Typed' /\ Chained'
  BY <1>2, <1>3, <1>d DEF Inv, Typed, Chained
<1>f. Calls'
  <2>1. ASSUME NEW q \in Proxy, NEW j \in jobs'[q], j.by # None
        PROVE  task[j.by].waits /\ Dest(j.by) = q
    <3>1. PICK i \in jobs[q] : j.by = i.by
      BY <1>e
    <3> QED BY <2>1, <3>1 DEF Inv, Calls
  <2>2. ASSUME NEW q \in Proxy, NEW i \in jobs'[q], NEW j \in jobs'[q], i.by = j.by, i.by # None
        PROVE  i = j
    <3>1. CASE jobs'[q] = jobs[q]
      BY <2>2, <3>1 DEF Inv, Calls
    <3>2. CASE q = p /\ jobs'[p] = Met(jobs[p])
      <4>1. PICK k \in jobs[p] : i = [k EXCEPT !.met = TRUE] /\ i.by = k.by
        BY <1>b, <3>2
      <4>2. PICK l \in jobs[p] : j = [l EXCEPT !.met = TRUE] /\ j.by = l.by
        BY <1>b, <3>2
      <4>3. k = l
        BY <2>2, <4>1, <4>2 DEF Inv, Calls
      <4> QED BY <4>1, <4>2, <4>3
    <3> QED BY <1>d, <3>1, <3>2
  <2> QED BY <1>2, <2>1, <2>2 DEF Inv, Calls, Busy, Dest
<1>5. \A v, d, q : (Busy(v)' <=> Busy(v)) /\ (Before(v, d, q)' <=> Before(v, d, q))
  BY <1>2, Resting
<1>6. Blank'
  <2>1. \A q \in Proxy : jobs[q] = {} => jobs'[q] = {}
    BY <1>e
  <2> QED BY <1>1, <1>2, <1>3, <1>5, <2>1 DEF Inv, Blank
<1>7. /\ \A q \in Proxy \ {p} : Unsent(q)' <=> Unsent(q)
      /\ ~Unsent(p)' => r.pc = "none"
  BY <1>2, <1>3, <1>5 DEF Unsent
<1>8. Fresh'
  <2>1. ASSUME NEW q \in Proxy, NEW j \in jobs'[q]
        PROVE  /\ j.met => tangled'[q]
               /\ ~j.met => jobs'[q] = {j} /\ (q \in link' /\ ~Unsent(q)' => j.s = row[q])
    <3>1. CASE q # p
      BY <1>2, <1>7, <1>d, <3>1 DEF Inv, Fresh
    <3>2. CASE q = p /\ jobs'[p] = jobs[p] /\ tangled'[p] = tangled[p] /\ (r.pc = "none" => row[p].rev = 0)
      <4>1. row[p].rev # 0
        BY <3>2 DEF Inv, Blank
      <4> QED BY <1>7, <3>2, <4>1 DEF Inv, Fresh
    <3>3. CASE q = p /\ jobs'[p] = Met(jobs[p]) /\ tangled'[p]
      BY <1>b, <3>3
    <3> QED BY <1>d, <3>1, <3>2, <3>3
  <2> QED BY <1>2, <2>1 DEF Fresh
<1>9. Settled'
  <2>1. row[p].rev = 0 => Same(live[p], row[p])
    <3>1. NoState.cfg = 0 /\ NoState.routes = {}
      BY DEF NoState
    <3> QED BY <3>1 DEF Inv, Blank, Same
  <2>2. ASSUME NEW q \in Proxy, q \in link', ~Unsent(q)', jobs'[q] = {}, ~tangled'[q]
        PROVE  Same(live[q], row[q])
    <3>1. CASE q # p
      BY <1>2, <1>7, <1>d, <2>2, <3>1 DEF Inv, Settled
    <3>2. CASE q = p
      BY <1>7, <1>d, <2>1, <2>2, <3>2
    <3> QED BY <3>1, <3>2
  <2> QED BY <1>2, <2>2 DEF Settled, Same
<1>10. ASSUME ~overlap'
       PROVE  (Solo /\ Numbered)'
  <2>1. ~overlap /\ Solo /\ Numbered
    BY <1>2, <1>10 DEF Inv, Ordered
  <2>2. Solo'
    BY <1>5, <2>1 DEF Solo
  <2>3. ASSUME NEW q \in Proxy, NEW t \in Known(q)'
        PROVE  t \in Known(q)
    <3>1. CASE t = row[q] \/ t = saved[q] \/ (ready'[q].pc = "send" /\ t = ready'[q].s)
      BY <1>1, <1>3, <3>1 DEF Known
    <3>2. CASE \E j \in jobs'[q] : t = j.s
      BY <1>e, <3>2 DEF Known
    <3> QED BY <1>2, <2>3, <3>1, <3>2 DEF Known
  <2>4. Numbered'
    BY <1>2, <1>5, <2>1, <2>3 DEF Numbered
  <2> QED BY <2>2, <2>4
<1>11. Filed'
  <2>1. ASSUME NEW q \in Proxy, ~unsaved[q], \A j \in jobs'[q] : j.pc = "wire", ~tangled'[q]
        PROVE  Same(live[q], saved[q])
    BY <1>e, <2>1 DEF Inv, Filed
  <2>2. ASSUME NEW q \in Proxy, ~unsaved[q], NEW j \in jobs'[q], ~j.met, j.pc = "apply"
        PROVE  saved[q] = j.s
    BY <1>e, <2>2 DEF Inv, Filed
  <2> QED BY <1>2, <2>1, <2>2 DEF Filed, Same
<1> QED BY <1>4, <1>6, <1>8, <1>9, <1>10, <1>11, <1>f DEF Inv, Ordered

-----------------------------------------------------------------------------
(* What faults take away                                                    *)

(* What an agent starts with is what it saved.                              *)
LEMMA LoadIs ==
    ASSUME NEW s \in DesiredState
    PROVE  /\ LoadDesiredStateOptional(s) \in [cfg : Nat, routes : SUBSET Route]
           /\ LoadDesiredStateOptional(s).routes = s.routes /\ LoadDesiredStateOptional(s).cfg = s.cfg
           /\ Same(LoadDesiredStateOptional(s), s)
           /\ \A l \in Refused(NoLive, s) : l \in [cfg : Nat, routes : SUBSET Route] /\ l.routes = {}
<1> DEFINE l == NoLive
<1>1. ApplySafeConfig(l, s) = [cfg |-> s.cfg, routes |-> {}]
  BY DEF ApplySafeConfig, DesiredState, NoLive
<1>2. LoadDesiredStateOptional(s) = [cfg |-> s.cfg, routes |-> s.routes]
  BY <1>1 DEF LoadDesiredStateOptional, Applied, applyRoutingSnapshot
<1>3. \A m \in Refused(NoLive, s) : m = NoLive \/ m = [cfg |-> s.cfg, routes |-> {}]
  BY <1>1 DEF Refused
<1>4. s.cfg \in Nat
  BY DEF DesiredState
<1> QED BY <1>2, <1>3, <1>4 DEF DesiredState, Same, NoLive

(* A fault that takes jobs, requests and sessions away keeps the invariant. *)
LEMMA ThinStep ==
    ASSUME Inv, Typed', Chained', Calls', UNCHANGED <<row, saved, unsaved, overlap>>, link' \subseteq link,
           \A q \in Proxy : tangled[q] => tangled'[q],
           \A q \in Proxy : ready'[q] = ready[q] \/ (ready'[q].pc = "none" /\ q \notin link'),
           \A q \in Proxy :
              \/ live'[q] = live[q]
              \/ /\ q \notin link' /\ jobs'[q] = {}
                 /\ live'[q] = LoadDesiredStateOptional(saved[q]) \/ (tangled'[q] /\ live'[q].routes = {}),
           \A v \in Worker : Busy(v)' => Busy(v),
           \A v \in Worker, q \in Proxy : \A d \in {"add", "set", "send"} :
              Before(v, d, q)' => Before(v, d, q) /\ task'[v].s = task[v].s,
           \A q \in Proxy : q \in link' /\ ~Unsent(q)' => ~Unsent(q),
           \A q \in Proxy : \A j \in jobs'[q] : \E i \in jobs[q] : j.pc = i.pc /\ j.s = i.s /\ j.met = i.met,
           \A q \in Proxy : \A i \in jobs[q] : jobs[q] = {i} => \A j, k \in jobs'[q] : j = k,
           \A q \in Proxy : q \in link' /\ jobs'[q] = {} => jobs[q] = {},
           \A q \in Proxy : (\A j \in jobs'[q] : j.pc = "wire") =>
              \/ live'[q] = LoadDesiredStateOptional(saved[q]) \/ tangled'[q]
              \/ live'[q] = live[q] /\ \A i \in jobs[q] : i.pc = "wire"
    PROVE  Inv'
<1>1. \A q \in Proxy : saved[q] \in DesiredState
  BY DEF Inv, Typed
<1>2. NoState.routes = {}
  BY DEF NoState
<1>3. Blank'
  <2>1. ASSUME NEW q \in Proxy, row[q].rev = 0
        PROVE  jobs'[q] = {} /\ live'[q].routes = {} /\ ready'[q].pc # "send"
    <3>1. jobs[q] = {} /\ live[q].routes = {} /\ ready[q].pc # "send" /\ saved[q] = NoState
      BY <2>1 DEF Inv, Blank
    <3>2. LoadDesiredStateOptional(saved[q]).routes = {}
      BY <1>1, <1>2, <3>1, LoadIs
    <3> QED BY <3>1, <3>2
  <2> QED BY <2>1 DEF Inv, Blank
<1>4. Fresh'
  <2>1. ASSUME NEW q \in Proxy, NEW j \in jobs'[q]
        PROVE  /\ j.met => tangled'[q]
               /\ ~j.met => jobs'[q] = {j} /\ (q \in link' /\ ~Unsent(q)' => j.s = row[q])
    <3>1. PICK i \in jobs[q] : j.s = i.s /\ j.met = i.met
      OBVIOUS
    <3>2. /\ i.met => tangled[q]
          /\ ~i.met => jobs[q] = {i} /\ (q \in link /\ ~Unsent(q) => i.s = row[q])
      BY <3>1 DEF Inv, Fresh
    <3> QED BY <3>1, <3>2
  <2> QED BY <2>1 DEF Fresh
<1>5. Settled'
  <2>1. \A q \in Proxy : q \in link' => live'[q] = live[q]
    OBVIOUS
  <2> QED BY <2>1 DEF Inv, Settled, Same
<1>6. Filed'
  <2>1. ASSUME NEW q \in Proxy, ~unsaved[q], \A j \in jobs'[q] : j.pc = "wire", ~tangled'[q]
        PROVE  Same(live'[q], saved[q])
    <3>1. CASE live'[q] = LoadDesiredStateOptional(saved[q])
      BY <1>1, <3>1, LoadIs
    <3>2. CASE live'[q] = live[q] /\ \A i \in jobs[q] : i.pc = "wire"
      BY <2>1, <3>2 DEF Inv, Filed
    <3> QED BY <2>1, <3>1, <3>2
  <2>2. ASSUME NEW q \in Proxy, ~unsaved[q], NEW j \in jobs'[q], ~j.met, j.pc = "apply"
        PROVE  saved[q] = j.s
    <3>1. PICK i \in jobs[q] : j.s = i.s /\ j.met = i.met /\ j.pc = i.pc
      BY <2>2
    <3> QED BY <2>2, <3>1 DEF Inv, Filed
  <2> QED BY <2>1, <2>2 DEF Filed, Same
<1>7. ASSUME ~overlap'
      PROVE  (Solo /\ Numbered)'
  <2>1. ~overlap /\ Solo /\ Numbered
    BY <1>7 DEF Inv, Ordered
  <2>2. Solo'
    BY <2>1 DEF Solo
  <2>3. ASSUME NEW q \in Proxy, NEW t \in Known(q)'
        PROVE  t \in Known(q)
    <3>1. CASE t = row[q] \/ t = saved[q] \/ (ready'[q].pc = "send" /\ t = ready'[q].s)
      BY <3>1 DEF Known
    <3>2. CASE \E j \in jobs'[q] : t = j.s
      BY <3>2 DEF Known
    <3> QED BY <2>3, <3>1, <3>2 DEF Known
  <2>4. Numbered'
    BY <2>1, <2>3 DEF Numbered
  <2> QED BY <2>2, <2>4
<1> QED BY <1>3, <1>4, <1>5, <1>6, <1>7 DEF Inv, Ordered

(* The jobs that outlive their connection.                                  *)
LEMMA UnansweredIs ==
    ASSUME NEW js \in SUBSET Job
    PROVE  /\ Unanswered(js) \in SUBSET Job
           /\ \A j \in Unanswered(js) :
                 j.by = None /\ j.pc # "wire" /\ \E i \in js : j.pc = i.pc /\ j.s = i.s /\ j.met = i.met
           /\ \A i \in js : js = {i} => \A j, k \in Unanswered(js) : j = k
           /\ \A i \in js : i.pc # "wire" => Unanswered(js) # {}
<1>1. ASSUME NEW j \in Unanswered(js)
      PROVE  \E i \in js : i.pc # "wire" /\ j = [i EXCEPT !.by = None]
  BY DEF Unanswered
<1>2. ASSUME NEW j \in Unanswered(js)
      PROVE  j \in Job /\ j.by = None /\ j.pc # "wire" /\ \E i \in js : j.pc = i.pc /\ j.s = i.s /\ j.met = i.met
  <2>1. PICK i \in js : i.pc # "wire" /\ j = [i EXCEPT !.by = None]
    BY <1>1
  <2>2. i \in Job
    OBVIOUS
  <2> QED BY <2>1, <2>2, JobFields
<1>3. \A i \in js : js = {i} => \A j, k \in Unanswered(js) : j = k
  BY <1>1
<1>4. \A i \in js : i.pc # "wire" => Unanswered(js) # {}
  BY DEF Unanswered
<1> QED BY <1>2, <1>3, <1>4

(* A lost connection keeps the invariant.                                   *)
LEMMA LinkDownStep ==
    ASSUME Inv, NEW p \in Proxy, LinkDown(p)
    PROVE  Inv'
<1>1. /\ link' = link \ {p} /\ ready' = [ready EXCEPT ![p] = NotReady]
      /\ jobs' = [jobs EXCEPT ![p] = Unanswered(jobs[p])]
      /\ UNCHANGED <<hub, task, agent, ops, history>>
  BY DEF LinkDown
<1>2. NotReady \in [pc : {"none", "read", "send"}, s : DesiredState] /\ NotReady.pc = "none"
  BY DEF NotReady, NoState, DesiredState
<1>3. /\ ready' \in [Proxy -> [pc : {"none", "read", "send"}, s : DesiredState]]
      /\ \A q \in Proxy : ready'[q] = ready[q] \/ (ready'[q].pc = "none" /\ q \notin link')
      /\ \A q \in Proxy \ {p} : ready'[q] = ready[q]
  BY <1>1, <1>2 DEF Inv, Typed
<1>4. jobs \in [Proxy -> SUBSET Job] /\ jobs[p] \in SUBSET Job
  BY DEF Inv, Typed
<1>5. /\ jobs' \in [Proxy -> SUBSET Job] /\ jobs'[p] = Unanswered(jobs[p])
      /\ \A q \in Proxy \ {p} : jobs'[q] = jobs[q]
  BY <1>1, <1>4, UnansweredIs
<1>6. Typed' /\ Chained'
  BY <1>1, <1>3, <1>5 DEF Inv, Typed, Chained, hub, agent, history
<1>7. \A q \in Proxy : \A j \in jobs'[q] :
         (q # p /\ j \in jobs[q]) \/ (j.by = None /\ \E i \in jobs[q] : j.pc = i.pc /\ j.s = i.s /\ j.met = i.met)
  BY <1>4, <1>5, UnansweredIs
<1>8. Calls'
  <2>1. \A q \in Proxy : \A j \in jobs'[q] : j.by # None => j \in jobs[q]
    BY <1>7
  <2> QED BY <1>1, <2>1 DEF Inv, Calls, Busy, Dest
<1>9. \A v, d, q : (Busy(v)' <=> Busy(v)) /\ (Before(v, d, q)' <=> Before(v, d, q))
  BY <1>1, Resting
<1>10. \A q \in Proxy : q \in link' /\ ~Unsent(q)' => ~Unsent(q)
  BY <1>1, <1>3, <1>9 DEF Unsent
<1>11. \A q \in Proxy : \A i \in jobs[q] : jobs[q] = {i} => \A j, k \in jobs'[q] : j = k
  BY <1>4, <1>5, UnansweredIs
<1>12. \A q \in Proxy : \A j \in jobs'[q] : \E i \in jobs[q] : j.pc = i.pc /\ j.s = i.s /\ j.met = i.met
  BY <1>7
<1>13. \A q \in Proxy : q \in link' /\ jobs'[q] = {} => jobs[q] = {}
  BY <1>1, <1>5
<1>14. \A q \in Proxy : (\A j \in jobs'[q] : j.pc = "wire") => \A i \in jobs[q] : i.pc = "wire"
  BY <1>4, <1>5, UnansweredIs
<1>15. \A v \in Worker : task'[v].s = task[v].s
  BY <1>1
<1> QED BY <1>1, <1>3, <1>6, <1>8, <1>9, <1>10, <1>11, <1>12, <1>13, <1>14, <1>15, ThinStep DEF hub, agent, history

(* A crash of the hub keeps the invariant.                                  *)
LEMMA HubCrashStep ==
    ASSUME Inv, HubCrash
    PROVE  Inv'
<1>1. /\ task' = [w \in Worker |-> Idle] /\ link' = {} /\ ready' = [p \in Proxy |-> NotReady]
      /\ jobs' = [p \in Proxy |-> Unanswered(jobs[p])]
      /\ UNCHANGED <<hub, agent, ops, history>>
  BY DEF HubCrash
<1>2. NotReady \in [pc : {"none", "read", "send"}, s : DesiredState] /\ NotReady.pc = "none"
  BY DEF NotReady, NoState, DesiredState
<1>3. Idle.todo = <<>> /\ Idle.waits = FALSE /\ Idle \in Task
  BY DEF Idle, Task, NoState, DesiredState
<1>4. jobs \in [Proxy -> SUBSET Job] /\ \A q \in Proxy : jobs[q] \in SUBSET Job
  BY DEF Inv, Typed
<1>5. jobs' \in [Proxy -> SUBSET Job] /\ \A q \in Proxy : jobs'[q] = Unanswered(jobs[q])
  BY <1>1, <1>4, UnansweredIs
<1>6. /\ task' \in [Worker -> Task] /\ ready' \in [Proxy -> [pc : {"none", "read", "send"}, s : DesiredState]]
      /\ \A q \in Proxy : ready'[q].pc = "none"
      /\ \A v \in Worker : task'[v] = Idle
  BY <1>1, <1>2, <1>3
<1>7. Typed'
  BY <1>1, <1>5, <1>6 DEF Inv, Typed, hub, agent, history
<1>8. Rest(<<>>)
  BY DEF Rest
<1>9. Chained'
  BY <1>3, <1>6, <1>8 DEF Chained
<1>10. \A q \in Proxy : \A j \in jobs'[q] :
          j.by = None /\ j.pc # "wire" /\ \E i \in jobs[q] : j.pc = i.pc /\ j.s = i.s /\ j.met = i.met
  BY <1>4, <1>5, UnansweredIs
<1>11. Calls'
  BY <1>3, <1>6, <1>10 DEF Calls
<1>12. \A v \in Worker : ~Busy(v)' /\ \A d, q : ~Before(v, d, q)'
  BY <1>3, <1>6 DEF Busy, Before
<1>13. \A q \in Proxy : \A i \in jobs[q] : jobs[q] = {i} => \A j, k \in jobs'[q] : j = k
  BY <1>4, <1>5, UnansweredIs
<1>14. \A q \in Proxy : (\A j \in jobs'[q] : j.pc = "wire") => \A i \in jobs[q] : i.pc = "wire"
  BY <1>4, <1>5, UnansweredIs
<1>15. /\ \A q \in Proxy : ready'[q] = ready[q] \/ (ready'[q].pc = "none" /\ q \notin link')
       /\ \A q \in Proxy : q \in link' /\ ~Unsent(q)' => ~Unsent(q)
       /\ \A q \in Proxy : q \in link' /\ jobs'[q] = {} => jobs[q] = {}
       /\ \A q \in Proxy : \A j \in jobs'[q] : \E i \in jobs[q] : j.pc = i.pc /\ j.s = i.s /\ j.met = i.met
  BY <1>1, <1>6, <1>10
<1>16. \A v \in Worker, q \in Proxy : \A d \in {"add", "set", "send"} :
          Before(v, d, q)' => Before(v, d, q) /\ task'[v].s = task[v].s
  BY <1>12
<1>17. UNCHANGED <<row, saved, unsaved, overlap, tangled, live>> /\ link' \subseteq link
  BY <1>1 DEF hub, agent, history
<1> QED BY <1>7, <1>9, <1>11, <1>12, <1>13, <1>14, <1>15, <1>16, <1>17, ThinStep

(* A crash of an agent keeps the invariant.                                 *)
LEMMA AgentCrashStep ==
    ASSUME Inv, NEW p \in Proxy, AgentCrash(p)
    PROVE  Inv'
<1>1. /\ link' = link \ {p} /\ ready' = [ready EXCEPT ![p] = NotReady] /\ jobs' = [jobs EXCEPT ![p] = {}]
      /\ UNCHANGED <<hub, task, saved, unsaved, ops, overlap, pushed, slipped>>
  BY DEF AgentCrash
<1>a. PICK l, b :
        /\ live' = [live EXCEPT ![p] = l] /\ tangled' = [tangled EXCEPT ![p] = b]
        /\ \/ l = LoadDesiredStateOptional(saved[p]) /\ b = tangled[p]
           \/ l \in Refused(NoLive, saved[p]) /\ b = TRUE
  <2>1. tangled = [tangled EXCEPT ![p] = tangled[p]]
    BY DEF Inv, Typed
  <2> QED BY <2>1 DEF AgentCrash
<1>2. NotReady \in [pc : {"none", "read", "send"}, s : DesiredState] /\ NotReady.pc = "none"
  BY DEF NotReady, NoState, DesiredState
<1>3. /\ ready' \in [Proxy -> [pc : {"none", "read", "send"}, s : DesiredState]]
      /\ \A q \in Proxy : ready'[q] = ready[q] \/ (ready'[q].pc = "none" /\ q \notin link')
      /\ \A q \in Proxy \ {p} : ready'[q] = ready[q]
  BY <1>1, <1>2 DEF Inv, Typed
<1>4. /\ jobs' \in [Proxy -> SUBSET Job] /\ jobs'[p] = {}
      /\ \A q \in Proxy \ {p} : jobs'[q] = jobs[q]
  BY <1>1 DEF Inv, Typed
<1>5. saved[p] \in DesiredState /\ live \in [Proxy -> [cfg : Nat, routes : SUBSET Route]]
  BY DEF Inv, Typed
<1>b. /\ l \in [cfg : Nat, routes : SUBSET Route] /\ b \in BOOLEAN /\ (tangled[p] => b)
      /\ l = LoadDesiredStateOptional(saved[p]) \/ (b /\ l.routes = {})
  <2>1. tangled[p] \in BOOLEAN
    BY DEF Inv, Typed
  <2>2. CASE l = LoadDesiredStateOptional(saved[p]) /\ b = tangled[p]
    BY <1>5, <2>1, <2>2, LoadIs
  <2>3. CASE l \in Refused(NoLive, saved[p]) /\ b = TRUE
    BY <1>5, <2>3, LoadIs
  <2> QED BY <1>a, <2>2, <2>3
<1>6. /\ live' \in [Proxy -> [cfg : Nat, routes : SUBSET Route]] /\ live'[p] = l
      /\ \A q \in Proxy \ {p} : live'[q] = live[q]
  BY <1>5, <1>a, <1>b
<1>c. /\ tangled' \in [Proxy -> BOOLEAN] /\ tangled'[p] = b
      /\ \A q \in Proxy : tangled[q] => tangled'[q]
  BY <1>a, <1>b DEF Inv, Typed
<1>7. Typed' /\ Chained'
  BY <1>1, <1>3, <1>4, <1>6, <1>c DEF Inv, Typed, Chained, hub
<1>8. \A q \in Proxy : jobs'[q] \subseteq jobs[q]
  BY <1>4
<1>9. Calls'
  BY <1>1, <1>8 DEF Inv, Calls, Busy, Dest
<1>10. \A v, d, q : (Busy(v)' <=> Busy(v)) /\ (Before(v, d, q)' <=> Before(v, d, q))
  BY <1>1, Resting
<1>11. \A q \in Proxy : q \in link' /\ ~Unsent(q)' => ~Unsent(q)
  BY <1>1, <1>3, <1>10 DEF Unsent
<1>12. \A q \in Proxy : q \in link' /\ jobs'[q] = {} => jobs[q] = {}
  BY <1>1, <1>4
<1>13. \A q \in Proxy : (\A j \in jobs'[q] : j.pc = "wire") =>
          \/ live'[q] = LoadDesiredStateOptional(saved[q]) \/ tangled'[q]
          \/ live'[q] = live[q] /\ \A i \in jobs[q] : i.pc = "wire"
  BY <1>4, <1>6, <1>b, <1>c
<1>14. \A q \in Proxy :
          \/ live'[q] = live[q]
          \/ /\ q \notin link' /\ jobs'[q] = {}
             /\ live'[q] = LoadDesiredStateOptional(saved[q]) \/ (tangled'[q] /\ live'[q].routes = {})
  BY <1>1, <1>4, <1>6, <1>b, <1>c
<1>15. \A v \in Worker : task'[v].s = task[v].s
  BY <1>1
<1>16. \A q \in Proxy : \A i \in jobs[q] : jobs[q] = {i} => \A j, k \in jobs'[q] : j = k
  BY <1>8
<1>17. \A q \in Proxy : \A j \in jobs'[q] : \E i \in jobs[q] : j.pc = i.pc /\ j.s = i.s /\ j.met = i.met
  BY <1>8
<1> QED BY <1>1, <1>3, <1>7, <1>9, <1>10, <1>11, <1>12, <1>13, <1>14, <1>15, <1>16, <1>17, <1>c, ThinStep DEF hub

(* A call that fails keeps the invariant: what was sent goes its way.       *)
LEMMA CallFailsStep ==
    ASSUME Inv, NEW w \in Worker, CallFails(w)
    PROVE  Inv'
<1>1. PICK p : p = Dest(w)
  OBVIOUS
<1>2. task[w].waits /\ Busy(w) /\ Before(w, "send", p) /\ task' = Failed(w) /\ UNCHANGED <<hub, link, ready, agent, ops, history>>
  BY <1>1 DEF CallFails, Inv, Calls, Before
<1>3. p \in Proxy
  <2>1. task[w].todo \in Seq(AnyStep) /\ task[w].todo # <<>>
    BY <1>2 DEF Inv, Typed, Task, Busy
  <2>2. Head(task[w].todo) \in AnyStep /\ Head(task[w].todo).do = "send"
    BY <1>2, <2>1 DEF Before
  <2> QED BY <1>1, <2>2 DEF AnyStep, Dest, Works, Ends
<1>4. w # None
  BY FleetAssumption
<1>5. \A q \in Proxy : \A j \in jobs[q] : j.by = w => q = p
  BY <1>1, <1>4 DEF Inv, Calls
<1>6. CASE (\A j \in jobs[p] : j.by # w) /\ UNCHANGED jobs
  <2>1. \A q \in Proxy : \A j \in jobs[q] : j.by # w
    BY <1>5, <1>6
  <2> QED BY <1>2, <1>3, <1>6, <2>1, OfflineStep
<1>7. CASE jobs' = [jobs EXCEPT ![p] = {IF j.by = w THEN [j EXCEPT !.by = None] ELSE j : j \in jobs[p]}]
  <2> DEFINE f(j) == IF j.by = w THEN [j EXCEPT !.by = None] ELSE j
  <2>1. PICK s : s = task[w].s
    OBVIOUS
  <2>2. task' \in [Worker -> Task] /\ Chained' /\ Onward(w, "send", p, s)
    <3>1. Head(task[w].todo).do # "add"
      BY <1>2 DEF Before
    <3> QED BY <1>2, <2>1, <3>1, FailedIs DEF Inv
  <2>3. jobs \in [Proxy -> SUBSET Job]
    BY DEF Inv, Typed
  <2>4. ASSUME NEW j \in jobs[p]
        PROVE  /\ f(j) \in Job /\ f(j).pc = j.pc /\ f(j).s = j.s /\ f(j).met = j.met
               /\ f(j).by # w /\ (f(j).by # None => f(j) = j)
    <3>1. j \in Job
      BY <1>3, <2>3
    <3>2. CASE j.by = w
      <4>1. f(j) = [j EXCEPT !.by = None]
        BY <3>2
      <4> HIDE DEF f
      <4>2. PICK i : i = [j EXCEPT !.by = None]
        OBVIOUS
      <4>3. i \in Job /\ i.pc = j.pc /\ i.s = j.s /\ i.by = None /\ i.met = j.met
        BY <3>1, <4>2, JobFields
      <4> QED BY <1>4, <4>1, <4>2, <4>3
    <3>3. CASE j.by # w
      BY <3>1, <3>3
    <3> QED BY <3>2, <3>3
  <2> HIDE DEF f
  <2>5. jobs' = [jobs EXCEPT ![p] = {f(j) : j \in jobs[p]}]
    BY <1>7 DEF f
  <2>6. {f(j) : j \in jobs[p]} \in SUBSET Job
    BY <2>4
  <2>7. /\ jobs' \in [Proxy -> SUBSET Job] /\ jobs'[p] = {f(j) : j \in jobs[p]}
        /\ \A q \in Proxy \ {p} : jobs'[q] = jobs[q]
    BY <1>3, <2>3, <2>5, <2>6
  <2>8. Typed'
    BY <1>2, <2>2, <2>7 DEF Inv, Typed, hub, agent, history
  <2>9. \A v \in Worker \ {w} :
           /\ task'[v] = task[v] /\ (Busy(v)' <=> Busy(v)) /\ Dest(v)' = Dest(v)
           /\ \A d, q : Before(v, d, q)' <=> Before(v, d, q)
    BY <2>2, Others
  <2>10. ~task'[w].waits /\ \A q \in Proxy : ~Before(w, "add", q)' /\ ~Before(w, "set", q)' /\ ~Before(w, "send", q)'
    BY <2>2 DEF Onward
  <2>11. \A q \in Proxy : \A j \in jobs'[q] : j.by # w /\ (j.by # None => j \in jobs[q])
    BY <1>5, <2>4, <2>7
  <2>12. Calls'
    <3>1. \A v \in Worker : task'[v].waits => v # w
      BY <2>10
    <3>2. \A v \in Worker \ {w} : (Busy(v) /\ Head(task[v].todo).do = "send") => (Busy(v) /\ Head(task[v].todo).do = "send")'
      BY <2>9
    <3>3. \A q \in Proxy : \A j \in jobs[q] : j.by \in Worker \cup {None}
      BY <2>3 DEF Job
    <3> QED BY <2>9, <2>11, <3>1, <3>2, <3>3 DEF Inv, Calls
  <2>13. \A q \in Proxy : q \in link' /\ ~Unsent(q)' => ~Unsent(q)
    BY <1>2, <2>9 DEF Unsent
  <2>14. \A q \in Proxy : \A j \in jobs'[q] : \E i \in jobs[q] : j.pc = i.pc /\ j.s = i.s /\ j.met = i.met
    BY <2>4, <2>7
  <2>15. \A q \in Proxy : \A i \in jobs[q] : jobs[q] = {i} => \A j, k \in jobs'[q] : j = k
    BY <2>7
  <2>16. \A q \in Proxy : jobs'[q] = {} => jobs[q] = {}
    BY <2>7
  <2>17. \A q \in Proxy : (\A j \in jobs'[q] : j.pc = "wire") => \A i \in jobs[q] : i.pc = "wire"
    BY <2>4, <2>7
  <2>18. \A v \in Worker : Busy(v)' => Busy(v)
    BY <1>2, <2>9
  <2>19. \A v \in Worker, q \in Proxy : \A d \in {"add", "set", "send"} :
            Before(v, d, q)' => Before(v, d, q) /\ task'[v].s = task[v].s
    BY <2>9, <2>10
  <2> QED BY <1>2, <2>2, <2>8, <2>12, <2>13, <2>14, <2>15, <2>16, <2>17, <2>18, <2>19, ThinStep DEF hub, agent, history
<1> QED BY <1>1, <1>6, <1>7 DEF CallFails

-----------------------------------------------------------------------------
(* The agent                                                                *)

(* A job that goes on to save or apply its state keeps the invariant.       *)
LEMMA AdvanceStep ==
    ASSUME Inv, NEW p \in Proxy, NEW j \in jobs[p], NEW c \in {"save", "apply"}, Advance(p, j, c),
           UNCHANGED <<hub, task, link, ready, live, history>>,
           saved' \in [Proxy -> DesiredState], unsaved' \in [Proxy -> BOOLEAN],
           \A q \in Proxy \ {p} : saved'[q] = saved[q] /\ unsaved'[q] = unsaved[q],
           saved'[p] \in {saved[p], j.s, NoState},
           c = "apply" /\ ~unsaved'[p] => saved'[p] = j.s
    PROVE  Inv'
<1> USE DEF hub, history
<1>1. PICK k : k = [j EXCEPT !.pc = c]
  OBVIOUS
<1>2. jobs \in [Proxy -> SUBSET Job] /\ j \in Job
  BY DEF Inv, Typed
<1>3. k \in Job /\ k.pc = c /\ k.s = j.s /\ k.by = j.by /\ k.met = j.met
  <2>1. c \in {"wire", "save", "apply"}
    OBVIOUS
  <2> QED BY <1>1, <1>2, <2>1 DEF Job
<1>4. /\ jobs' \in [Proxy -> SUBSET Job] /\ jobs'[p] = (jobs[p] \ {j}) \cup {k}
      /\ \A q \in Proxy \ {p} : jobs'[q] = jobs[q]
  BY <1>1, <1>2, <1>3 DEF Advance
<1>5. Typed' /\ Chained'
  BY <1>4 DEF Inv, Typed, Chained
<1>6. \A v, d, q : (Busy(v)' <=> Busy(v)) /\ (Before(v, d, q)' <=> Before(v, d, q))
  BY Resting
<1>7. Calls'
  <2>1. ASSUME NEW q \in Proxy, NEW i \in jobs'[q], i.by # None
        PROVE  task[i.by].waits /\ Dest(i.by) = q
    <3>1. PICK l \in jobs[q] : l.by = i.by
      BY <1>3, <1>4
    <3> QED BY <2>1, <3>1 DEF Inv, Calls
  <2>2. ASSUME NEW q \in Proxy, NEW i \in jobs'[q], NEW l \in jobs'[q], i.by = l.by, i.by # None
        PROVE  i = l
    BY <1>3, <1>4, <2>2 DEF Inv, Calls
  <2> QED BY <2>1, <2>2 DEF Inv, Calls, Busy, Dest
<1>8. row[p].rev # 0
  BY DEF Inv, Blank
<1>9. Blank'
  BY <1>4, <1>6, <1>8 DEF Inv, Blank
<1>10. \A q \in Proxy : Unsent(q)' <=> Unsent(q)
  BY <1>6 DEF Unsent
<1>11. Fresh'
  <2>1. ASSUME NEW q \in Proxy, NEW i \in jobs'[q]
        PROVE  /\ i.met => tangled[q]
               /\ ~i.met => jobs'[q] = {i} /\ (q \in link /\ ~Unsent(q) => i.s = row[q])
    <3>1. CASE q # p
      BY <1>4, <3>1 DEF Inv, Fresh
    <3>2. CASE q = p /\ i = k
      BY <1>3, <1>4, <3>2 DEF Inv, Fresh
    <3>3. CASE q = p /\ i # k
      BY <1>4, <3>3 DEF Inv, Fresh
    <3> QED BY <3>1, <3>2, <3>3
  <2> QED BY <1>10, <2>1 DEF Fresh
<1>12. Settled'
  BY <1>4, <1>10 DEF Inv, Settled, Same
<1>13. Filed'
  <2>1. ASSUME NEW q \in Proxy, ~unsaved'[q], \A i \in jobs'[q] : i.pc = "wire", ~tangled[q]
        PROVE  Same(live[q], saved'[q])
    <3>1. q # p
      BY <1>3, <1>4, <2>1
    <3> QED BY <1>4, <2>1, <3>1 DEF Inv, Filed
  <2>2. ASSUME NEW q \in Proxy, ~unsaved'[q], NEW i \in jobs'[q], ~i.met, i.pc = "apply"
        PROVE  saved'[q] = i.s
    <3>1. CASE q # p
      BY <1>4, <2>2, <3>1 DEF Inv, Filed
    <3>2. CASE q = p /\ i = k
      BY <1>3, <2>2, <3>2
    <3>3. CASE q = p /\ i # k
      BY <1>4, <2>2, <3>3 DEF Inv, Fresh
    <3> QED BY <3>1, <3>2, <3>3
  <2> QED BY <2>1, <2>2 DEF Filed, Same
<1>14. ASSUME ~overlap'
       PROVE  (Solo /\ Numbered)'
  <2>1. ~overlap /\ Solo /\ Numbered
    BY <1>14 DEF Inv, Ordered
  <2>2. Solo'
    BY <1>6, <2>1 DEF Solo
  <2>3. \A q \in Proxy : \A t \in Known(q)' : t \in Known(q) \/ t = NoState
    <3>1. ASSUME NEW q \in Proxy, NEW t \in Known(q)'
          PROVE  t \in Known(q) \/ t = NoState
      <4>1. CASE t = row[q] \/ (ready[q].pc = "send" /\ t = ready[q].s)
        BY <4>1 DEF Known
      <4>2. CASE t = saved'[q]
        <5>1. t = saved[q] \/ (q = p /\ t = j.s) \/ t = NoState
          BY <4>2
        <5> QED BY <5>1 DEF Known
      <4>3. CASE \E i \in jobs'[q] : t = i.s
        <5>1. \E i \in jobs[q] : t = i.s
          BY <1>3, <1>4, <4>3
        <5> QED BY <5>1 DEF Known
      <4> QED BY <3>1, <4>1, <4>2, <4>3 DEF Known
    <3> QED BY <3>1
  <2>4. NoState.rev = 0 /\ \A q \in Proxy : row[q].rev \in Nat
    BY DEF NoState, Inv, Typed, DesiredState
  <2>5. Numbered'
    BY <1>6, <2>1, <2>3, <2>4 DEF Numbered
  <2> QED BY <2>2, <2>5
<1> QED BY <1>5, <1>7, <1>9, <1>11, <1>12, <1>13, <1>14 DEF Inv, Ordered

(* An agent that reads a request or saves its state keeps the invariant.    *)
LEMMA ReadAndSaveStep ==
    ASSUME Inv, NEW p \in Proxy, NEW j \in jobs[p], handleRequest(p, j) \/ SaveDesiredState(p, j)
    PROVE  Inv'
<1>1. /\ saved \in [Proxy -> DesiredState] /\ unsaved \in [Proxy -> BOOLEAN] /\ j.s \in DesiredState
      /\ NoState \in DesiredState
  BY DEF Inv, Typed, Job, NoState, DesiredState
<1>2. CASE handleRequest(p, j)
  <2>1. Advance(p, j, "save") /\ UNCHANGED <<hub, task, link, ready, agent, history>>
    BY <1>2 DEF handleRequest
  <2>2. PICK c \in {"save", "apply"} : c = "save"
    OBVIOUS
  <2>3. c # "apply" /\ Advance(p, j, c)
    BY <2>1, <2>2
  <2> QED BY <1>1, <2>1, <2>3, AdvanceStep DEF agent
<1>3. CASE SaveDesiredState(p, j)
  <2>1. Advance(p, j, "apply") /\ UNCHANGED <<hub, task, link, ready, live, history>>
    BY <1>3 DEF SaveDesiredState
  <2>2. PICK c \in {"save", "apply"} : c = "apply"
    OBVIOUS
  <2>3. Advance(p, j, c)
    BY <2>1, <2>2
  <2>4. /\ saved' \in [Proxy -> DesiredState] /\ unsaved' \in [Proxy -> BOOLEAN]
        /\ \A q \in Proxy \ {p} : saved'[q] = saved[q] /\ unsaved'[q] = unsaved[q]
        /\ saved'[p] \in {saved[p], j.s, NoState}
        /\ ~unsaved'[p] => saved'[p] = j.s
    <3>1. CASE saved' = [saved EXCEPT ![p] = j.s] /\ unsaved' = [unsaved EXCEPT ![p] = FALSE]
      BY <1>1, <3>1
    <3>2. CASE UNCHANGED saved /\ unsaved' = [unsaved EXCEPT ![p] = TRUE]
      BY <1>1, <3>2
    <3>3. CASE saved' = [saved EXCEPT ![p] = NoState] /\ unsaved' = [unsaved EXCEPT ![p] = TRUE]
      BY <1>1, <3>3
    <3> QED BY <1>3, <3>1, <3>2, <3>3 DEF SaveDesiredState
  <2> QED BY <2>1, <2>3, <2>4, AdvanceStep
<1> QED BY <1>2, <1>3

(* What a state makes of what runs, and what one that does not apply.       *)
LEMMA AppliedIs ==
    ASSUME NEW l \in [cfg : Nat, routes : SUBSET Route], NEW s \in DesiredState
    PROVE  /\ Applied(l, s) \in [cfg : Nat, routes : SUBSET Route] /\ Same(Applied(l, s), s)
           /\ \A k \in Refused(l, s) : k \in [cfg : Nat, routes : SUBSET Route]
<1>1. s.cfg \in Nat /\ s.routes \in SUBSET Route
  BY DEF DesiredState
<1>2. CASE s.cfg = 0
  <2>1. ApplySafeConfig(l, s) = l
    BY <1>2 DEF ApplySafeConfig
  <2>2. Applied(l, s) = [cfg |-> l.cfg, routes |-> s.routes]
    BY <2>1 DEF Applied, applyRoutingSnapshot
  <2> QED BY <1>1, <1>2, <2>1, <2>2 DEF Same, Refused
<1>3. CASE s.cfg # 0
  <2>1. ApplySafeConfig(l, s) = [cfg |-> s.cfg, routes |-> l.routes]
    BY <1>3 DEF ApplySafeConfig
  <2>2. Applied(l, s) = [cfg |-> s.cfg, routes |-> s.routes]
    BY <2>1 DEF Applied, applyRoutingSnapshot
  <2> QED BY <1>1, <1>3, <2>1, <2>2 DEF Same, Refused
<1> QED BY <1>2, <1>3

(* Applying a state, and the answer to who waits for it, keeps the invariant. *)
LEMMA ApplyStep ==
    ASSUME Inv, NEW p \in Proxy, NEW j \in jobs[p], applyDesired(p, j)
    PROVE  Inv'
<1>1. /\ j.pc = "apply" /\ jobs' = [jobs EXCEPT ![p] = jobs[p] \ {j}]
      /\ UNCHANGED <<hub, link, ready, saved, unsaved, ops, overlap, pushed, slipped>>
  BY DEF applyDesired
<1>a. PICK ok, l, b :
         /\ ok \in BOOLEAN
         /\ live' = [live EXCEPT ![p] = l] /\ tangled' = [tangled EXCEPT ![p] = b] /\ task' = deliver(j, ok)
         /\ ok => l = Applied(live[p], j.s) /\ b = (tangled[p] /\ j.met)
         /\ ~ok => l \in Refused(live[p], j.s) /\ b = TRUE
  <2>1. CASE /\ live' = [live EXCEPT ![p] = Applied(@, j.s)] /\ tangled' = [tangled EXCEPT ![p] = @ /\ j.met]
             /\ task' = deliver(j, TRUE)
    <3>1. PICK ok, l, b : ok \in BOOLEAN /\ ok = TRUE /\ l = Applied(live[p], j.s) /\ b = (tangled[p] /\ j.met)
      OBVIOUS
    <3>2. live' = [live EXCEPT ![p] = l] /\ tangled' = [tangled EXCEPT ![p] = b] /\ task' = deliver(j, ok)
      BY <2>1, <3>1
    <3> QED BY <3>1, <3>2
  <2>2. CASE /\ \E k \in Refused(live[p], j.s) : live' = [live EXCEPT ![p] = k]
             /\ tangled' = [tangled EXCEPT ![p] = TRUE] /\ task' = deliver(j, FALSE)
    <3>1. PICK l \in Refused(live[p], j.s) : live' = [live EXCEPT ![p] = l]
      BY <2>2
    <3>2. PICK ok, b : ok \in BOOLEAN /\ ok = FALSE /\ b = TRUE
      OBVIOUS
    <3>3. tangled' = [tangled EXCEPT ![p] = b] /\ task' = deliver(j, ok)
      BY <2>2, <3>2
    <3> QED BY <3>1, <3>2, <3>3
  <2> QED BY <2>1, <2>2 DEF applyDesired
<1> USE DEF hub
<1>2. /\ j \in Job /\ j.s \in DesiredState /\ j.met \in BOOLEAN /\ jobs \in [Proxy -> SUBSET Job]
      /\ tangled \in [Proxy -> BOOLEAN] /\ live \in [Proxy -> [cfg : Nat, routes : SUBSET Route]]
      /\ live[p] \in [cfg : Nat, routes : SUBSET Route] /\ row[p].rev \in Nat
  BY DEF Inv, Typed, Job, DesiredState
<1>4. /\ l \in [cfg : Nat, routes : SUBSET Route] /\ b \in BOOLEAN
      /\ ok => Same(l, j.s)
      /\ ~b => ok /\ ~(tangled[p] /\ j.met)
      /\ tangled[p] /\ j.met => b
  <2>1. Applied(live[p], j.s) \in [cfg : Nat, routes : SUBSET Route] /\ Same(Applied(live[p], j.s), j.s)
    BY <1>2, AppliedIs
  <2>2. \A k \in Refused(live[p], j.s) : k \in [cfg : Nat, routes : SUBSET Route]
    BY <1>2, AppliedIs
  <2> QED BY <1>a, <2>1, <2>2
<1>5. /\ live' \in [Proxy -> [cfg : Nat, routes : SUBSET Route]] /\ live'[p] = l
      /\ \A q \in Proxy \ {p} : live'[q] = live[q]
  BY <1>2, <1>4, <1>a
<1>6. /\ jobs' \in [Proxy -> SUBSET Job] /\ jobs'[p] = jobs[p] \ {j}
      /\ \A q \in Proxy \ {p} : jobs'[q] = jobs[q]
      /\ tangled' \in [Proxy -> BOOLEAN] /\ tangled'[p] = b
      /\ \A q \in Proxy \ {p} : tangled'[q] = tangled[q]
  BY <1>1, <1>2, <1>4, <1>a
<1>7. /\ task' \in [Worker -> Task] /\ Chained'
      /\ \A v \in Worker : v # j.by =>
            /\ task'[v] = task[v] /\ (Busy(v)' <=> Busy(v)) /\ Dest(v)' = Dest(v)
            /\ \A d, q : Before(v, d, q)' <=> Before(v, d, q)
      /\ j.by # None => /\ j.by \in Worker /\ Busy(j.by) /\ task[j.by].waits /\ ~task'[j.by].waits
                        /\ \A q \in Proxy : ~Before(j.by, "add", q)' /\ ~Before(j.by, "set", q)' /\ ~Before(j.by, "send", q)'
  <2>1. CASE j.by = None
    <3>1. UNCHANGED task /\ \A v \in Worker : v # j.by
      BY <1>a, <2>1, FleetAssumption DEF deliver
    <3> QED BY <2>1, <3>1, Resting DEF Inv, Typed, Chained
  <2>2. CASE j.by # None
    <3>1. PICK w \in Worker : w = j.by
      BY <1>2, <2>2 DEF Job
    <3>2. task[w].waits /\ Busy(w) /\ Head(task[w].todo).do = "send" /\ task[w].s \in DesiredState
      BY <2>2, <3>1 DEF Inv, Calls, Typed, Task
    <3>3. PICK do, d, s : do = "send" /\ d = Dest(w) /\ s = task[w].s
      OBVIOUS
    <3>4. do = Head(task[w].todo).do /\ s \in DesiredState /\ (ok => task' = Continue(w, s)) /\ (~ok => task' = Failed(w))
      BY <1>a, <2>2, <3>1, <3>2, <3>3 DEF deliver
    <3>5. task' \in [Worker -> Task] /\ Chained' /\ Onward(w, do, d, s)
      <4>1. CASE ok
        BY <3>2, <3>3, <3>4, <4>1, ContinueIs DEF Inv
      <4>2. CASE ~ok
        BY <3>2, <3>3, <3>4, <4>2, FailedIs DEF Inv
      <4> QED BY <4>1, <4>2
    <3>6. \A v \in Worker \ {w} :
             /\ task'[v] = task[v] /\ (Busy(v)' <=> Busy(v)) /\ Dest(v)' = Dest(v)
             /\ \A e, q : Before(v, e, q)' <=> Before(v, e, q)
      BY <3>5, Others
    <3>7. ~task'[w].waits /\ \A q \in Proxy : ~Before(w, "add", q)' /\ ~Before(w, "set", q)' /\ ~Before(w, "send", q)'
      BY <3>3, <3>5 DEF Onward
    <3> QED BY <3>1, <3>2, <3>5, <3>6, <3>7
  <2> QED BY <2>1, <2>2
<1>8. Typed'
  BY <1>1, <1>5, <1>6, <1>7 DEF Inv, Typed
<1>9. \A q \in Proxy : jobs'[q] \subseteq jobs[q]
  BY <1>6
<1>10. \A q \in Proxy : \A i \in jobs'[q] : i.by # None => i.by # j.by /\ i.by \in Worker
  <2>1. ASSUME NEW q \in Proxy, NEW i \in jobs'[q], i.by # None, i.by = j.by
        PROVE  FALSE
    <3>1. i \in jobs[q] /\ Dest(i.by) = q /\ Dest(j.by) = p
      BY <1>9, <2>1 DEF Inv, Calls
    <3>2. q = p /\ i = j
      BY <2>1, <3>1 DEF Inv, Calls
    <3> QED BY <1>6, <3>2
  <2>2. \A q \in Proxy : \A i \in jobs'[q] : i.by \in Worker \cup {None}
    BY <1>2, <1>9 DEF Job
  <2> QED BY <2>1, <2>2
<1>11. Calls'
  <2>1. ASSUME NEW v \in Worker, task'[v].waits
        PROVE  Busy(v)' /\ Head(task'[v].todo).do = "send"
    <3>1. v # j.by
      BY <1>7, <2>1, FleetAssumption
    <3> QED BY <1>7, <2>1, <3>1 DEF Inv, Calls
  <2>2. ASSUME NEW q \in Proxy, NEW i \in jobs'[q], i.by # None
        PROVE  task'[i.by].waits /\ Dest(i.by)' = q
    BY <1>7, <1>9, <1>10, <2>2 DEF Inv, Calls
  <2> QED BY <1>9, <2>1, <2>2 DEF Inv, Calls
<1>12. \A v \in Worker : Busy(v)' => Busy(v)
  BY <1>7, FleetAssumption
<1>13. \A v \in Worker, q \in Proxy : \A d \in {"add", "set", "send"} :
          Before(v, d, q)' => Before(v, d, q) /\ task'[v] = task[v]
  BY <1>7, FleetAssumption
<1>14. \A q \in Proxy : ~Unsent(q)' => ~Unsent(q)
  <2>1. \A v \in Worker : ~task[v].waits => v # j.by
    BY <1>7, FleetAssumption
  <2> QED BY <1>1, <1>7, <2>1 DEF Unsent
<1>15. row[p].rev # 0
  BY DEF Inv, Blank
<1>16. Blank'
  BY <1>1, <1>5, <1>9, <1>13, <1>15 DEF Inv, Blank
<1>17. Fresh'
  <2>1. ASSUME NEW q \in Proxy, NEW i \in jobs'[q]
        PROVE  /\ i.met => tangled'[q]
               /\ ~i.met => jobs'[q] = {i} /\ (q \in link /\ ~Unsent(q)' => i.s = row[q])
    <3>1. CASE q # p
      BY <1>6, <1>14, <3>1 DEF Inv, Fresh
    <3>2. CASE q = p
      <4>1. i \in jobs[p] /\ i # j /\ jobs[p] # {i} /\ jobs[p] # {j}
        BY <1>6, <3>2
      <4>2. i.met /\ j.met /\ tangled[p]
        BY <1>2, <4>1 DEF Inv, Fresh
      <4> QED BY <1>4, <1>6, <3>2, <4>2
    <3> QED BY <3>1, <3>2
  <2> QED BY <1>1, <2>1 DEF Fresh
<1>18. ~tangled'[p] => ok /\ ~j.met /\ jobs[p] = {j}
  BY <1>2, <1>4, <1>6 DEF Inv, Fresh
<1>19. Settled'
  <2>1. ASSUME p \in link, ~Unsent(p)', ~tangled'[p]
        PROVE  Same(l, row[p])
    <3>1. j.s = row[p]
      BY <1>14, <1>18, <2>1 DEF Inv, Fresh
    <3> QED BY <1>4, <1>18, <2>1, <3>1
  <2>2. ASSUME NEW q \in Proxy, q \in link, ~Unsent(q)', jobs'[q] = {}, ~tangled'[q]
        PROVE  Same(live'[q], row[q])
    <3>1. CASE q = p
      BY <1>5, <2>1, <2>2, <3>1
    <3>2. CASE q # p
      BY <1>5, <1>6, <1>14, <2>2, <3>2 DEF Inv, Settled
    <3> QED BY <3>1, <3>2
  <2> QED BY <1>1, <2>2 DEF Settled, Same
<1>20. Filed'
  <2>1. ASSUME NEW q \in Proxy, ~unsaved[q], \A i \in jobs'[q] : i.pc = "wire", ~tangled'[q]
        PROVE  Same(live'[q], saved[q])
    <3>1. CASE q # p
      BY <1>5, <1>6, <2>1, <3>1 DEF Inv, Filed
    <3>2. CASE q = p
      <4>1. ok /\ saved[p] = j.s
        BY <1>1, <1>18, <2>1, <3>2 DEF Inv, Filed
      <4> QED BY <1>4, <1>5, <3>2, <4>1
    <3> QED BY <3>1, <3>2
  <2>2. ASSUME NEW q \in Proxy, ~unsaved[q], NEW i \in jobs'[q], ~i.met, i.pc = "apply"
        PROVE  saved[q] = i.s
    BY <1>9, <2>2 DEF Inv, Filed
  <2> QED BY <1>1, <2>1, <2>2 DEF Filed, Same
<1>21. ASSUME ~overlap'
       PROVE  (Solo /\ Numbered)'
  <2>1. ~overlap /\ Solo /\ Numbered
    BY <1>1, <1>21 DEF Inv, Ordered
  <2>2. Solo'
    BY <1>12, <2>1 DEF Solo
  <2>3. \A q \in Proxy : Known(q)' \subseteq Known(q)
    BY <1>1, <1>9 DEF Known
  <2>4. Numbered'
    BY <1>1, <1>13, <2>1, <2>3 DEF Numbered
  <2> QED BY <2>2, <2>4
<1> QED BY <1>7, <1>8, <1>11, <1>16, <1>17, <1>19, <1>20, <1>21 DEF Inv, Ordered

-----------------------------------------------------------------------------
(* Theorems                                                                 *)

(* The invariant holds at first: nothing is under way.                      *)
LEMMA InitInv == Init => Inv
<1> SUFFICES ASSUME Init PROVE Inv
  OBVIOUS
<1>1. NoState \in DesiredState /\ NoState.rev = 0 /\ NoState.cfg = 0 /\ NoState.routes = {}
  BY DEF NoState, DesiredState
<1>2. First \in DesiredState /\ First.rev = 1 /\ First.cfg = 0 /\ First.routes = Route
  BY DEF First, DesiredState
<1>3. Idle \in Task /\ Idle.todo = <<>> /\ ~Idle.waits
  BY <1>1 DEF Idle, Task
<1>4. NotReady \in [pc : {"none", "read", "send"}, s : DesiredState] /\ NotReady.pc = "none"
  BY <1>1 DEF NotReady
<1>5. /\ row \in [Proxy -> DesiredState] /\ saved = row
      /\ \A p \in Proxy : row[p] \in {First, NoState} /\ jobs[p] = {} /\ ready[p] = NotReady
                          /\ live[p] = [cfg |-> 0, routes |-> row[p].routes]
      /\ \A w \in Worker : task[w] = Idle
  BY <1>1, <1>2 DEF Init
<1>6. \A p \in Proxy : row[p].cfg = 0 /\ row[p].routes \in SUBSET Route /\ live[p].cfg = 0 /\ live[p].routes = row[p].routes
  <2> SUFFICES ASSUME NEW p \in Proxy
               PROVE  row[p].cfg = 0 /\ row[p].routes \in SUBSET Route /\ live[p].cfg = 0 /\ live[p].routes = row[p].routes
    OBVIOUS
  <2>1. row[p] = First \/ row[p] = NoState
    BY <1>5
  <2>2. row[p].cfg = 0 /\ row[p].routes \in SUBSET Route
    BY <1>1, <1>2, <2>1
  <2>3. live[p] = [cfg |-> 0, routes |-> row[p].routes]
    BY <1>5
  <2>4. live[p].cfg = 0 /\ live[p].routes = row[p].routes
    BY <2>3
  <2> QED BY <2>2, <2>4
<1>7. live \in [Proxy -> [cfg : Nat, routes : SUBSET Route]]
  <2>1. \A p \in Proxy : [cfg |-> 0, routes |-> row[p].routes] \in [cfg : Nat, routes : SUBSET Route]
    BY <1>6
  <2> QED BY <2>1 DEF Init
<1>8. Typed
  <2>1. owner \in [Route -> Proxy]
    BY FleetAssumption DEF Init
  <2>2. /\ task \in [Worker -> Task] /\ ready \in [Proxy -> [pc : {"none", "read", "send"}, s : DesiredState]]
        /\ jobs \in [Proxy -> SUBSET Job]
    BY <1>3, <1>4 DEF Init
  <2>3. tangled \in [Proxy -> BOOLEAN] /\ unsaved \in [Proxy -> BOOLEAN]
    BY DEF Init
  <2> QED BY <1>5, <1>7, <2>1, <2>2, <2>3 DEF Init, Typed
<1>9. Chained
  <2>1. Rest(<<>>)
    BY DEF Rest
  <2> QED BY <1>3, <1>5, <2>1 DEF Chained
<1>10. \A w \in Worker : ~Busy(w) /\ \A d, q : ~Before(w, d, q)
  BY <1>3, <1>5 DEF Busy, Before
<1>11. Calls /\ Fresh
  BY <1>3, <1>5 DEF Calls, Fresh
<1>12. Blank
  <2>1. ASSUME NEW p \in Proxy, row[p].rev = 0
        PROVE  row[p] = NoState
    <3>1. row[p] = First \/ row[p] = NoState
      BY <1>5
    <3> QED BY <1>2, <2>1, <3>1
  <2>2. ASSUME NEW p \in Proxy, row[p].rev = 0
        PROVE  /\ row[p] = NoState /\ saved[p] = NoState /\ jobs[p] = {}
               /\ live[p].routes = {} /\ ready[p].pc # "send"
    <3>1. live[p].routes = {}
      BY <1>1, <1>6, <2>1, <2>2
    <3> QED BY <1>4, <1>5, <2>1, <2>2, <3>1
  <2> QED BY <1>10, <2>2 DEF Blank
<1>13. Settled
  BY <1>6 DEF Settled, Same
<1>14. \A p \in Proxy : \A s \in Known(p) : s = row[p]
  BY <1>4, <1>5 DEF Known
<1>15. Solo /\ Numbered
  <2>1. \A p \in Proxy : row[p].rev \in Nat /\ (row[p].rev = 0 => row[p] = NoState)
    <3>1. \A p \in Proxy : row[p] = First \/ row[p] = NoState
      BY <1>5
    <3> QED BY <1>1, <1>2, <3>1
  <2> QED BY <1>10, <1>14, <2>1 DEF Solo, Numbered
<1>16. Filed
  BY <1>5, <1>6 DEF Filed, Same
<1> QED BY <1>8, <1>9, <1>11, <1>12, <1>13, <1>15, <1>16 DEF Inv, Ordered

(* A step that changes nothing but the defaults or the phase keeps the
   invariant.                                                               *)
LEMMA QuietStep ==
    ASSUME Inv, defaults' \in Nat,
           UNCHANGED <<owner, row, task, link, ready, jobs, agent, history>>
    PROVE  Inv'
<1> USE DEF agent, history
<1>1. Typed' /\ Chained' /\ Calls'
  BY DEF Inv, Typed, Chained, Calls, Busy, Dest
<1>2. \A v, d, q : (Busy(v)' <=> Busy(v)) /\ (Before(v, d, q)' <=> Before(v, d, q))
  BY Resting
<1>3. \A q \in Proxy : (Unsent(q)' <=> Unsent(q)) /\ Known(q)' = Known(q)
  BY <1>2 DEF Unsent, Known
<1>4. Blank' /\ Fresh' /\ Settled' /\ Filed'
  BY <1>2, <1>3 DEF Inv, Blank, Fresh, Settled, Filed, Same
<1>5. ASSUME ~overlap'
      PROVE  (Solo /\ Numbered)'
  BY <1>2, <1>3, <1>5 DEF Inv, Ordered, Solo, Numbered
<1> QED BY <1>1, <1>4, <1>5 DEF Inv, Ordered

(* A statement that fails keeps the invariant: the request ends or goes on
   after the call.                                                          *)
LEMMA StoreFailsStep ==
    ASSUME Inv, NEW w \in Worker, StoreFails(w)
    PROVE  Inv'
<1>1. PICK do \in {"build", "set", "move", "prepared", "completed", "aborted"} : At(w, do)
  BY DEF StoreFails
<1>2. PICK p, s : p = Dest(w) /\ s = task[w].s
  OBVIOUS
<1>3. /\ Busy(w) /\ ~task[w].waits /\ Head(task[w].todo).do = do /\ \A d, q : Before(w, d, q) => d = do
      /\ task' = Failed(w) /\ slipped' = (slipped \/ ~Head(task[w].todo).must)
      /\ UNCHANGED <<hub, link, ready, jobs, agent, ops, overlap, pushed, tangled>>
  BY <1>1, AtIs DEF StoreFails
<1>4. task' \in [Worker -> Task] /\ Chained' /\ Onward(w, "send", p, s)
  BY <1>2, <1>3, FailedIs DEF Inv
<1>5. Typed'
  <2>1. slipped' \in BOOLEAN
    BY <1>3
  <2> QED BY <1>3, <1>4, <2>1 DEF Inv, Typed, hub, agent
<1>6. \A q \in Proxy : \A j \in jobs[q] : j.by # w
  BY <1>3, NoJob
<1>7. PICK d : d = "send"
  OBVIOUS
<1>8. Onward(w, d, p, s) /\ d # "set" /\ d \notin {"build", "add"}
  BY <1>4, <1>7
<1>9. \A q \in Proxy : ~Before(w, "send", q)
  BY <1>3
<1> QED BY <1>3, <1>4, <1>5, <1>6, <1>8, <1>9, TaskStep DEF hub

(* The start of an admin request keeps the invariant.                       *)
LEMMA RequestStep ==
    ASSUME Inv, NEW w \in Worker, (\E p \in Proxy : handleProxyPush(w, p)) \/ handleMigrationID(w)
    PROVE  Inv'
<1>1. CASE \E p \in Proxy : handleProxyPush(w, p)
  <2>1. PICK p \in Proxy : handleProxyPush(w, p)
    BY <1>1
  <2>2. /\ Begin(w, pushDesired(p, TRUE)) /\ UNCHANGED hub /\ pushed' = (pushed \/ phase \notin {"none", "completed"})
    BY <2>1 DEF handleProxyPush
  <2>3. pushed' \in BOOLEAN
    BY <2>2 DEF Inv, Typed
  <2>4. Segment(pushDesired(p, TRUE))
    BY PushIs
  <2> QED BY <2>2, <2>3, <2>4, BeginStep
<1>2. CASE handleMigrationID(w)
  <2>1. UNCHANGED hub /\ pushed' \in BOOLEAN
    BY <1>2 DEF handleMigrationID, Inv, Typed
  <2>2. \/ Begin(w, migrationPrep) \/ Begin(w, migrationComplete) \/ Begin(w, migrationAbort)
    BY <1>2 DEF handleMigrationID
  <2> QED BY <2>1, <2>2, MigrationIs, BeginStep
<1> QED BY <1>1, <1>2

(* Every step keeps the invariant.                                          *)
LEMMA NextInv == ASSUME Inv, [Next]_vars PROVE Inv'
<1>1. CASE UNCHANGED vars
  <2>1. /\ UNCHANGED <<owner, row, task, link, ready, jobs, agent, history>> /\ defaults' = defaults
    BY <1>1 DEF vars, hub
  <2>2. defaults' \in Nat
    BY <2>1 DEF Inv, Typed
  <2> QED BY <2>1, <2>2, QuietStep
<1>2. CASE handleMigrations
  <2>1. /\ UNCHANGED <<owner, row, task, link, ready, jobs, agent, history>> /\ defaults' = defaults
    BY <1>2 DEF handleMigrations
  <2>2. defaults' \in Nat
    BY <2>1 DEF Inv, Typed
  <2> QED BY <2>1, <2>2, QuietStep
<1>3. CASE SetFleetDefaults
  <2>1. UNCHANGED <<owner, row, task, link, ready, jobs, agent, history>> /\ defaults' = defaults + 1
    BY <1>3 DEF SetFleetDefaults
  <2>2. defaults' \in Nat /\ defaults' # 0
    BY <2>1 DEF Inv, Typed
  <2> QED BY <2>1, <2>2, QuietStep
<1>4. CASE HubCrash
  BY <1>4, HubCrashStep
<1>5. ASSUME NEW w \in Worker, Request(w)
      PROVE  Inv'
  BY <1>5, RequestStep, BuildStep, AddStep, SetStep, CallStep, CallFailsStep, MoveStep, NoteStep,
     StoreFailsStep DEF Request
<1>6. ASSUME NEW p \in Proxy, Agent(p)
      PROVE  Inv'
  <2>1. CASE Heartbeat(p)
    BY <1>1, <2>1 DEF Heartbeat
  <2>2. CASE \E j \in jobs[p] : handleRequest(p, j) \/ SaveDesiredState(p, j) \/ applyDesired(p, j)
    BY <2>2, ReadAndSaveStep, ApplyStep
  <2> QED BY <1>6, <2>1, <2>2, ReadyStep, ReadyCallStep, LinkDownStep, AgentCrashStep DEF Agent
<1> QED BY <1>1, <1>2, <1>3, <1>4, <1>5, <1>6 DEF Next

(* The invariant holds in every reachable state.                            *)
THEOREM Invariance == Spec => []Inv
<1>1. Inv /\ [Next]_vars => Inv'
  BY NextInv
<1> QED BY InitInv, <1>1, PTL DEF Spec

(* A connected proxy to which nothing is under way, and at which the last state
   went through by itself, runs the state in its row.                       *)
THEOREM ProxiesConverge == Spec => []Converged
<1>1. Inv => Converged
  <2> SUFFICES ASSUME Inv, NEW p \in Proxy, p \in link, ~Underway(p), ~tangled[p]
               PROVE  Same(live[p], row[p])
    BY DEF Converged
  <2>1. jobs[p] = {} /\ ~Unsent(p)
    BY DEF Underway, Unsent, Before
  <2> QED BY <2>1 DEF Inv, Settled
<1> QED BY <1>1, Invariance, PTL

(* However requests overlap, an agent's file holds what it runs, unless a state
   did not go through by itself or the file could not be written.           *)
THEOREM AgentsStartCold == Spec => []ColdStart
<1>1. Inv => ColdStart
  BY DEF Inv, Filed, ColdStart
<1> QED BY <1>1, Invariance, PTL

(* While requests do not overlap, a revision names one state in the row, on the
   way, in a goroutine and in the agent's file.                             *)
THEOREM RevisionsNameStates == Spec => []RevisionNamesState
<1>1. Inv => RevisionNamesState
  BY DEF Inv, Ordered, Numbered, RevisionNamesState
<1> QED BY <1>1, Invariance, PTL

-----------------------------------------------------------------------------
(* Where a migration keeps the routes                                       *)
Order == SetToSeq(Route)
Count == Len(Order)

(* t is what is left of a program from its step i.                          *)
Within(t, program, i) ==
    Len(t) = Len(program) + 1 - i /\ \A k \in 1..Len(t) : t[k] = program[i + k - 1]

Full(p) == row[p].routes = Route
Bare(p) == row[p].routes = {}
Owned(p) == \A r \in Route : owner[r] = p

(* A migration's request starts with its moves, and the proxy it moves to is
   the first it pushes.                                                     *)
Filling(p, i, s) ==
    /\ i <= Count + 1 => \A k \in 1..Count : k < i => owner[Order[k]] = p
    /\ i = Count + 2 => s.routes = Route
    /\ i > Count + 2 => Full(p)

Preparing(t, s) == \E i \in 1..Len(migrationPrep) :
    /\ Within(t, migrationPrep, i) /\ Filling(To, i, s)
    /\ i = 2 * Count + 9 => s.routes = Route

Completing(t, s) == \E i \in 1..Len(migrationComplete) :
    /\ Within(t, migrationComplete, i) /\ Filling(To, i, s)
    /\ i > Count + 1 => Owned(To)
    /\ i = Count + 5 => s.routes = {}
    /\ i > Count + 5 => Bare(From)

Aborting(t, s) == \E i \in 1..Len(migrationAbort) :
    Within(t, migrationAbort, i) /\ Filling(From, i, s)

Pushing(t, s) == \E p \in Proxy, i \in 1..3 :
    Within(t, pushDesired(p, TRUE), i) /\ (i = 2 => s.routes = ListRoutesForProxy(p))

InPlace ==
    /\ Full(From) \/ Full(To)
    /\ phase \in {"none", "created", "prepared", "completed", "aborted"}
    /\ phase = "none" => Owned(From) /\ Full(From)
    /\ phase = "completed" => Owned(To) /\ Full(To) /\ Bare(From)

Doing(t, s) ==
    \/ phase \in {"none", "completed"} /\ Pushing(t, s)
    \/ phase \in {"created", "aborted"} /\ Preparing(t, s)
    \/ phase = "prepared" /\ Completing(t, s)
    \/ phase \notin {"none", "completed"} /\ Aborting(t, s)

Kept == ~overlap /\ ~pushed /\ ~slipped => InPlace /\ \A w \in Worker : Busy(w) => Doing(task[w].todo, task[w].s)

(* Every route has its place in the order.                                  *)
LEMMA OrderIs ==
    Count \in Nat /\ Order \in [1..Count -> Route] /\ \A r \in Route : \E k \in 1..Count : Order[k] = r
<1> DEFINE n == Cardinality(Route)
<1>1. n \in Nat /\ ExistsBijection(1..n, Route)
  BY FleetAssumption, FS_CardinalityType
<1>2. PICK f \in [1..n -> Route] : IsInjective(f)
  BY <1>1 DEF ExistsBijection, Bijection, Injection, IsInjective
<1>3. Order \in [1..n -> Route] /\ IsInjective(Order)
  BY <1>2 DEF SetToSeq, Order
<1>4. Cardinality(1..n) = n
  BY <1>1, FS_Interval
<1>5. Order \in Injection(1..n, Route)
  BY <1>3 DEF Injection, IsInjective
<1>6. Order \in Surjection(1..n, Route)
  BY <1>4, <1>5, FleetAssumption, FS_Injection
<1> HIDE DEF n
<1>7. Count = n
  BY <1>1, <1>3 DEF Count
<1> QED BY <1>1, <1>3, <1>6, <1>7 DEF Surjection

(* The steps of a concatenation.                                            *)
Joins(u, s, t) ==
    /\ u \in Seq(AnyStep) /\ Len(u) = Len(s) + Len(t)
    /\ \A i \in 1..Len(s) : u[i] = s[i]
    /\ \A i \in 1..Len(t) : u[Len(s) + i] = t[i]

(* A concatenation joins its parts.                                         *)
LEMMA Concat ==
    ASSUME NEW s \in Seq(AnyStep), NEW t \in Seq(AnyStep)
    PROVE  Joins(s \o t, s, t)
  BY DEF Joins

(* The steps of all moves.                                                  *)
LEMMA MovesTable ==
    ASSUME NEW p \in Proxy, NEW m \in BOOLEAN
    PROVE  /\ Moves(p, m) \in Seq(AnyStep) /\ Len(Moves(p, m)) = Count
           /\ \A i \in 1..Count : Moves(p, m)[i].do = "move" /\ Moves(p, m)[i].p = p /\ Moves(p, m)[i].r = Order[i]
<1>1. Count \in Nat
  BY OrderIs
<1>2. Moves(p, m) = [i \in 1..Count |-> [do |-> "move", p |-> p, r |-> Order[i], must |-> m]]
  BY DEF Moves, Order, Count
<1>3. Moves(p, m) \in Seq(AnyStep)
  BY MovesAre DEF Segment
<1>4. Len(Moves(p, m)) = Count
  BY <1>1, <1>2, <1>3
<1>5. \A i \in 1..Count : Moves(p, m)[i] = [do |-> "move", p |-> p, r |-> Order[i], must |-> m]
  BY <1>2
<1> QED BY <1>3, <1>4, <1>5

(* The steps of a push.                                                     *)
LEMMA PushTable ==
    ASSUME NEW p \in Proxy, NEW must \in BOOLEAN
    PROVE  /\ pushDesired(p, must) \in Seq(AnyStep) /\ Len(pushDesired(p, must)) = 3
           /\ pushDesired(p, must)[1].do = "build" /\ pushDesired(p, must)[1].p = p
           /\ pushDesired(p, must)[2].do = "set" /\ pushDesired(p, must)[2].p = p
           /\ pushDesired(p, must)[3].do = "send" /\ pushDesired(p, must)[3].p = p
<1>1. pushDesired(p, must) \in Seq(AnyStep)
  BY PushIs DEF Segment
<1> QED BY <1>1 DEF pushDesired, Step

(* A migration's request begins with the moves and the two pushes.          *)
Half(p, q, m, n) == Moves(p, m) \o pushDesired(p, m) \o pushDesired(q, n)

Moved(u, p, q) ==
    /\ \A i \in 1..Count : u[i].do = "move" /\ u[i].p = p /\ u[i].r = Order[i]
    /\ u[Count + 1].do = "build" /\ u[Count + 1].p = p
    /\ u[Count + 2].do = "set" /\ u[Count + 2].p = p
    /\ u[Count + 3].do = "send"
    /\ u[Count + 4].do = "build" /\ u[Count + 4].p = q
    /\ u[Count + 5].do = "set" /\ u[Count + 5].p = q
    /\ u[Count + 6].do = "send"

(* The steps of the first half of a migration's request.                    *)
LEMMA HalfTable ==
    ASSUME NEW p \in Proxy, NEW q \in Proxy, NEW m \in BOOLEAN, NEW n \in BOOLEAN
    PROVE  /\ Half(p, q, m, n) \in Seq(AnyStep) /\ Len(Half(p, q, m, n)) = Count + 6
           /\ Moved(Half(p, q, m, n), p, q)
<1> DEFINE a == Moves(p, m)
           b == pushDesired(p, m)
           c == pushDesired(q, n)
<1>1. Count \in Nat
  BY OrderIs
<1>2. a \in Seq(AnyStep) /\ Len(a) = Count /\ \A i \in 1..Count : a[i].do = "move" /\ a[i].p = p /\ a[i].r = Order[i]
  BY MovesTable
<1>3. /\ b \in Seq(AnyStep) /\ Len(b) = 3
      /\ b[1].do = "build" /\ b[1].p = p /\ b[2].do = "set" /\ b[2].p = p /\ b[3].do = "send"
  BY PushTable
<1>4. /\ c \in Seq(AnyStep) /\ Len(c) = 3
      /\ c[1].do = "build" /\ c[1].p = q /\ c[2].do = "set" /\ c[2].p = q /\ c[3].do = "send"
  BY PushTable
<1> HIDE DEF a, b, c
<1>a. PICK d : d = a \o b
  OBVIOUS
<1>b. PICK e : e = d \o c
  OBVIOUS
<1>5. /\ d \in Seq(AnyStep) /\ Len(d) = Count + 3
      /\ \A i \in 1..Count : d[i] = a[i]
      /\ \A i \in 1..3 : d[Count + i] = b[i]
  <2>1. a \in Seq(AnyStep) /\ b \in Seq(AnyStep) /\ Count \in Nat /\ 3 \in Nat /\ Len(a) = Count /\ Len(b) = 3
    BY <1>1, <1>2, <1>3
  <2>2. Joins(a \o b, a, b)
    BY <2>1, Concat
  <2>3. Joins(d, a, b)
    BY <1>a, <2>2
  <2> QED BY <2>1, <2>3 DEF Joins
<1>6. /\ e \in Seq(AnyStep) /\ Len(e) = Count + 6
      /\ \A i \in 1..(Count + 3) : e[i] = d[i]
      /\ \A i \in 1..3 : e[Count + 3 + i] = c[i]
  <2>1. PICK k \in Nat : k = Count + 3
    BY <1>1
  <2>2. d \in Seq(AnyStep) /\ c \in Seq(AnyStep) /\ 3 \in Nat /\ Len(d) = k /\ Len(c) = 3
    BY <1>4, <1>5, <2>1
  <2>3. e \in Seq(AnyStep) /\ Len(e) = k + 3 /\ (\A i \in 1..k : e[i] = d[i]) /\ \A i \in 1..3 : e[k + i] = c[i]
    <3>1. Joins(d \o c, d, c)
      BY <2>2, Concat
    <3>2. Joins(e, d, c)
      BY <1>b, <3>1
    <3> QED BY <2>2, <3>2 DEF Joins
  <2> QED BY <1>1, <2>1, <2>3
<1>7. /\ \A i \in 1..Count : e[i] = a[i]
      /\ e[Count + 1] = b[1] /\ e[Count + 2] = b[2] /\ e[Count + 3] = b[3]
      /\ e[Count + 4] = c[1] /\ e[Count + 5] = c[2] /\ e[Count + 6] = c[3]
  BY <1>1, <1>5, <1>6
<1>8. e = Half(p, q, m, n)
  BY <1>a, <1>b DEF a, b, c, Half
<1>9. Moved(e, p, q)
  BY <1>2, <1>3, <1>4, <1>7 DEF Moved
<1> QED BY <1>6, <1>8, <1>9

(* What follows the first half leaves it alone.                             *)
LEMMA Longer ==
    ASSUME NEW p, NEW q, NEW h \in Seq(AnyStep), NEW v \in Seq(AnyStep), NEW u, Joins(u, h, v),
           Moved(h, p, q), Count \in Nat, Len(h) >= Count + 6
    PROVE  Moved(u, p, q)
<1>1. \A i \in 1..(Count + 6) : u[i] = h[i]
  BY DEF Joins
<1>2. (\A i \in 1..Count : u[i] = h[i]) /\ \A i \in 1..6 : u[Count + i] = h[Count + i]
  BY <1>1
<1>3. /\ u[Count + 1] = h[Count + 1] /\ u[Count + 2] = h[Count + 2] /\ u[Count + 3] = h[Count + 3]
      /\ u[Count + 4] = h[Count + 4] /\ u[Count + 5] = h[Count + 5] /\ u[Count + 6] = h[Count + 6]
  BY <1>2
<1> QED BY <1>2, <1>3 DEF Moved

(* The end of a migration's request.                                        *)
LEMMA NoteTable ==
    ASSUME NEW ph \in Ends, NEW h \in Seq(AnyStep), NEW u, u = h \o <<Step(ph, None, TRUE)>>
    PROVE  /\ u \in Seq(AnyStep) /\ Len(u) = Len(h) + 1 /\ Joins(u, h, <<Step(ph, None, TRUE)>>)
           /\ u[Len(h) + 1].do = ph
<1> DEFINE n == <<Step(ph, None, TRUE)>>
<1>1. n \in Seq(AnyStep)
  BY NoteIs DEF Segment
<1>2. Len(n) = 1 /\ n[1].do = ph
  BY DEF Step
<1> HIDE DEF n
<1>3. Joins(h \o n, h, n)
  BY <1>1, Concat
<1>4. Joins(u, h, n)
  BY <1>3 DEF n
<1>5. u \in Seq(AnyStep) /\ Len(u) = Len(h) + 1 /\ u[Len(h) + 1] = n[1]
  <2>1. 1 \in 1..Len(n)
    BY <1>2
  <2> QED BY <1>2, <1>4, <2>1 DEF Joins
<1> QED BY <1>2, <1>4, <1>5 DEF n

(* A program that notes its end.                                            *)
Noting(u, h, ph) == u = h \o <<Step(ph, None, TRUE)>>

(* The steps of the request that completes a migration, and of the one that
   aborts it.                                                               *)
LEMMA EndTable ==
    /\ Len(migrationComplete) = Count + 7 /\ Moved(migrationComplete, To, From)
    /\ migrationComplete[Count + 7].do = "completed"
    /\ Len(migrationAbort) = Count + 7 /\ Moved(migrationAbort, From, To)
    /\ migrationAbort[Count + 7].do = "aborted"
<1>1. Count \in Nat /\ From \in Proxy /\ To \in Proxy
  BY OrderIs, FleetAssumption
<1>2. ASSUME NEW h \in Seq(AnyStep), NEW p \in Proxy, NEW q \in Proxy, Moved(h, p, q), Len(h) = Count + 6,
             NEW ph \in Ends,
             NEW u, Noting(u, h, ph)
      PROVE  Len(u) = Count + 7 /\ Moved(u, p, q) /\ u[Count + 7].do = ph
  <2>1. /\ Len(u) = Len(h) + 1 /\ Joins(u, h, <<Step(ph, None, TRUE)>>) /\ u[Len(h) + 1].do = ph
    BY <1>2, NoteTable DEF Noting
  <2>2. <<Step(ph, None, TRUE)>> \in Seq(AnyStep)
    BY NoteIs DEF Segment
  <2>3. Moved(u, p, q)
    <3>1. Len(h) >= Count + 6
      BY <1>1, <1>2
    <3> QED BY <1>1, <1>2, <2>1, <2>2, <3>1, Longer
  <2>4. Len(h) + 1 = Count + 7
    BY <1>1, <1>2
  <2> QED BY <2>1, <2>3, <2>4
<1>3. /\ Half(To, From, TRUE, TRUE) \in Seq(AnyStep) /\ Len(Half(To, From, TRUE, TRUE)) = Count + 6
      /\ Moved(Half(To, From, TRUE, TRUE), To, From)
  BY <1>1, HalfTable
<1>4. /\ Half(From, To, FALSE, FALSE) \in Seq(AnyStep) /\ Len(Half(From, To, FALSE, FALSE)) = Count + 6
      /\ Moved(Half(From, To, FALSE, FALSE), From, To)
  BY <1>1, HalfTable
<1>5. /\ migrationComplete = Half(To, From, TRUE, TRUE) \o <<Step("completed", None, TRUE)>>
      /\ migrationAbort = Half(From, To, FALSE, FALSE) \o <<Step("aborted", None, TRUE)>>
  BY DEF migrationComplete, migrationAbort, Half
<1>6. "completed" \in Ends /\ "aborted" \in Ends
  BY DEF Ends
<1>7. /\ Len(migrationComplete) = Count + 7 /\ Moved(migrationComplete, To, From)
      /\ migrationComplete[Count + 7].do = "completed"
  <2>1. PICK h : h = Half(To, From, TRUE, TRUE)
    OBVIOUS
  <2>2. h \in Seq(AnyStep) /\ Moved(h, To, From) /\ Len(h) = Count + 6
    BY <1>3, <2>1
  <2>3. Noting(migrationComplete, h, "completed")
    BY <1>5, <2>1 DEF Noting
  <2> QED BY <1>1, <1>2, <1>6, <2>2, <2>3
<1>8. /\ Len(migrationAbort) = Count + 7 /\ Moved(migrationAbort, From, To)
      /\ migrationAbort[Count + 7].do = "aborted"
  <2>1. PICK h : h = Half(From, To, FALSE, FALSE)
    OBVIOUS
  <2>2. h \in Seq(AnyStep) /\ Moved(h, From, To) /\ Len(h) = Count + 6
    BY <1>4, <2>1
  <2>3. Noting(migrationAbort, h, "aborted")
    BY <1>5, <2>1 DEF Noting
  <2> QED BY <1>1, <1>2, <1>6, <2>2, <2>3
<1> QED BY <1>7, <1>8

(* The steps of the push of the routes that migrate.                        *)
LEMMA StageTable ==
    /\ stageRoutesOnDest \in Seq(AnyStep) /\ Len(stageRoutesOnDest) = 4
    /\ stageRoutesOnDest[1].do = "build" /\ stageRoutesOnDest[2].do = "add"
    /\ stageRoutesOnDest[3].do = "set" /\ stageRoutesOnDest[3].p = To /\ stageRoutesOnDest[4].do = "send"
<1>1. stageRoutesOnDest \in Seq(AnyStep)
  BY StageIs DEF Segment
<1> QED BY <1>1 DEF stageRoutesOnDest, Step

(* The steps of the request that prepares a migration.                      *)
LEMMA PrepTable ==
    /\ Len(migrationPrep) = 2 * Count + 11 /\ Moved(migrationPrep, To, From)
    /\ \A i \in (Count + 7)..(2 * Count + 6) : migrationPrep[i].do = "move"
    /\ migrationPrep[2 * Count + 7].do = "build" /\ migrationPrep[2 * Count + 8].do = "add"
    /\ migrationPrep[2 * Count + 9].do = "set" /\ migrationPrep[2 * Count + 9].p = To
    /\ migrationPrep[2 * Count + 10].do = "send" /\ migrationPrep[2 * Count + 11].do = "prepared"
<1> DEFINE h == Half(To, From, TRUE, FALSE)
           a == Moves(From, FALSE)
           b == stageRoutesOnDest
<1>1. Count \in Nat /\ From \in Proxy /\ To \in Proxy
  BY OrderIs, FleetAssumption
<1>2. h \in Seq(AnyStep) /\ Len(h) = Count + 6 /\ Moved(h, To, From)
  BY <1>1, HalfTable
<1>3. a \in Seq(AnyStep) /\ Len(a) = Count /\ \A i \in 1..Count : a[i].do = "move"
  BY <1>1, MovesTable
<1>4. /\ b \in Seq(AnyStep) /\ Len(b) = 4 /\ b[1].do = "build" /\ b[2].do = "add"
      /\ b[3].do = "set" /\ b[3].p = To /\ b[4].do = "send"
  BY StageTable
<1>5. migrationPrep = (h \o a) \o b \o <<Step("prepared", None, TRUE)>>
  BY DEF migrationPrep, Half
<1> HIDE DEF h, a, b
<1>6. PICK c : c = h \o a
  OBVIOUS
<1>7. Joins(c, h, a)
  BY <1>2, <1>3, <1>6, Concat
<1>8. c \in Seq(AnyStep) /\ Len(c) = 2 * Count + 6 /\ Moved(c, To, From)
  <2>1. c \in Seq(AnyStep) /\ Len(c) = Len(h) + Len(a)
    BY <1>7 DEF Joins
  <2>2. Len(h) + Len(a) = 2 * Count + 6 /\ Len(h) >= Count + 6
    BY <1>1, <1>2, <1>3
  <2>3. Moved(c, To, From)
    BY <1>1, <1>2, <1>3, <1>7, <2>2, Longer
  <2> QED BY <2>1, <2>2, <2>3
<1>9. \A i \in (Count + 7)..(2 * Count + 6) : c[i].do = "move"
  <2> SUFFICES ASSUME NEW i \in (Count + 7)..(2 * Count + 6)
               PROVE  c[i].do = "move"
    OBVIOUS
  <2>1. PICK k \in 1..Count : i = Count + 6 + k
    <3>1. i - (Count + 6) \in 1..Count /\ i = Count + 6 + (i - (Count + 6))
      BY <1>1
    <3> QED BY <3>1
  <2>2. c[i] = a[k]
    BY <1>2, <1>3, <1>7, <2>1 DEF Joins
  <2> QED BY <1>3, <2>2
<1>10. PICK d : d = c \o b
  OBVIOUS
<1>11. Joins(d, c, b)
  BY <1>4, <1>8, <1>10, Concat
<1>12. d \in Seq(AnyStep) /\ Len(d) = 2 * Count + 10 /\ Moved(d, To, From)
  <2>1. d \in Seq(AnyStep) /\ Len(d) = Len(c) + Len(b)
    BY <1>11 DEF Joins
  <2>2. Len(c) + Len(b) = 2 * Count + 10 /\ Len(c) >= Count + 6
    BY <1>1, <1>4, <1>8
  <2>3. Moved(d, To, From)
    BY <1>1, <1>4, <1>8, <1>11, <2>2, Longer
  <2> QED BY <2>1, <2>2, <2>3
<1>13. /\ \A i \in 1..(2 * Count + 6) : d[i] = c[i]
       /\ \A i \in 1..4 : d[2 * Count + 6 + i] = b[i]
  BY <1>4, <1>8, <1>11 DEF Joins
<1>14. /\ d[2 * Count + 7] = b[1] /\ d[2 * Count + 8] = b[2] /\ d[2 * Count + 9] = b[3] /\ d[2 * Count + 10] = b[4]
       /\ \A i \in (Count + 7)..(2 * Count + 6) : d[i] = c[i]
  BY <1>1, <1>13
<1>15. PICK e : e = d \o <<Step("prepared", None, TRUE)>>
  OBVIOUS
<1>16. e = migrationPrep
  BY <1>5, <1>6, <1>10, <1>15
<1>17. "prepared" \in Ends
  BY DEF Ends
<1>18. Len(e) = Len(d) + 1 /\ Joins(e, d, <<Step("prepared", None, TRUE)>>) /\ e[Len(d) + 1].do = "prepared"
  BY <1>12, <1>15, <1>17, NoteTable
<1>19. Moved(e, To, From)
  <2>1. <<Step("prepared", None, TRUE)>> \in Seq(AnyStep)
    BY <1>17, NoteIs DEF Segment
  <2>2. Len(d) >= Count + 6
    BY <1>1, <1>12
  <2> QED BY <1>1, <1>12, <1>18, <2>1, <2>2, Longer
<1>20. Len(d) + 1 = 2 * Count + 11
  BY <1>1, <1>12
<1>21. \A i \in 1..(2 * Count + 10) : e[i] = d[i]
  BY <1>12, <1>18 DEF Joins
<1>22. /\ \A i \in (Count + 7)..(2 * Count + 6) : e[i] = d[i]
       /\ e[2 * Count + 7] = d[2 * Count + 7] /\ e[2 * Count + 8] = d[2 * Count + 8]
       /\ e[2 * Count + 9] = d[2 * Count + 9] /\ e[2 * Count + 10] = d[2 * Count + 10]
  BY <1>1, <1>21
<1>23. /\ e[2 * Count + 7].do = "build" /\ e[2 * Count + 8].do = "add"
       /\ e[2 * Count + 9].do = "set" /\ e[2 * Count + 9].p = To /\ e[2 * Count + 10].do = "send"
  BY <1>4, <1>14, <1>22
<1>24. \A i \in (Count + 7)..(2 * Count + 6) : e[i].do = "move"
  BY <1>9, <1>14, <1>22
<1> QED BY <1>16, <1>18, <1>19, <1>20, <1>23, <1>24

(* What step h does with the state s of its request.                        *)
Effect(h, s, t) ==
    /\ IF h.do = "move" THEN owner' = [owner EXCEPT ![h.r] = h.p] ELSE UNCHANGED owner
    /\ IF h.do = "set" THEN row' = [row EXCEPT ![h.p] = s] ELSE UNCHANGED row
    /\ h.do = "build" => t.routes = ListRoutesForProxy(h.p)
    /\ h.do = "add" => t.routes = Route
    /\ h.do \notin {"build", "add"} => t.routes = s.routes

(* A step leads to the next of the program.                                 *)
LEMMA WithinNext ==
    ASSUME NEW t \in Seq(AnyStep), t # <<>>, NEW u, NEW n \in Nat, Len(u) = n, NEW i \in 1..n, Within(t, u, i)
    PROVE  /\ Head(t) = u[i] /\ (Tail(t) = <<>> <=> i = n)
           /\ Tail(t) # <<>> => i + 1 \in 1..n /\ Within(Tail(t), u, i + 1)
<1>1. Len(t) = n + 1 - i /\ Len(t) >= 1 /\ \A k \in 1..Len(t) : t[k] = u[i + k - 1]
  BY DEF Within
<1>2. PICK v : v = Tail(t)
  OBVIOUS
<1>3. v \in Seq(AnyStep) /\ Len(v) = Len(t) - 1 /\ (v = <<>> <=> Len(v) = 0) /\ \A k \in 1..Len(v) : v[k] = t[k + 1]
  <2>1. Tail(t) \in Seq(AnyStep) /\ Len(Tail(t)) = Len(t) - 1 /\ \A k \in 1..Len(Tail(t)) : Tail(t)[k] = t[k + 1]
    OBVIOUS
  <2>2. v \in Seq(AnyStep) /\ Len(v) = Len(t) - 1 /\ \A k \in 1..Len(v) : v[k] = t[k + 1]
    BY <1>2, <2>1
  <2>3. v = <<>> <=> Len(v) = 0
    BY <2>2
  <2> QED BY <2>2, <2>3
<1>4. Head(t) = u[i]
  <2>1. Head(t) = t[1] /\ 1 \in 1..Len(t) /\ i + 1 - 1 = i
    BY <1>1
  <2> QED BY <1>1, <2>1
<1>5. v = <<>> <=> i = n
  BY <1>1, <1>3
<1>6. ASSUME v # <<>>
      PROVE  i + 1 \in 1..n /\ Within(v, u, i + 1)
  <2>1. i + 1 \in 1..n /\ Len(v) = n + 1 - (i + 1)
    BY <1>1, <1>3, <1>5, <1>6
  <2>2. ASSUME NEW k \in 1..Len(v)
        PROVE  v[k] = u[(i + 1) + k - 1]
    <3>1. k + 1 \in 1..Len(t) /\ i + (k + 1) - 1 = (i + 1) + k - 1
      BY <1>1, <1>3
    <3> QED BY <1>1, <1>3, <3>1
  <2> QED BY <2>1, <2>2 DEF Within
<1> QED BY <1>2, <1>4, <1>5, <1>6

(* The first half of a migration fills p's row and empties q's.             *)
LEMMA FillGoes ==
    ASSUME Typed, NEW p \in Proxy, NEW q \in Proxy, p # q, NEW u, Moved(u, p, q), NEW i \in 1..(Count + 6),
           NEW s \in DesiredState, NEW t \in DesiredState, Filling(p, i, s), Effect(u[i], s, t)
    PROVE  /\ Filling(p, i + 1, t)'
           /\ Full(p) \/ Full(q) => (Full(p) \/ Full(q))'
           /\ (i > Count + 1 => Owned(p)) => (i + 1 > Count + 1 => Owned(p)')
           /\ (i > Count + 1 => Owned(p)) => (i + 1 = Count + 5 => t.routes = {})
           /\ (i = Count + 5 => s.routes = {}) /\ (i > Count + 5 => Bare(q)) => (i + 1 > Count + 5 => Bare(q)')
<1>1. /\ Count \in Nat /\ Order \in [1..Count -> Route] /\ \A r \in Route : \E k \in 1..Count : Order[k] = r
  BY OrderIs
<1>2. row \in [Proxy -> DesiredState] /\ owner \in [Route -> Proxy]
  BY DEF Typed
<1>3. CASE i <= Count
  <2>1. u[i].do = "move" /\ u[i].p = p /\ u[i].r = Order[i] /\ Order[i] \in Route
    BY <1>1, <1>3 DEF Moved
  <2>2. owner' = [owner EXCEPT ![Order[i]] = p] /\ UNCHANGED row
    BY <2>1 DEF Effect
  <2>3. \A k \in 1..Count : k < i => owner[Order[k]] = p
    BY <1>1, <1>3 DEF Filling
  <2>4. ASSUME NEW k \in 1..Count, k < i + 1
        PROVE  owner'[Order[k]] = p
    <3>1. Order[k] \in Route
      BY <1>1
    <3>2. k < i \/ k = i
      BY <1>1, <2>4
    <3> QED BY <1>2, <2>1, <2>2, <2>3, <3>1, <3>2
  <2>5. Filling(p, i + 1, t)'
    BY <1>1, <1>3, <2>4 DEF Filling
  <2>6. i + 1 <= Count + 1
    BY <1>1, <1>3
  <2> QED BY <1>1, <2>2, <2>5, <2>6 DEF Full
<1>4. CASE i > Count
  <2>1. i \in {Count + 1, Count + 2, Count + 3, Count + 4, Count + 5, Count + 6}
    BY <1>1, <1>4
  <2>2. u[i].do # "move" /\ UNCHANGED owner /\ (Owned(p) => Owned(p)')
    BY <2>1 DEF Moved, Effect, Owned
  <2>3. CASE i = Count + 1
    <3>1. u[i].do = "build" /\ u[i].p = p
      BY <2>3 DEF Moved
    <3>2. \A k \in 1..Count : owner[Order[k]] = p
      BY <1>1, <2>3 DEF Filling
    <3>3. Owned(p)
      BY <1>1, <3>2 DEF Owned
    <3>4. UNCHANGED row /\ t.routes = Route
      BY <3>1, <3>3 DEF Effect, Owned, ListRoutesForProxy
    <3>5. Filling(p, i + 1, t)'
      BY <1>1, <2>3, <3>4 DEF Filling
    <3>6. i + 1 # Count + 5 /\ ~(i + 1 > Count + 5)
      BY <1>1, <2>3
    <3> QED BY <2>2, <3>3, <3>4, <3>5, <3>6 DEF Full
  <2>4. CASE i = Count + 2
    <3>1. u[i].do = "set" /\ u[i].p = p /\ s.routes = Route
      BY <1>1, <2>4 DEF Moved, Filling
    <3>2. row' = [row EXCEPT ![p] = s]
      BY <3>1 DEF Effect
    <3>3. row'[p].routes = Route
      BY <1>2, <3>1, <3>2
    <3>4. Filling(p, i + 1, t)' /\ Full(p)'
      BY <1>1, <2>4, <3>3 DEF Filling, Full
    <3>5. i + 1 # Count + 5 /\ ~(i + 1 > Count + 5) /\ i > Count + 1
      BY <1>1, <2>4
    <3> QED BY <2>2, <3>4, <3>5
  <2>5. CASE i \in {Count + 3, Count + 4, Count + 6}
    <3>1. u[i].do # "set" /\ i > Count + 2 /\ i > Count + 1 /\ i + 1 > Count + 2 /\ i + 1 > Count + 1
      BY <1>1, <2>5 DEF Moved
    <3>2. UNCHANGED row /\ Full(p)
      BY <3>1 DEF Effect, Filling
    <3>3. Full(p)' /\ (Bare(q) => Bare(q)')
      BY <3>2 DEF Full, Bare
    <3>4. Filling(p, i + 1, t)'
      BY <1>1, <3>1, <3>3 DEF Filling
    <3>5. i + 1 = Count + 5 /\ Owned(p) => t.routes = {}
      <4>1. SUFFICES ASSUME i + 1 = Count + 5, Owned(p)
                     PROVE  t.routes = {}
        OBVIOUS
      <4>2. i = Count + 4
        BY <1>1, <4>1
      <4>3. u[i].do = "build" /\ u[i].p = q
        BY <4>2 DEF Moved
      <4>4. t.routes = ListRoutesForProxy(q)
        BY <4>3 DEF Effect
      <4> QED BY <4>1, <4>4 DEF Owned, ListRoutesForProxy
    <3>6. i + 1 > Count + 5 => i > Count + 5
      BY <1>1, <2>5
    <3> QED BY <2>2, <3>1, <3>3, <3>4, <3>5, <3>6
  <2>6. CASE i = Count + 5
    <3>1. u[i].do = "set" /\ u[i].p = q /\ Full(p)
      BY <1>1, <2>6 DEF Moved, Filling
    <3>2. row' = [row EXCEPT ![q] = s]
      BY <3>1 DEF Effect
    <3>3. row'[p] = row[p] /\ row'[q] = s
      BY <1>2, <3>2
    <3>4. Full(p)' /\ (s.routes = {} => Bare(q)')
      BY <3>1, <3>3 DEF Full, Bare
    <3>5. Filling(p, i + 1, t)'
      BY <1>1, <2>6, <3>4 DEF Filling
    <3>6. i + 1 # Count + 5 /\ i > Count + 1
      BY <1>1, <2>6
    <3> QED BY <2>2, <2>6, <3>4, <3>5, <3>6
  <2> QED BY <2>1, <2>3, <2>4, <2>5, <2>6
<1> QED BY <1>1, <1>3, <1>4

(* The second half of the preparation: the destination keeps all routes.    *)
LEMMA PrepGoes ==
    ASSUME Typed, NEW i \in 1..(2 * Count + 10), i > Count + 6,
           NEW s \in DesiredState, NEW t \in DesiredState, Full(To), i = 2 * Count + 9 => s.routes = Route,
           Effect(migrationPrep[i], s, t)
    PROVE  Full(To)' /\ (i + 1 = 2 * Count + 9 => t.routes = Route) /\ migrationPrep[i].do \notin Ends
<1>1. Count \in Nat /\ row \in [Proxy -> DesiredState] /\ To \in Proxy
  BY OrderIs, FleetAssumption DEF Typed
<1>2. CASE i = 2 * Count + 9
  <2>1. migrationPrep[i].do = "set" /\ migrationPrep[i].p = To
    BY <1>2, PrepTable
  <2>2. row' = [row EXCEPT ![To] = s] /\ s.routes = Route
    BY <1>2, <2>1 DEF Effect
  <2>3. i + 1 # 2 * Count + 9
    BY <1>1, <1>2
  <2> QED BY <1>1, <2>1, <2>2, <2>3 DEF Full, Ends
<1>3. CASE i # 2 * Count + 9
  <2>1. i \in (Count + 7)..(2 * Count + 6) \/ i = 2 * Count + 7 \/ i = 2 * Count + 8 \/ i = 2 * Count + 10
    BY <1>1, <1>3
  <2>2. migrationPrep[i].do \in {"move", "build", "add", "send"}
    BY <2>1, PrepTable
  <2>3. UNCHANGED row
    BY <2>2 DEF Effect
  <2>4. ASSUME i + 1 = 2 * Count + 9
        PROVE  t.routes = Route
    <3>1. i = 2 * Count + 8
      BY <1>1, <2>4
    <3>2. migrationPrep[i].do = "add"
      BY <3>1, PrepTable
    <3> QED BY <3>2 DEF Effect
  <2> QED BY <2>2, <2>3, <2>4 DEF Full, Ends
<1> QED BY <1>2, <1>3

(* The preparation.                                                         *)
LEMMA Prepares ==
    ASSUME Typed, NEW t \in Seq(AnyStep), t # <<>>, NEW s \in DesiredState, NEW y \in DesiredState,
           Preparing(t, s), Full(From) \/ Full(To), Effect(Head(t), s, y)
    PROVE  /\ (Full(From) \/ Full(To))'
           /\ Tail(t) # <<>> => Preparing(Tail(t), y)' /\ Head(t).do \notin Ends
           /\ Tail(t) = <<>> => Head(t).do = "prepared"
<1>1. Count \in Nat /\ Len(migrationPrep) = 2 * Count + 11 /\ Moved(migrationPrep, To, From)
  BY OrderIs, PrepTable
<1>2. PICK i \in 1..(2 * Count + 11) :
         Within(t, migrationPrep, i) /\ Filling(To, i, s) /\ (i = 2 * Count + 9 => s.routes = Route)
  BY <1>1 DEF Preparing
<1>3. 2 * Count + 11 \in Nat
  BY <1>1
<1>4. /\ Head(t) = migrationPrep[i] /\ (Tail(t) = <<>> <=> i = 2 * Count + 11)
      /\ Tail(t) # <<>> => i + 1 \in 1..(2 * Count + 11) /\ Within(Tail(t), migrationPrep, i + 1)
  BY <1>1, <1>2, <1>3, WithinNext
<1>5. Effect(migrationPrep[i], s, y) /\ From \in Proxy /\ To \in Proxy /\ From # To
  BY <1>4, FleetAssumption
<1>6. CASE i <= Count + 6
  <2>1. i \in 1..(Count + 6) /\ i # 2 * Count + 11 /\ i + 1 # 2 * Count + 9
    BY <1>1, <1>6
  <2>2. Filling(To, i + 1, y)' /\ (Full(To) \/ Full(From))'
    BY <1>1, <1>2, <1>5, <2>1, FillGoes
  <2>3. migrationPrep[i].do \notin Ends
    <3>1. i \in 1..Count \/ i \in {Count + 1, Count + 2, Count + 3, Count + 4, Count + 5, Count + 6}
      BY <1>1, <2>1
    <3> QED BY <1>1, <3>1 DEF Moved, Ends
  <2> QED BY <1>1, <1>4, <2>1, <2>2, <2>3 DEF Preparing
<1>7. CASE i > Count + 6 /\ i < 2 * Count + 11
  <2>1. i \in 1..(2 * Count + 10) /\ i > Count + 6 /\ i > Count + 2 /\ i # 2 * Count + 11
    BY <1>1, <1>7
  <2>2. Full(To)
    BY <1>2, <2>1 DEF Filling
  <2>3. Full(To)' /\ (i + 1 = 2 * Count + 9 => y.routes = Route) /\ migrationPrep[i].do \notin Ends
    BY <1>2, <1>5, <2>1, <2>2, PrepGoes
  <2>4. i + 1 > Count + 2
    BY <1>1, <2>1
  <2>5. Filling(To, i + 1, y)'
    BY <1>1, <2>3, <2>4 DEF Filling
  <2> QED BY <1>1, <1>4, <2>1, <2>3, <2>5 DEF Preparing
<1>8. CASE i = 2 * Count + 11
  <2>1. migrationPrep[i].do = "prepared"
    BY <1>8, PrepTable
  <2>2. UNCHANGED row
    BY <1>5, <2>1 DEF Effect
  <2> QED BY <1>4, <1>8, <2>1, <2>2 DEF Full
<1> QED BY <1>1, <1>6, <1>7, <1>8

(* The completion.                                                          *)
LEMMA Completes ==
    ASSUME Typed, NEW t \in Seq(AnyStep), t # <<>>, NEW s \in DesiredState, NEW y \in DesiredState,
           Completing(t, s), Full(From) \/ Full(To), Effect(Head(t), s, y)
    PROVE  /\ (Full(From) \/ Full(To))'
           /\ Tail(t) # <<>> => Completing(Tail(t), y)' /\ Head(t).do \notin Ends
           /\ Tail(t) = <<>> => Head(t).do = "completed" /\ Owned(To)' /\ Full(To)' /\ Bare(From)'
<1>1. Count \in Nat /\ Len(migrationComplete) = Count + 7 /\ Moved(migrationComplete, To, From)
  BY OrderIs, EndTable
<1>2. PICK i \in 1..(Count + 7) :
         /\ Within(t, migrationComplete, i) /\ Filling(To, i, s) /\ (i > Count + 1 => Owned(To))
         /\ (i = Count + 5 => s.routes = {}) /\ (i > Count + 5 => Bare(From))
  BY <1>1 DEF Completing
<1>3. Count + 7 \in Nat
  BY <1>1
<1>4. /\ Head(t) = migrationComplete[i] /\ (Tail(t) = <<>> <=> i = Count + 7)
      /\ Tail(t) # <<>> => i + 1 \in 1..(Count + 7) /\ Within(Tail(t), migrationComplete, i + 1)
  BY <1>1, <1>2, <1>3, WithinNext
<1>5. Effect(migrationComplete[i], s, y) /\ From \in Proxy /\ To \in Proxy /\ From # To
  BY <1>4, FleetAssumption
<1>6. CASE i <= Count + 6
  <2>1. i \in 1..(Count + 6) /\ i # Count + 7
    BY <1>1, <1>6
  <2>2. /\ Filling(To, i + 1, y)' /\ (Full(To) \/ Full(From))' /\ (i + 1 > Count + 1 => Owned(To)')
        /\ (i + 1 = Count + 5 => y.routes = {}) /\ (i + 1 > Count + 5 => Bare(From)')
    BY <1>1, <1>2, <1>5, <2>1, FillGoes
  <2>3. migrationComplete[i].do \notin Ends
    <3>1. i \in 1..Count \/ i \in {Count + 1, Count + 2, Count + 3, Count + 4, Count + 5, Count + 6}
      BY <1>1, <2>1
    <3> QED BY <1>1, <3>1 DEF Moved, Ends
  <2> QED BY <1>1, <1>4, <2>1, <2>2, <2>3 DEF Completing
<1>7. CASE i = Count + 7
  <2>1. migrationComplete[i].do = "completed"
    BY <1>7, EndTable
  <2>2. UNCHANGED <<row, owner>>
    BY <1>5, <2>1 DEF Effect
  <2>3. i > Count + 5 /\ i > Count + 2 /\ i > Count + 1
    BY <1>1, <1>7
  <2>4. Owned(To) /\ Full(To) /\ Bare(From)
    BY <1>2, <2>3 DEF Filling
  <2> QED BY <1>4, <1>7, <2>1, <2>2, <2>4 DEF Full, Owned, Bare
<1> QED BY <1>1, <1>6, <1>7

(* The abort.                                                               *)
LEMMA Aborts ==
    ASSUME Typed, NEW t \in Seq(AnyStep), t # <<>>, NEW s \in DesiredState, NEW y \in DesiredState,
           Aborting(t, s), Full(From) \/ Full(To), Effect(Head(t), s, y)
    PROVE  /\ (Full(From) \/ Full(To))'
           /\ Tail(t) # <<>> => Aborting(Tail(t), y)' /\ Head(t).do \notin Ends
           /\ Tail(t) = <<>> => Head(t).do = "aborted"
<1>1. Count \in Nat /\ Len(migrationAbort) = Count + 7 /\ Moved(migrationAbort, From, To)
  BY OrderIs, EndTable
<1>2. PICK i \in 1..(Count + 7) : Within(t, migrationAbort, i) /\ Filling(From, i, s)
  BY <1>1 DEF Aborting
<1>3. Count + 7 \in Nat
  BY <1>1
<1>4. /\ Head(t) = migrationAbort[i] /\ (Tail(t) = <<>> <=> i = Count + 7)
      /\ Tail(t) # <<>> => i + 1 \in 1..(Count + 7) /\ Within(Tail(t), migrationAbort, i + 1)
  BY <1>1, <1>2, <1>3, WithinNext
<1>5. Effect(migrationAbort[i], s, y) /\ From \in Proxy /\ To \in Proxy /\ From # To
  BY <1>4, FleetAssumption
<1>6. CASE i <= Count + 6
  <2>1. i \in 1..(Count + 6) /\ i # Count + 7
    BY <1>1, <1>6
  <2>2. Filling(From, i + 1, y)' /\ (Full(From) \/ Full(To))'
    BY <1>1, <1>2, <1>5, <2>1, FillGoes
  <2>3. migrationAbort[i].do \notin Ends
    <3>1. i \in 1..Count \/ i \in {Count + 1, Count + 2, Count + 3, Count + 4, Count + 5, Count + 6}
      BY <1>1, <2>1
    <3> QED BY <1>1, <3>1 DEF Moved, Ends
  <2> QED BY <1>1, <1>4, <2>1, <2>2, <2>3 DEF Aborting
<1>7. CASE i = Count + 7
  <2>1. migrationAbort[i].do = "aborted"
    BY <1>7, EndTable
  <2>2. UNCHANGED row
    BY <1>5, <2>1 DEF Effect
  <2> QED BY <1>4, <1>7, <2>1, <2>2 DEF Full
<1> QED BY <1>1, <1>6, <1>7

(* A push gives the proxy the routes it owns.                               *)
LEMMA Pushes ==
    ASSUME Typed, NEW t \in Seq(AnyStep), t # <<>>, NEW s \in DesiredState, NEW y \in DesiredState,
           Pushing(t, s), Effect(Head(t), s, y)
    PROVE  /\ UNCHANGED owner /\ Head(t).do \notin Ends
           /\ Tail(t) # <<>> => Pushing(Tail(t), y)'
           /\ \A q \in Proxy : row'[q] = row[q] \/ row'[q].routes = ListRoutesForProxy(q)
<1>1. PICK p \in Proxy, i \in 1..3 : Within(t, pushDesired(p, TRUE), i) /\ (i = 2 => s.routes = ListRoutesForProxy(p))
  BY DEF Pushing
<1>2. PICK u : u = pushDesired(p, TRUE)
  OBVIOUS
<1>3. /\ Len(u) = 3 /\ u[1].do = "build" /\ u[1].p = p /\ u[2].do = "set" /\ u[2].p = p /\ u[3].do = "send"
  BY <1>2, PushTable
<1>4. Within(t, u, i)
  BY <1>1, <1>2
<1>5. /\ Head(t) = u[i] /\ (Tail(t) = <<>> <=> i = 3)
      /\ Tail(t) # <<>> => i + 1 \in 1..3 /\ Within(Tail(t), u, i + 1)
  BY <1>3, <1>4, WithinNext
<1>6. Effect(u[i], s, y) /\ row \in [Proxy -> DesiredState]
  BY <1>5 DEF Typed
<1>7. UNCHANGED owner /\ u[i].do \notin Ends
  BY <1>3, <1>6 DEF Effect, Ends
<1>8. ASSUME Tail(t) # <<>>
      PROVE  Pushing(Tail(t), y)'
  <2>1. i + 1 \in 1..3 /\ Within(Tail(t), pushDesired(p, TRUE), i + 1)
    BY <1>2, <1>5, <1>8
  <2>2. i + 1 = 2 => y.routes = ListRoutesForProxy(p)
    <3>1. SUFFICES ASSUME i = 1
                   PROVE  y.routes = ListRoutesForProxy(p)
      OBVIOUS
    <3> QED BY <1>3, <1>6, <3>1 DEF Effect
  <2>3. ListRoutesForProxy(p)' = ListRoutesForProxy(p)
    BY <1>7 DEF ListRoutesForProxy
  <2> QED BY <2>1, <2>2, <2>3 DEF Pushing
<1>9. ASSUME NEW q \in Proxy
      PROVE  row'[q] = row[q] \/ row'[q].routes = ListRoutesForProxy(q)
  <2>1. CASE i = 2
    <3>1. row' = [row EXCEPT ![p] = s] /\ s.routes = ListRoutesForProxy(p)
      BY <1>1, <1>3, <1>6, <2>1 DEF Effect
    <3> QED BY <1>6, <3>1
  <2>2. CASE i # 2
    <3>1. i = 1 \/ i = 3
      BY <2>2
    <3> QED BY <1>3, <1>6, <3>1 DEF Effect
  <2> QED BY <2>1, <2>2
<1> QED BY <1>5, <1>7, <1>8, <1>9

(* A step of a request that goes on keeps the routes in place.              *)
LEMMA GoesOn ==
    ASSUME Inv, Kept, NEW w \in Worker, Busy(w), NEW y \in DesiredState, task' = Continue(w, y),
           Effect(Head(task[w].todo), task[w].s, y), UNCHANGED <<overlap, pushed, slipped>>,
           phase' = IF Head(task[w].todo).do \in Ends THEN Head(task[w].todo).do ELSE phase
    PROVE  Kept'
<1> SUFFICES ASSUME ~overlap, ~pushed, ~slipped
             PROVE  InPlace' /\ \A v \in Worker : Busy(v)' => Doing(task[v].todo, task[v].s)'
  BY DEF Kept
<1>1. PICK t, s : t = task[w].todo /\ s = task[w].s
  OBVIOUS
<1>2. Typed /\ t \in Seq(AnyStep) /\ t # <<>> /\ s \in DesiredState
  BY <1>1 DEF Inv, Typed, Task, Busy
<1>3. InPlace /\ Doing(t, s)
  BY <1>1 DEF Kept
<1>4. /\ Effect(Head(t), s, y) /\ phase' = IF Head(t).do \in Ends THEN Head(t).do ELSE phase
  BY <1>1
<1>5. \A v \in Worker \ {w} : task'[v] = task[v] /\ ~Busy(v)'
  <2>1. \A v \in Worker \ {w} : task'[v] = task[v]
    BY <1>2 DEF Continue, Resume, Typed
  <2>2. \A v \in Worker \ {w} : ~Busy(v)
    BY DEF Inv, Ordered, Solo
  <2> QED BY <2>1, <2>2 DEF Busy
<1>6. Busy(w)' => Tail(t) # <<>> /\ task'[w].todo = Tail(t) /\ task'[w].s = y
  <2>1. CASE Tail(t) = <<>>
    <3>1. task'[w] = Idle /\ Idle.todo = <<>>
      BY <1>1, <1>2, <2>1 DEF Continue, Resume, Typed, Idle
    <3> QED BY <3>1 DEF Busy
  <2>2. CASE Tail(t) # <<>>
    <3>1. task'[w] = [todo |-> Tail(t), s |-> y, waits |-> FALSE]
      BY <1>1, <1>2, <2>2 DEF Continue, Resume, Typed
    <3> QED BY <2>2, <3>1
  <2> QED BY <2>1, <2>2
<1>7. InPlace' /\ (Tail(t) # <<>> => Doing(Tail(t), y)')
  <2>1. CASE phase \in {"none", "completed"} /\ Pushing(t, s)
    <3>1. /\ UNCHANGED owner /\ Head(t).do \notin Ends /\ (Tail(t) # <<>> => Pushing(Tail(t), y)')
          /\ \A q \in Proxy : row'[q] = row[q] \/ row'[q].routes = ListRoutesForProxy(q)
      BY <1>2, <1>4, <2>1, Pushes
    <3>2. phase' = phase
      BY <1>4, <3>1
    <3>3. From \in Proxy /\ To \in Proxy /\ From # To
      BY FleetAssumption
    <3>4. CASE phase = "none"
      <4>1. Owned(From) /\ Full(From) /\ Owned(From)'
        BY <1>3, <3>1, <3>4 DEF InPlace, Owned
      <4>2. Full(From)'
        <5>1. ListRoutesForProxy(From) = Route
          BY <4>1 DEF Owned, ListRoutesForProxy
        <5>2. row'[From] = row[From] \/ row'[From].routes = ListRoutesForProxy(From)
          BY <3>1, <3>3
        <5> QED BY <4>1, <5>1, <5>2 DEF Full
      <4> QED BY <2>1, <3>1, <3>2, <3>4, <4>1, <4>2 DEF InPlace, Doing
    <3>5. CASE phase = "completed"
      <4>1. Owned(To) /\ Full(To) /\ Bare(From) /\ Owned(To)'
        BY <1>3, <3>1, <3>5 DEF InPlace, Owned
      <4>2. Full(To)'
        <5>1. ListRoutesForProxy(To) = Route
          BY <4>1 DEF Owned, ListRoutesForProxy
        <5>2. row'[To] = row[To] \/ row'[To].routes = ListRoutesForProxy(To)
          BY <3>1, <3>3
        <5> QED BY <4>1, <5>1, <5>2 DEF Full
      <4>3. Bare(From)'
        BY <3>1, <3>3, <4>1 DEF Bare, Owned, ListRoutesForProxy
      <4> QED BY <2>1, <3>1, <3>2, <3>5, <4>1, <4>2, <4>3 DEF InPlace, Doing
    <3> QED BY <2>1, <3>4, <3>5
  <2>2. CASE phase \in {"created", "aborted"} /\ Preparing(t, s)
    <3>1. /\ (Full(From) \/ Full(To))'
          /\ Tail(t) # <<>> => Preparing(Tail(t), y)' /\ Head(t).do \notin Ends
          /\ Tail(t) = <<>> => Head(t).do = "prepared"
      BY <1>2, <1>3, <1>4, <2>2, Prepares DEF InPlace
    <3>2. (Tail(t) # <<>> => phase' = phase) /\ (Tail(t) = <<>> => phase' = "prepared")
      BY <1>4, <3>1 DEF Ends
    <3> QED BY <2>2, <3>1, <3>2 DEF InPlace, Doing
  <2>3. CASE phase = "prepared" /\ Completing(t, s)
    <3>1. /\ (Full(From) \/ Full(To))'
          /\ Tail(t) # <<>> => Completing(Tail(t), y)' /\ Head(t).do \notin Ends
          /\ Tail(t) = <<>> => Head(t).do = "completed" /\ Owned(To)' /\ Full(To)' /\ Bare(From)'
      BY <1>2, <1>3, <1>4, <2>3, Completes DEF InPlace
    <3>2. (Tail(t) # <<>> => phase' = phase) /\ (Tail(t) = <<>> => phase' = "completed")
      BY <1>4, <3>1 DEF Ends
    <3> QED BY <2>3, <3>1, <3>2 DEF InPlace, Doing
  <2>4. CASE phase \notin {"none", "completed"} /\ Aborting(t, s)
    <3>1. /\ (Full(From) \/ Full(To))'
          /\ Tail(t) # <<>> => Aborting(Tail(t), y)' /\ Head(t).do \notin Ends
          /\ Tail(t) = <<>> => Head(t).do = "aborted"
      BY <1>2, <1>3, <1>4, <2>4, Aborts DEF InPlace
    <3>2. (Tail(t) # <<>> => phase' = phase) /\ (Tail(t) = <<>> => phase' = "aborted")
      BY <1>4, <3>1 DEF Ends
    <3> QED BY <1>3, <2>4, <3>1, <3>2 DEF InPlace, Doing
  <2> QED BY <1>3, <2>1, <2>2, <2>3, <2>4 DEF Doing
<1>8. Busy(w)' => Doing(task[w].todo, task[w].s)'
  BY <1>6, <1>7
<1> QED BY <1>5, <1>7, <1>8

(* The store is left alone, and a request as it is or without a step left.  *)
LEMMA Rests ==
    ASSUME Kept, UNCHANGED <<owner, row, phase, overlap, pushed, slipped>>,
           \A v \in Worker : Busy(v)' => task'[v].todo = task[v].todo /\ task'[v].s = task[v].s
    PROVE  Kept'
<1> SUFFICES ASSUME ~overlap, ~pushed, ~slipped
             PROVE  InPlace' /\ \A v \in Worker : Busy(v)' => Doing(task[v].todo, task[v].s)'
  BY DEF Kept
<1>1. InPlace /\ \A v \in Worker : Busy(v) => Doing(task[v].todo, task[v].s)
  BY DEF Kept
<1>2. InPlace'
  BY <1>1 DEF InPlace, Full, Bare, Owned
<1>3. ASSUME NEW v \in Worker, Busy(v)'
      PROVE  Doing(task[v].todo, task[v].s)'
  <2>1. PICK t, s : t = task[v].todo /\ s = task[v].s
    OBVIOUS
  <2>2. t = task'[v].todo /\ s = task'[v].s /\ Busy(v)
    BY <1>3, <2>1 DEF Busy
  <2>3. Doing(t, s)
    BY <1>1, <2>1, <2>2
  <2>4. /\ Pushing(t, s)' <=> Pushing(t, s)
        /\ Preparing(t, s)' <=> Preparing(t, s)
        /\ Completing(t, s)' <=> Completing(t, s)
        /\ Aborting(t, s)' <=> Aborting(t, s)
    BY DEF Pushing, Preparing, Completing, Aborting, Filling, Full, Bare, Owned, ListRoutesForProxy
  <2>5. Doing(t, s)'
    BY <2>3, <2>4 DEF Doing
  <2> QED BY <2>2, <2>5
<1> QED BY <1>2, <1>3

(* The start of a request.                                                  *)
LEMMA Starts ==
    ASSUME Inv, Kept, NEW w \in Worker, NEW u, Segment(u), Begin(w, u), UNCHANGED hub, ~pushed' => ~pushed,
           ~overlap /\ ~pushed' => \A s : Doing(u, s)
    PROVE  Kept'
<1> SUFFICES ASSUME ~overlap', ~pushed', ~slipped'
             PROVE  InPlace' /\ \A v \in Worker : Busy(v)' => Doing(task[v].todo, task[v].s)'
  BY DEF Kept
<1>1. ~overlap /\ ~pushed /\ ~slipped /\ \A v \in Worker : ~Busy(v)
  BY DEF Begin
<1>2. UNCHANGED <<owner, row, phase>> /\ InPlace
  BY <1>1 DEF hub, Kept
<1>3. InPlace'
  BY <1>2 DEF InPlace, Full, Bare, Owned
<1>4. ASSUME NEW v \in Worker, Busy(v)'
      PROVE  Doing(task[v].todo, task[v].s)'
  <2>1. task' = [task EXCEPT ![w] = [Idle EXCEPT !.todo = u]] /\ task \in [Worker -> Task]
    BY DEF Begin, Inv, Typed
  <2>2. v = w
    BY <1>1, <1>4, <2>1 DEF Busy
  <2>3. task'[v].todo = u
    BY <2>1, <2>2 DEF Idle
  <2>4. PICK s : s = task'[v].s
    OBVIOUS
  <2>5. Doing(u, s)
    BY <1>1
  <2>6. /\ Pushing(u, s)' <=> Pushing(u, s)
        /\ Preparing(u, s)' <=> Preparing(u, s)
        /\ Completing(u, s)' <=> Completing(u, s)
        /\ Aborting(u, s)' <=> Aborting(u, s)
    BY <1>2 DEF Pushing, Preparing, Completing, Aborting, Filling, Full, Bare, Owned, ListRoutesForProxy
  <2>7. Doing(u, s)'
    BY <1>2, <2>5, <2>6 DEF Doing
  <2> QED BY <2>3, <2>4, <2>7
<1> QED BY <1>3, <1>4

(* A whole program is what is left of it at first.                          *)
LEMMA WholeIs ==
    ASSUME NEW u, NEW n \in Nat, Len(u) = n
    PROVE  Within(u, u, 1)
<1>1. \A k \in 1..n : 1 + k - 1 = k
  OBVIOUS
<1> QED BY <1>1 DEF Within

(* The start of an admin request.                                           *)
LEMMA RequestKeepsRoutes ==
    ASSUME Inv, Kept, NEW w \in Worker, (\E p \in Proxy : handleProxyPush(w, p)) \/ handleMigrationID(w)
    PROVE  Kept'
<1>1. Count \in Nat /\ \A p : \A s : Filling(p, 1, s)
  <2>1. Count \in Nat
    BY OrderIs
  <2> QED BY <2>1 DEF Filling
<1>2. CASE \E p \in Proxy : handleProxyPush(w, p)
  <2>1. PICK p \in Proxy : handleProxyPush(w, p)
    BY <1>2
  <2>2. /\ Begin(w, pushDesired(p, TRUE)) /\ UNCHANGED hub /\ pushed' = (pushed \/ phase \notin {"none", "completed"})
    BY <2>1 DEF handleProxyPush
  <2>3. Segment(pushDesired(p, TRUE))
    BY PushIs
  <2>4. ASSUME ~pushed', NEW s
        PROVE  Doing(pushDesired(p, TRUE), s)
    <3>1. Within(pushDesired(p, TRUE), pushDesired(p, TRUE), 1)
      <4>1. Len(pushDesired(p, TRUE)) = 3 /\ 3 \in Nat
        BY PushTable
      <4> QED BY <4>1, WholeIs
    <3>2. phase \in {"none", "completed"}
      BY <2>2, <2>4
    <3>3. Pushing(pushDesired(p, TRUE), s)
      <4>1. 1 \in 1..3 /\ 1 # 2
        OBVIOUS
      <4> QED BY <3>1, <4>1 DEF Pushing
    <3> QED BY <3>2, <3>3 DEF Doing
  <2>5. ~pushed' => ~pushed
    BY <2>2
  <2> QED BY <2>2, <2>3, <2>4, <2>5, Starts
<1>3. CASE handleMigrationID(w)
  <2>1. UNCHANGED hub /\ pushed' = pushed
    BY <1>3 DEF handleMigrationID
  <2>2. Segment(migrationPrep) /\ Segment(migrationComplete) /\ Segment(migrationAbort)
    BY MigrationIs
  <2>3. CASE phase \in {"created", "aborted"} /\ Begin(w, migrationPrep)
    <3>1. Len(migrationPrep) = 2 * Count + 11 /\ 2 * Count + 11 \in Nat /\ 1 \in 1..(2 * Count + 11) /\ 1 # 2 * Count + 9
      BY <1>1, PrepTable
    <3>2. Within(migrationPrep, migrationPrep, 1)
      BY <3>1, WholeIs
    <3>3. \A s : Preparing(migrationPrep, s)
      BY <1>1, <3>1, <3>2 DEF Preparing
    <3>4. \A s : Doing(migrationPrep, s)
      BY <2>3, <3>3 DEF Doing
    <3> QED BY <2>1, <2>2, <2>3, <3>4, Starts
  <2>4. CASE phase = "prepared" /\ Begin(w, migrationComplete)
    <3>1. /\ Len(migrationComplete) = Count + 7 /\ Count + 7 \in Nat /\ 1 \in 1..(Count + 7)
          /\ ~(1 > Count + 1) /\ 1 # Count + 5 /\ ~(1 > Count + 5)
      BY <1>1, EndTable
    <3>2. Within(migrationComplete, migrationComplete, 1)
      BY <3>1, WholeIs
    <3>3. \A s : Completing(migrationComplete, s)
      BY <1>1, <3>1, <3>2 DEF Completing
    <3>4. \A s : Doing(migrationComplete, s)
      BY <2>4, <3>3 DEF Doing
    <3> QED BY <2>1, <2>2, <2>4, <3>4, Starts
  <2>5. CASE phase \notin {"none", "completed"} /\ Begin(w, migrationAbort)
    <3>1. Len(migrationAbort) = Count + 7 /\ Count + 7 \in Nat /\ 1 \in 1..(Count + 7)
      BY <1>1, EndTable
    <3>2. Within(migrationAbort, migrationAbort, 1)
      BY <3>1, WholeIs
    <3>3. \A s : Aborting(migrationAbort, s)
      BY <1>1, <3>1, <3>2 DEF Aborting
    <3>4. \A s : Doing(migrationAbort, s)
      BY <2>5, <3>3 DEF Doing
    <3> QED BY <2>1, <2>2, <2>5, <3>4, Starts
  <2> QED BY <1>3, <2>3, <2>4, <2>5 DEF handleMigrationID
<1> QED BY <1>2, <1>3

(* A call that failed.                                                      *)
LEMMA FailureKeepsRoutes ==
    ASSUME Inv, Kept, NEW w \in Worker, Busy(w), Head(task[w].todo).do = "send", task' = Failed(w), UNCHANGED <<hub,
           overlap, pushed, slipped>>
    PROVE  Kept'
<1>1. CASE task' = [task EXCEPT ![w] = Idle]
  <2>1. task'[w].todo = <<>> /\ \A v \in Worker \ {w} : task'[v] = task[v]
    BY <1>1 DEF Inv, Typed, Idle
  <2>2. \A v \in Worker : Busy(v)' => task'[v].todo = task[v].todo /\ task'[v].s = task[v].s
    BY <2>1 DEF Busy
  <2> QED BY <2>2, Rests DEF hub
<1>2. CASE task' = Continue(w, task[w].s)
  <2>1. PICK y \in DesiredState : y = task[w].s
    BY DEF Inv, Typed, Task
  <2>2. Effect(Head(task[w].todo), task[w].s, y) /\ Head(task[w].todo).do \notin Ends
    BY <2>1 DEF Effect, hub, Ends
  <2> QED BY <1>2, <2>1, <2>2, GoesOn DEF hub
<1>3. AfterCall(task[w].todo) = Tail(task[w].todo)
  BY DEF AfterCall
<1> QED BY <1>1, <1>2, <1>3 DEF Failed, Continue

(* A step of an admin request.                                              *)
LEMMA RequestsKeepRoutes ==
    ASSUME Inv, Kept, NEW w \in Worker, Request(w)
    PROVE  Kept'
<1>1. task \in [Worker -> Task] /\ task[w].s \in DesiredState
  BY DEF Inv, Typed, Task
<1>2. CASE (\E p \in Proxy : handleProxyPush(w, p)) \/ handleMigrationID(w)
  BY <1>2, RequestKeepsRoutes
<1>3. CASE BuildDesiredState(w)
  <2>a. PICK cfg \in {defaults, 0} :
           task' = Continue(w, [rev |-> NextDesiredRevision(Dest(w)), cfg |-> cfg, routes |-> ListRoutesForProxy(Dest(w))])
    BY <1>3 DEF BuildDesiredState
  <2>1. PICK y : y = [rev |-> NextDesiredRevision(Dest(w)), cfg |-> cfg, routes |-> ListRoutesForProxy(Dest(w))]
    OBVIOUS
  <2>2. /\ Busy(w) /\ Head(task[w].todo).do = "build" /\ Dest(w) \in Proxy /\ At(w, "build")
        /\ task' = Continue(w, y) /\ UNCHANGED <<hub, overlap, pushed, slipped>>
    <3>1. At(w, "build") /\ task' = Continue(w, y) /\ UNCHANGED <<hub, overlap, pushed, slipped>>
      BY <1>3, <2>a, <2>1 DEF BuildDesiredState, history
    <3>2. "build" \in Works
      BY DEF Works
    <3> QED BY <3>1, <3>2, AtIs
  <2>3. y \in DesiredState
    <3>1. row[Dest(w)] \in DesiredState /\ cfg \in Nat
      BY <2>2 DEF Inv, Typed
    <3>2. NextDesiredRevision(Dest(w)) \in Nat /\ ListRoutesForProxy(Dest(w)) \in SUBSET Route
      BY <3>1 DEF NextDesiredRevision, ListRoutesForProxy, DesiredState
    <3> QED BY <2>1, <3>1, <3>2 DEF DesiredState
  <2>4. y.routes = ListRoutesForProxy(Dest(w))
    BY <2>1
  <2>5. Effect(Head(task[w].todo), task[w].s, y) /\ Head(task[w].todo).do \notin Ends
    BY <2>2, <2>4 DEF Effect, hub, Dest, Ends
  <2>6. phase' = phase /\ UNCHANGED <<overlap, pushed, slipped>>
    BY <2>2 DEF hub
  <2> QED BY <2>2, <2>3, <2>5, <2>6, GoesOn
<1>4. CASE AddExtra(w)
  <2>1. PICK y : y = [task[w].s EXCEPT !.routes = Route, !.rev = NextDesiredRevision(Dest(w))]
    OBVIOUS
  <2>2. /\ Busy(w) /\ Head(task[w].todo).do = "add" /\ Dest(w) \in Proxy
        /\ task' = Continue(w, y) /\ UNCHANGED <<hub, overlap, pushed, slipped>>
    <3>1. At(w, "add") /\ task' = Continue(w, y) /\ UNCHANGED <<hub, overlap, pushed, slipped>>
      BY <1>4, <2>1 DEF AddExtra, history
    <3>2. "add" \in Works
      BY DEF Works
    <3> QED BY <3>1, <3>2, AtIs
  <2>3. y \in DesiredState /\ y.routes = Route
    <3>1. row[Dest(w)] \in DesiredState
      BY <2>2 DEF Inv, Typed
    <3>2. NextDesiredRevision(Dest(w)) \in Nat
      BY <3>1 DEF NextDesiredRevision, DesiredState
    <3> QED BY <1>1, <2>1, <3>2 DEF DesiredState
  <2>4. Effect(Head(task[w].todo), task[w].s, y) /\ Head(task[w].todo).do \notin Ends
    BY <2>2, <2>3 DEF Effect, hub, Ends
  <2>5. phase' = phase /\ UNCHANGED <<overlap, pushed, slipped>>
    BY <2>2 DEF hub
  <2> QED BY <2>2, <2>3, <2>4, <2>5, GoesOn
<1>5. CASE SetDesiredState(w) \/ SetRouteProxy(w) \/ UpdateServiceMigration(w)
  <2>1. PICK y \in DesiredState : y = task[w].s
    BY <1>1
  <2>2. Busy(w) /\ task' = Continue(w, y) /\ UNCHANGED <<overlap, pushed, slipped>>
    BY <1>5, <2>1 DEF SetDesiredState, SetRouteProxy, UpdateServiceMigration, At, history
  <2>3. CASE SetDesiredState(w)
    <3>1. /\ Head(task[w].todo).do = "set" /\ row' = [row EXCEPT ![Dest(w)] = task[w].s] /\ UNCHANGED <<owner, phase>>
      BY <2>3 DEF SetDesiredState, At
    <3>2. Effect(Head(task[w].todo), task[w].s, y) /\ Head(task[w].todo).do \notin Ends
      BY <2>1, <3>1 DEF Effect, Dest, Ends
    <3> QED BY <2>2, <3>1, <3>2, GoesOn
  <2>4. CASE SetRouteProxy(w)
    <3>1. /\ Head(task[w].todo).do = "move" /\ owner' = [owner EXCEPT ![Head(task[w].todo).r] = Dest(w)]
          /\ UNCHANGED <<row, phase>>
      BY <2>4 DEF SetRouteProxy, At
    <3>2. Effect(Head(task[w].todo), task[w].s, y) /\ Head(task[w].todo).do \notin Ends
      BY <2>1, <3>1 DEF Effect, Dest, Ends
    <3> QED BY <2>2, <3>1, <3>2, GoesOn
  <2>5. CASE UpdateServiceMigration(w)
    <3>1. /\ Head(task[w].todo).do \in Ends /\ phase' = Head(task[w].todo).do /\ UNCHANGED <<row, owner>>
      BY <2>5 DEF UpdateServiceMigration, At, Ends
    <3>2. Effect(Head(task[w].todo), task[w].s, y)
      BY <2>1, <3>1 DEF Effect, Ends
    <3> QED BY <2>2, <3>1, <3>2, GoesOn
  <2> QED BY <1>5, <2>3, <2>4, <2>5
<1>6. CASE ApplyDesired(w)
  <2>1. Busy(w) /\ Head(task[w].todo).do = "send" /\ UNCHANGED <<hub, overlap, pushed, slipped>>
    BY <1>6 DEF ApplyDesired, At
  <2>2. CASE task' = [task EXCEPT ![w].waits = TRUE]
    <3>1. \A v \in Worker : task'[v].todo = task[v].todo /\ task'[v].s = task[v].s
      BY <1>1, <2>2 DEF Task
    <3> QED BY <2>1, <3>1, Rests DEF hub
  <2>3. CASE task' = Failed(w)
    BY <2>1, <2>3, FailureKeepsRoutes
  <2> QED BY <1>6, <2>2, <2>3 DEF ApplyDesired
<1>7. CASE CallFails(w)
  <2>1. task[w].waits /\ task' = Failed(w) /\ UNCHANGED <<hub, overlap, pushed, slipped>>
    BY <1>7 DEF CallFails, history
  <2>2. Busy(w) /\ Head(task[w].todo).do = "send"
    BY <2>1 DEF Inv, Calls
  <2> QED BY <2>1, <2>2, FailureKeepsRoutes
<1>8. CASE StoreFails(w)
  <2>1. /\ task' = Failed(w) /\ UNCHANGED <<hub, overlap, pushed>> /\ slipped' = (slipped \/ ~Head(task[w].todo).must)
    BY <1>8 DEF StoreFails
  <2>2. CASE ~Head(task[w].todo).must
    BY <2>1, <2>2 DEF Kept
  <2>3. CASE Head(task[w].todo).must
    <3>1. task' = [task EXCEPT ![w] = Idle] /\ slipped' = slipped
      BY <2>1, <2>3 DEF Failed, Inv, Typed
    <3>2. task'[w].todo = <<>> /\ \A v \in Worker \ {w} : task'[v] = task[v]
      BY <1>1, <3>1 DEF Idle
    <3>3. \A v \in Worker : Busy(v)' => task'[v].todo = task[v].todo /\ task'[v].s = task[v].s
      BY <3>2 DEF Busy
    <3> QED BY <2>1, <3>1, <3>3, Rests DEF hub
  <2> QED BY <2>2, <2>3
<1> QED BY <1>2, <1>3, <1>4, <1>5, <1>6, <1>7, <1>8 DEF Request

(* A step of a session or of an agent.                                      *)
LEMMA AgentsKeepRoutes ==
    ASSUME Inv, Kept, NEW p \in Proxy, Agent(p)
    PROVE  Kept'
<1>1. UNCHANGED <<hub, overlap, pushed, slipped>>
  BY DEF Agent, connectOnce, OnReady, OnReadyCall, Heartbeat, LinkDown, AgentCrash, handleRequest, SaveDesiredState,
         applyDesired, history, vars
<1>2. CASE UNCHANGED task
  BY <1>1, <1>2, Rests DEF hub
<1>3. CASE \E j \in jobs[p] : applyDesired(p, j)
  <2>1. PICK j \in jobs[p] : applyDesired(p, j)
    BY <1>3
  <2>2. CASE j.by = None
    BY <1>2, <2>1, <2>2 DEF applyDesired, deliver
  <2>3. CASE j.by # None
    <3>1. PICK w \in Worker : w = j.by
      BY <2>3 DEF Inv, Typed, Job
    <3>2. /\ Busy(w) /\ Head(task[w].todo).do = "send"
          /\ task' = Continue(w, task[w].s) \/ task' = Failed(w)
      BY <2>1, <2>3, <3>1 DEF Inv, Calls, applyDesired, deliver
    <3>a. CASE task' = Failed(w)
      BY <1>1, <3>2, <3>a, FailureKeepsRoutes
    <3>b. CASE task' = Continue(w, task[w].s)
      <4>1. PICK y \in DesiredState : y = task[w].s
        BY DEF Inv, Typed, Task
      <4>2. Effect(Head(task[w].todo), task[w].s, y) /\ Head(task[w].todo).do \notin Ends
        BY <1>1, <3>2, <4>1 DEF Effect, hub, Ends
      <4> QED BY <1>1, <3>2, <3>b, <4>1, <4>2, GoesOn DEF hub
    <3> QED BY <3>2, <3>a, <3>b
  <2> QED BY <2>2, <2>3
<1> QED BY <1>2, <1>3 DEF Agent, connectOnce, OnReady, OnReadyCall, Heartbeat, LinkDown, AgentCrash, handleRequest,
                          SaveDesiredState, vars

(* Every step keeps the routes in place.                                    *)
LEMMA NextKeepsRoutes == ASSUME Inv, Kept, [Next]_vars PROVE Kept'
<1>1. CASE UNCHANGED vars
  BY <1>1, Rests DEF vars, hub, history
<1>2. CASE SetFleetDefaults
  BY <1>2, Rests DEF SetFleetDefaults, history
<1>3. CASE HubCrash
  <2>1. \A v \in Worker : ~Busy(v)'
    BY <1>3 DEF HubCrash, Busy, Idle
  <2> QED BY <1>3, <2>1, Rests DEF HubCrash, hub, history
<1>4. CASE handleMigrations
  <2>1. /\ \A v \in Worker : ~Busy(v) /\ ~Busy(v)'
        /\ phase = "none" /\ phase' = "created" /\ UNCHANGED <<owner, row, overlap, pushed, slipped>>
    BY <1>4 DEF handleMigrations, CreateServiceMigration, Alone, Busy, history
  <2>2. InPlace => InPlace'
    BY <2>1 DEF InPlace, Full, Bare, Owned
  <2> QED BY <2>1, <2>2 DEF Kept
<1> QED BY <1>1, <1>2, <1>3, <1>4, RequestsKeepRoutes, AgentsKeepRoutes DEF Next

(* At first all routes are with the source.                                 *)
LEMMA InitKept == Init => Kept
<1> SUFFICES ASSUME Init PROVE Kept
  OBVIOUS
<1>1. row[From] = First /\ First.routes = Route
  BY FleetAssumption DEF Init, First
<1>2. \A w \in Worker : ~Busy(w)
  BY DEF Init, Busy, Idle
<1>3. Owned(From) /\ Full(From) /\ phase = "none"
  BY <1>1 DEF Init, Owned, Full
<1> QED BY <1>2, <1>3 DEF Kept, InPlace

(* Whatever step a migration stops at, and whatever statement or call it stops
   on, every route is in the state of some proxy, and after a completed one in
   that of the destination alone; unless it ignored an error of the store.  *)
THEOREM RoutesStay == Spec => []RouteKept
<1>1. Inv /\ Kept /\ [Next]_vars => Kept'
  BY NextKeepsRoutes
<1>2. Spec => []Kept
  BY InitKept, Invariance, <1>1, PTL DEF Spec
<1>3. Kept => RouteKept
  <2>1. From \in Proxy /\ To \in Proxy
    BY FleetAssumption
  <2> QED BY <2>1 DEF Kept, InPlace, Full, Bare, Owned, RouteKept
<1> QED BY <1>2, <1>3, PTL
=============================================================================
