------------------------ MODULE ActivityTasks_proofs ------------------------
(***************************************************************************)
(* Theorems about ActivityTasks, for any activities, modes, flags and      *)
(* bounds.                                                                 *)
(***************************************************************************)
EXTENDS ActivityTasks, WellFoundedInduction, TLAPS

-----------------------------------------------------------------------------
(* Numbers and sequences                                                   *)

\* The order of the naturals, as a set of pairs.
Less == {ss \in Nat \X Nat : ss[1] < ss[2]}

\* A set of naturals has a least member.
LEMMA LeastExists ==
    ASSUME NEW T, T \subseteq Nat, T # {}
    PROVE  \E x \in T : \A y \in T : x <= y
<1>1. IsWellFoundedOn(Less, Nat)
  BY NatLessThanWellFounded DEF OpToRel, Less
<1>2. PICK x \in T : \A y \in T : <<y, x>> \notin Less
  BY <1>1, WFMin
<1>3. ASSUME NEW y \in T PROVE x <= y
  <2>1. ~(y < x)
    BY <1>2 DEF Less
  <2> QED BY <2>1
<1> QED BY <1>3

\* Induction over the naturals, with a set for the predicate.
LEMMA NatInductiveSet ==
    ASSUME NEW T, 0 \in T, \A n \in Nat : n \in T => n + 1 \in T
    PROVE  Nat \subseteq T
<1> DEFINE Bad == Nat \ T
<1> SUFFICES ASSUME Bad # {} PROVE FALSE
  OBVIOUS
<1>1. PICK x \in Bad : \A y \in Bad : x <= y
  <2>1. Bad \subseteq Nat
    OBVIOUS
  <2> HIDE DEF Bad
  <2> QED BY <2>1, LeastExists
<1>2. x \in Nat /\ x \notin T /\ x # 0
  OBVIOUS
<1>3. x - 1 \in Nat /\ ~(x <= x - 1) /\ (x - 1) + 1 = x
  BY <1>2
<1>4. x - 1 \in T
  BY <1>1, <1>3
<1> QED BY <1>2, <1>3, <1>4

\* A bounded set of naturals has a greatest member.
LEMMA GreatestExists ==
    ASSUME NEW T, NEW b \in Nat, T \subseteq 0..b, T # {}
    PROVE  \E x \in T : \A y \in T : x >= y
<1> DEFINE Gaps == {b - y : y \in T}
<1>1. Gaps \subseteq Nat /\ Gaps # {}
  <2>1. ASSUME NEW y \in T PROVE b - y \in Nat
    <3>1. y \in 0..b
      OBVIOUS
    <3> QED BY <3>1
  <2> QED BY <2>1
<1>2. PICK g \in Gaps : \A h \in Gaps : g <= h
  <2> HIDE DEF Gaps
  <2> QED BY <1>1, LeastExists
<1>3. PICK x \in T : g = b - x
  OBVIOUS
<1>4. ASSUME NEW y \in T PROVE x >= y
  <2>1. b - x <= b - y
    BY <1>2, <1>3
  <2> QED BY <2>1, <1>3
<1> QED BY <1>3, <1>4

\* One more member of s, unless it is in the set.
Step(w, s, as, n) == IF s[n] \in as THEN w ELSE Append(w, s[n])

\* The values of f come about step by step.
Steplike(f, s, as, n) == f[0] = <<>> /\ \A i \in 1..n : f[i] = Step(f[i - 1], s, as, i)

\* There is a function as Without declares it.
LEMMA StepsExist ==
    ASSUME NEW S, NEW s \in Seq(S), NEW as
    PROVE  \E f : Steplike(f, s, as, Len(s)) /\ f = [n \in 0..Len(s) |-> f[n]]
<1> DEFINE T == {n \in Nat : \E f : Steplike(f, s, as, n) /\ f = [i \in 0..n |-> f[i]]}
<1>1. 0 \in T
  <2> DEFINE f == [i \in 0..0 |-> <<>>]
  <2>1. Steplike(f, s, as, 0) /\ f = [i \in 0..0 |-> f[i]]
    BY DEF Steplike
  <2> HIDE DEF f
  <2> QED BY <2>1
<1>2. ASSUME NEW n \in Nat, n \in T PROVE n + 1 \in T
  <2>1. PICK f : Steplike(f, s, as, n) /\ f = [i \in 0..n |-> f[i]]
    BY <1>2
  <2> DEFINE g == [i \in 0..(n + 1) |-> IF i = n + 1 THEN Step(f[n], s, as, n + 1) ELSE f[i]]
  <2>2. g = [i \in 0..(n + 1) |-> g[i]]
    OBVIOUS
  <2>3. g[0] = <<>>
    <3>1. f[0] = <<>>
      BY <2>1 DEF Steplike
    <3>2. 0 \in 0..(n + 1) /\ 0 # n + 1
      OBVIOUS
    <3> QED BY <3>1, <3>2
  <2>4. ASSUME NEW i \in 1..(n + 1) PROVE g[i] = Step(g[i - 1], s, as, i)
    <3>1. CASE i = n + 1
      BY <3>1
    <3>2. CASE i # n + 1
      BY <2>1, <3>2, SMTT(30) DEF Steplike
    <3> QED BY <3>1, <3>2
  <2> HIDE DEF g
  <2>5. Steplike(g, s, as, n + 1)
    BY <2>3, <2>4 DEF Steplike
  <2> QED BY <2>2, <2>5
<1>3. Nat \subseteq T
  <2> HIDE DEF T
  <2> QED BY <1>1, <1>2, NatInductiveSet
<1>4. Len(s) \in T
  <2> HIDE DEF T
  <2> QED BY <1>3
<1> QED BY <1>4

\* It is the one that Without takes.
LEMMA WithoutUnfolds ==
    ASSUME NEW S, NEW s \in Seq(S), NEW as
    PROVE  \E f : Without(s, as) = f[Len(s)] /\ Steplike(f, s, as, Len(s))
<1> DEFINE left[n \in 0..Len(s)] ==
             IF n = 0 THEN <<>> ELSE IF s[n] \in as THEN left[n - 1] ELSE Append(left[n - 1], s[n])
<1>1. Without(s, as) = left[Len(s)]
  BY DEF Without
<1>2. PICK f : Steplike(f, s, as, Len(s)) /\ f = [n \in 0..Len(s) |-> f[n]]
  BY StepsExist
<1>0. Len(s) \in Nat
  OBVIOUS
<1>3. ASSUME NEW n \in 0..Len(s)
      PROVE  f[n] = IF n = 0 THEN <<>> ELSE IF s[n] \in as THEN f[n - 1] ELSE Append(f[n - 1], s[n])
  <2>1. n # 0 => n \in 1..Len(s)
    BY <1>0
  <2> QED BY <1>2, <2>1 DEF Steplike, Step
<1>4. f = [n \in 0..Len(s) |->
             IF n = 0 THEN <<>> ELSE IF s[n] \in as THEN f[n - 1] ELSE Append(f[n - 1], s[n])]
  BY <1>2, <1>3
<1>5. left = [n \in 0..Len(s) |->
                IF n = 0 THEN <<>> ELSE IF s[n] \in as THEN left[n - 1] ELSE Append(left[n - 1], s[n])]
  BY <1>4, Zenon
<1> HIDE DEF left
<1>6. ASSUME NEW n \in 0..Len(s)
      PROVE  left[n] = IF n = 0 THEN <<>>
                       ELSE IF s[n] \in as THEN left[n - 1] ELSE Append(left[n - 1], s[n])
  BY <1>5, Zenon
<1>7. left[0] = <<>>
  <2>1. 0 \in 0..Len(s)
    BY <1>0
  <2> QED BY <1>6, <2>1
<1>8. ASSUME NEW n \in 1..Len(s) PROVE left[n] = Step(left[n - 1], s, as, n)
  <2>1. n \in 0..Len(s) /\ n # 0
    OBVIOUS
  <2> QED BY <1>6, <2>1 DEF Step
<1>9. Steplike(left, s, as, Len(s))
  BY <1>7, <1>8 DEF Steplike
<1> QED BY <1>1, <1>9

\* w is what is left of the first n members of s.
LeftOf(w, s, as, n) ==
    /\ \A i \in DOMAIN w : \E k \in 1..n : w[i] = s[k] /\ s[k] \notin as
    /\ \A k \in 1..n : s[k] \notin as => \E i \in DOMAIN w : w[i] = s[k]
    /\ \A i, j \in DOMAIN w : i < j => \E k, l \in 1..n : k < l /\ w[i] = s[k] /\ w[j] = s[l]

\* What is left of n members, and one step more.
LEMMA StepLeaves ==
    ASSUME NEW S, NEW s \in Seq(S), NEW as, NEW n \in Nat, n + 1 <= Len(s),
           NEW w \in Seq(S), LeftOf(w, s, as, n)
    PROVE  Step(w, s, as, n + 1) \in Seq(S) /\ LeftOf(Step(w, s, as, n + 1), s, as, n + 1)
<1> DEFINE v == Step(w, s, as, n + 1)
<1>0. n + 1 \in 1..Len(s) /\ s[n + 1] \in S /\ 1..n \subseteq 1..(n + 1) /\ n + 1 \in 1..(n + 1)
  <2>1. Len(s) \in Nat
    OBVIOUS
  <2> QED BY <2>1
<1>1. CASE s[n + 1] \in as
  <2>1. v = w
    BY <1>1 DEF Step
  <2>2. ASSUME NEW k \in 1..(n + 1), s[k] \notin as PROVE k \in 1..n
    <3>1. k # n + 1
      BY <1>1, <2>2
    <3> QED BY <3>1
  <2>3. \A i \in DOMAIN w : \E k \in 1..(n + 1) : w[i] = s[k] /\ s[k] \notin as
    BY <1>0 DEF LeftOf
  <2>4. \A k \in 1..(n + 1) : s[k] \notin as => \E i \in DOMAIN w : w[i] = s[k]
    BY <2>2 DEF LeftOf
  <2>5. \A i, j \in DOMAIN w : i < j =>
            \E k, l \in 1..(n + 1) : k < l /\ w[i] = s[k] /\ w[j] = s[l]
    BY <1>0 DEF LeftOf
  <2>6. LeftOf(w, s, as, n + 1)
    BY <2>3, <2>4, <2>5 DEF LeftOf
  <2> QED BY <2>1, <2>6
<1>2. CASE s[n + 1] \notin as
  <2>1. v = Append(w, s[n + 1]) /\ v \in Seq(S)
    BY <1>0, <1>2 DEF Step
  <2> HIDE DEF v
  <2>2. DOMAIN v = 1..(Len(w) + 1) /\ DOMAIN w = 1..Len(w) /\ Len(w) \in Nat
    BY <2>1
  <2>3. v[Len(w) + 1] = s[n + 1] /\ \A i \in 1..Len(w) : v[i] = w[i]
    BY <1>0, <2>1
  <2>4. ASSUME NEW i \in DOMAIN v PROVE \E k \in 1..(n + 1) : v[i] = s[k] /\ s[k] \notin as
    <3>1. CASE i = Len(w) + 1
      BY <1>0, <1>2, <2>3, <3>1
    <3>2. CASE i # Len(w) + 1
      <4>1. i \in DOMAIN w /\ v[i] = w[i]
        BY <2>2, <2>3, <3>2
      <4>2. PICK k \in 1..n : w[i] = s[k] /\ s[k] \notin as
        BY <4>1 DEF LeftOf
      <4> QED BY <1>0, <4>1, <4>2
    <3> QED BY <3>1, <3>2
  <2>5. ASSUME NEW k \in 1..(n + 1), s[k] \notin as PROVE \E i \in DOMAIN v : v[i] = s[k]
    <3>1. CASE k = n + 1
      BY <2>2, <2>3, <3>1
    <3>2. CASE k # n + 1
      <4>1. k \in 1..n
        BY <3>2
      <4>2. PICK i \in DOMAIN w : w[i] = s[k]
        BY <2>5, <4>1 DEF LeftOf
      <4> QED BY <2>2, <2>3, <4>2
    <3> QED BY <3>1, <3>2
  <2>6. ASSUME NEW i \in DOMAIN v, NEW j \in DOMAIN v, i < j
        PROVE  \E k, l \in 1..(n + 1) : k < l /\ v[i] = s[k] /\ v[j] = s[l]
    <3>1. CASE j = Len(w) + 1
      <4>1. i \in DOMAIN w /\ v[i] = w[i]
        BY <2>2, <2>3, <2>6, <3>1
      <4>2. PICK k \in 1..n : w[i] = s[k]
        BY <4>1 DEF LeftOf
      <4>3. k \in 1..(n + 1) /\ k < n + 1 /\ v[i] = s[k] /\ v[j] = s[n + 1]
        BY <1>0, <2>3, <3>1, <4>1, <4>2
      <4> QED BY <1>0, <4>3
    <3>2. CASE j # Len(w) + 1
      <4>1. i \in DOMAIN w /\ v[i] = w[i] /\ j \in DOMAIN w /\ v[j] = w[j]
        BY <2>2, <2>3, <2>6, <3>2
      <4>2. PICK k \in 1..n, l \in 1..n : k < l /\ w[i] = s[k] /\ w[j] = s[l]
        BY <2>6, <4>1 DEF LeftOf
      <4> QED BY <1>0, <4>1, <4>2
    <3> QED BY <3>1, <3>2
  <2>7. LeftOf(v, s, as, n + 1)
    BY <2>4, <2>5, <2>6 DEF LeftOf
  <2> QED BY <2>1, <2>7 DEF v
<1> QED BY <1>1, <1>2

\* Without leaves the members that are not in the set, in their order.
LEMMA WithoutLeaves ==
    ASSUME NEW S, NEW s \in Seq(S), NEW as
    PROVE  Without(s, as) \in Seq(S) /\ LeftOf(Without(s, as), s, as, Len(s))
<1>0. Len(s) \in Nat
  OBVIOUS
<1>1. PICK f : Without(s, as) = f[Len(s)] /\ Steplike(f, s, as, Len(s))
  BY WithoutUnfolds
<1> DEFINE Q(n) == f[n] \in Seq(S) /\ LeftOf(f[n], s, as, n)
           T == {n \in Nat : n <= Len(s) => Q(n)}
<1>2. Q(0)
  <2>1. f[0] = <<>>
    BY <1>1 DEF Steplike
  <2>2. <<>> \in Seq(S) /\ LeftOf(<<>>, s, as, 0)
    BY DEF LeftOf
  <2> QED BY <2>1, <2>2
<1>3. ASSUME NEW n \in Nat, n + 1 <= Len(s), Q(n) PROVE Q(n + 1)
  <2>1. n + 1 \in 1..Len(s) /\ (n + 1) - 1 = n
    BY <1>0, <1>3
  <2>2. f[n] \in Seq(S) /\ LeftOf(f[n], s, as, n)
    BY <1>3, Zenon
  <2>3. f[n + 1] = Step(f[n], s, as, n + 1)
    BY <1>1, <2>1 DEF Steplike
  <2>4. Step(f[n], s, as, n + 1) \in Seq(S) /\ LeftOf(Step(f[n], s, as, n + 1), s, as, n + 1)
    BY <1>3, <2>2, StepLeaves
  <2> QED BY <2>3, <2>4
<1> HIDE DEF Q
<1>4. 0 \in T
  BY <1>2
<1>5. ASSUME NEW n \in Nat, n \in T PROVE n + 1 \in T
  <2> SUFFICES ASSUME n + 1 <= Len(s) PROVE Q(n + 1)
    OBVIOUS
  <2>1. n <= Len(s)
    BY <1>0
  <2> QED BY <1>3, <1>5, <2>1
<1>6. Len(s) \in T
  <2>1. Nat \subseteq T
    <3> HIDE DEF T
    <3> QED BY <1>4, <1>5, NatInductiveSet
  <2> HIDE DEF T
  <2> QED BY <1>0, <2>1
<1>7. Q(Len(s))
  <2>1. Len(s) <= Len(s)
    BY <1>0
  <2> QED BY <1>6, <2>1
<1> QED BY <1>1, <1>7 DEF Q

-----------------------------------------------------------------------------
(* The inductive invariant                                                 *)

\* The records without their components and marks: an activity, its process and
\* the task it is in. A call of onActivityCreated has the same form.
Filed ==
    {f \in Creation : f.task \in DOMAIN mHistory /\
        \E i \in DOMAIN mHistory[f.task].activities :
            LET r == mHistory[f.task].activities[i] IN r.token = f.token /\ r.pid = f.pid}

\* Activities that may have more than one record, or one and no end.
Odd == owed.silent \union owed.again

\* The types of all variables, and the bounds on their counters.
OwedType == [silent : SUBSET Token, again : SUBSET Token, belated : SUBSET Token,
             unseen : SUBSET Token, spared : SUBSET Token]
TypeInv ==
    /\ mHistory \in [DOMAIN mHistory -> TaskRecord]
    /\ pc \in {"idle", "newTask", "inTask"}
    /\ job \in [comp : Comp, task : Task \union {NoTask}, last : Token \union {0}]
    /\ posted \subseteq [token : Token, pid : Pid]
    /\ comp \in Seq(Comp) /\ stack \in Seq(Seq(Token)) /\ recents \subseteq DOMAIN stack
    /\ spent \in [starts : 0..MaxStarts, troubles : 0..MaxTroubles]
    /\ pid \in Nat \ {0} /\ pid <= spent.troubles + 1
    /\ Len(stack) <= Len(comp)
    /\ Len(comp) + (IF pc = "idle" THEN 0 ELSE 1) <= spent.starts
    /\ launch \subseteq DOMAIN comp /\ known \subseteq DOMAIN comp /\ up \subseteq known
    /\ reports \subseteq DOMAIN comp
    /\ creating \subseteq Creation /\ notices \subseteq 1..(pid - 1)
    /\ owed \in OwedType

\* What is named in records and calls is there, and no process is of the future.
NamedInv ==
    /\ DOMAIN mHistory \subseteq DOMAIN stack \union {NoTask}
    /\ \A t \in DOMAIN mHistory : \A i \in DOMAIN mHistory[t].activities :
          LET r == mHistory[t].activities[i] IN
          r.token \in DOMAIN comp /\ r.component = comp[r.token] /\ r.pid <= pid
    /\ \A x \in creating : x.token \in DOMAIN comp /\ x.pid <= pid /\ x.task \in DOMAIN stack \union {NoTask}
    /\ \A x \in posted : x.token \in DOMAIN comp /\ x.pid <= pid
    /\ owed.silent \subseteq DOMAIN comp

\* Android has an activity in one task, whose entry in recents stays as long.
StackInv ==
    /\ \A t, u \in DOMAIN stack : t # u => Range(stack[t]) \intersect Range(stack[u]) = {}
    /\ \A t \in DOMAIN stack : stack[t] # <<>> => t \in recents
    /\ Live \subseteq DOMAIN comp
    /\ up \subseteq Live
    /\ \A a \in reports \union owed.silent : a \notin Live

\* An activity is filed in the task that it has, also when it has ended.
HomeInv ==
    /\ \A f \in Filed \union creating : f.token \in Live => f.task = TaskOf(f.token)
    /\ \A f, g \in Filed \union creating : f.token = g.token => f.task = g.task \/ f.token \in owed.silent

\* The process of a record runs, or its notice is to come.
NoticeInv == \A f \in Filed : f.pid = pid \/ f.pid \in notices \/ f.token \in owed.belated

\* An activity is launched once at a time.
OnceInv ==
    /\ \A x, y \in creating : x.token = y.token => x = y
    /\ \A x \in creating : x.token \notin launch

\* What is filed for the process that runs is known to it; what is about to be
\* filed is not filed yet for the same process.
KnownInv ==
    /\ \A f \in Filed \union creating \union posted : f.pid = pid /\ f.token \in Live => f.token \in known
    /\ \A x \in creating : x.token \in Odd \/
          /\ \A f \in Filed \union posted : f.token = x.token => f.pid < x.pid
          /\ x.pid = pid => x.token \notin up

\* What the process that runs is about to file lives, or is not to be seen.
CreatingInv ==
    \A x \in creating : x.pid = pid => x.token \in Live \union Odd \/ x.task \notin recents

\* Several records of an activity are in the order of its processes.
OrderInv ==
    \A t \in DOMAIN mHistory : \A i, j \in DOMAIN mHistory[t].activities :
        LET as == mHistory[t].activities IN
        i < j /\ as[i].token = as[j].token => as[i].token \in Odd \/ as[i].pid < as[j].pid

\* An activity that runs has its record.
ListedInv == \A a \in up : [token |-> a, pid |-> pid, task |-> TaskOf(a)] \in Filed

\* A record has a reason.
BackedInv ==
    \A f \in Filed : f.task \in recents =>
        \/ f.token \in Live \union reports \/ f.pid \in notices
        \/ f.token \in Odd \union owed.belated

\* An activity that lives and is marked will be finished, or was to be by a
\* process that had died.
MarkInv ==
    \A t \in DOMAIN mHistory \intersect recents : \A i \in DOMAIN mHistory[t].activities :
        LET r == mHistory[t].activities[i] IN
        r.marked /\ r.token \in Live =>
            /\ r.pid = pid => [token |-> r.token, pid |-> r.pid] \in posted
            /\ r.token \in owed.spared \union {x.token : x \in posted}

\* An activity that a start of a single one could not find, or has marked.
Excused == owed.unseen \union owed.spared \union {x.token : x \in posted}

\* While a single activity is about to be started all others of it are such.
JobInv == pc # "idle" /\ Single(job.comp) => \A a \in Live : comp[a] = job.comp => a \in Excused
SingleInv ==
    \A a, b \in Live : a < b /\ comp[a] = comp[b] /\ Single(comp[a]) => a \in Excused

IInv ==
    /\ TypeInv /\ NamedInv /\ StackInv /\ HomeInv /\ NoticeInv /\ OnceInv /\ KnownInv
    /\ CreatingInv /\ OrderInv /\ ListedInv /\ BackedInv /\ MarkInv /\ JobInv /\ SingleInv

-----------------------------------------------------------------------------
(* The tasks of Android                                                    *)

\* An activity is in the task that TaskOf says.
LEMMA TaskOfIs ==
    ASSUME TypeInv, StackInv
    PROVE  /\ \A a \in Live : TaskOf(a) \in DOMAIN stack /\ a \in Range(stack[TaskOf(a)])
           /\ \A t \in DOMAIN stack : \A a \in Range(stack[t]) : a \in Live /\ TaskOf(a) = t
           /\ \A a \in Live : TaskOf(a) \in recents
           /\ \A a : a \notin Live => TaskOf(a) = NoTask
<1>1. ASSUME NEW a \in Live PROVE TaskOf(a) \in DOMAIN stack /\ a \in Range(stack[TaskOf(a)])
  <2>1. \E t \in DOMAIN stack : a \in Range(stack[t])
    BY DEF Live
  <2>2. TaskOf(a) = CHOOSE t \in DOMAIN stack : a \in Range(stack[t])
    BY DEF TaskOf
  <2> QED BY <2>1, <2>2
<1>2. ASSUME NEW t \in DOMAIN stack, NEW a \in Range(stack[t]) PROVE a \in Live /\ TaskOf(a) = t
  <2>1. a \in Live
    BY DEF Live
  <2>2. TaskOf(a) \in DOMAIN stack /\ a \in Range(stack[TaskOf(a)])
    BY <1>1, <2>1
  <2> QED BY <2>1, <2>2 DEF StackInv
<1>3. ASSUME NEW a \in Live PROVE TaskOf(a) \in recents
  <2>1. TaskOf(a) \in DOMAIN stack /\ a \in Range(stack[TaskOf(a)])
    BY <1>1
  <2>2. stack[TaskOf(a)] # <<>>
    BY <2>1 DEF Range
  <2> QED BY <2>1, <2>2 DEF StackInv
<1>4. \A a : a \notin Live => TaskOf(a) = NoTask
  BY DEF TaskOf
<1> QED BY <1>1, <1>2, <1>3, <1>4

\* A task without some of its activities.
LEMMA WithoutRange ==
    ASSUME NEW S, NEW s \in Seq(S), NEW as
    PROVE  Without(s, as) \in Seq(S) /\ Range(Without(s, as)) = Range(s) \ as
<1>1. Without(s, as) \in Seq(S) /\ LeftOf(Without(s, as), s, as, Len(s))
  BY WithoutLeaves
<1>2. DOMAIN s = 1..Len(s)
  OBVIOUS
<1> DEFINE w == Without(s, as)
<1> HIDE DEF w
<1>3. ASSUME NEW x \in Range(w) PROVE x \in Range(s) \ as
  <2>1. PICK i \in DOMAIN w : x = w[i]
    BY DEF Range
  <2>2. PICK k \in 1..Len(s) : w[i] = s[k] /\ s[k] \notin as
    BY <1>1, <2>1 DEF LeftOf, w
  <2> QED BY <1>2, <2>1, <2>2 DEF Range
<1>4. ASSUME NEW x \in Range(s) \ as PROVE x \in Range(w)
  <2>1. PICK k \in 1..Len(s) : x = s[k]
    BY <1>2 DEF Range
  <2>2. PICK i \in DOMAIN w : w[i] = s[k]
    BY <1>1, <2>1 DEF LeftOf, w
  <2> QED BY <2>1, <2>2 DEF Range
<1> QED BY <1>1, <1>3, <1>4 DEF w

\* A function on 1..n is a sequence.
LEMMA FunctionIsSeq ==
    ASSUME NEW S, NEW n \in Nat, NEW s \in [1..n -> S]
    PROVE  s \in Seq(S) /\ Len(s) = n /\ DOMAIN s = 1..n
<1>1. s \in Seq(S)
  OBVIOUS
<1> QED BY <1>1

\* A sequence that is not empty has a last member.
LEMMA RangeNotEmpty ==
    ASSUME NEW S, NEW s \in Seq(S), s # <<>>
    PROVE  Range(s) # {} /\ Last(s) \in Range(s) /\ Len(s) \in DOMAIN s /\ Last(s) \in S
<1>1. Len(s) \in 1..Len(s) /\ DOMAIN s = 1..Len(s)
  OBVIOUS
<1>2. Last(s) = s[Len(s)]
  BY DEF Last
<1> QED BY <1>1, <1>2 DEF Range

\* Finishing activities: the others stay where they are.
LEMMA Finished ==
    ASSUME TypeInv, StackInv, NEW as, stack' = [t \in DOMAIN stack |-> Without(stack[t], as)]
    PROVE  /\ stack' \in Seq(Seq(Token)) /\ DOMAIN stack' = DOMAIN stack /\ Len(stack') = Len(stack)
           /\ \A t \in DOMAIN stack : Range(stack'[t]) = Range(stack[t]) \ as
           /\ \A t, u \in DOMAIN stack : t # u => Range(stack'[t]) \intersect Range(stack'[u]) = {}
           /\ \A t \in DOMAIN stack : stack'[t] # <<>> => stack[t] # <<>> /\ Range(stack[t]) \ as # {}
           /\ Live' = Live \ as
           /\ \A a \in Live' : TaskOf(a)' = TaskOf(a)
<1>0. Len(stack) \in Nat /\ DOMAIN stack = 1..Len(stack)
  BY DEF TypeInv
<1>1. ASSUME NEW t \in DOMAIN stack
      PROVE  stack[t] \in Seq(Token) /\ stack'[t] \in Seq(Token) /\ Range(stack'[t]) = Range(stack[t]) \ as
  <2>1. stack[t] \in Seq(Token)
    BY DEF TypeInv
  <2> QED BY <2>1, WithoutRange
<1>2. stack' \in Seq(Seq(Token)) /\ DOMAIN stack' = DOMAIN stack /\ Len(stack') = Len(stack)
  <2>1. stack' \in [1..Len(stack) -> Seq(Token)]
    BY <1>0, <1>1
  <2> QED BY <1>0, <2>1, FunctionIsSeq
<1>3. \A t, u \in DOMAIN stack : t # u => Range(stack'[t]) \intersect Range(stack'[u]) = {}
  BY <1>1 DEF StackInv
<1>4. ASSUME NEW t \in DOMAIN stack, stack'[t] # <<>>
      PROVE  stack[t] # <<>> /\ Range(stack[t]) \ as # {}
  <2>1. Range(stack'[t]) # {}
    BY <1>1, <1>4, RangeNotEmpty
  <2>2. Range(stack[t]) # {}
    BY <1>1, <2>1
  <2>3. stack[t] # <<>>
    BY <2>2 DEF Range
  <2> QED BY <1>1, <2>1, <2>3
<1>5. Live' = Live \ as
  <2>1. ASSUME NEW a PROVE a \in Live' <=> \E t \in DOMAIN stack : a \in Range(stack'[t])
    BY <1>2 DEF Live
  <2>2. ASSUME NEW a PROVE a \in Live <=> \E t \in DOMAIN stack : a \in Range(stack[t])
    BY DEF Live
  <2>3. ASSUME NEW a PROVE a \in Live' <=> a \in Live \ as
    <3>1. (\E t \in DOMAIN stack : a \in Range(stack'[t])) <=>
              a \notin as /\ \E t \in DOMAIN stack : a \in Range(stack[t])
      BY <1>1
    <3>2. a \in Live' <=> \E t \in DOMAIN stack : a \in Range(stack'[t])
      BY <2>1
    <3>3. a \in Live <=> \E t \in DOMAIN stack : a \in Range(stack[t])
      BY <2>2
    <3> QED BY <3>1, <3>2, <3>3
  <2> HIDE DEF Live
  <2> QED BY <2>3
<1>6. ASSUME NEW a \in Live' PROVE TaskOf(a)' = TaskOf(a)
  <2>1. a \in Live /\ a \notin as
    BY <1>5
  <2>2. TaskOf(a) \in DOMAIN stack /\ a \in Range(stack'[TaskOf(a)])
    BY <1>1, <2>1, TaskOfIs
  <2>3. \A t \in DOMAIN stack' : a \in Range(stack'[t]) => t = TaskOf(a)
    BY <1>2, <1>3, <2>2
  <2>4. TaskOf(a)' = CHOOSE t \in DOMAIN stack' : a \in Range(stack'[t])
    BY DEF TaskOf
  <2> QED BY <1>2, <2>2, <2>3, <2>4
<1> QED BY <1>1, <1>2, <1>3, <1>4, <1>5, <1>6

\* A new activity is in one task, and the others stay where they are.
LEMMA OneMore ==
    ASSUME TypeInv, StackInv, NEW b, b \notin Live, NEW n \in DOMAIN stack',
           DOMAIN stack \subseteq DOMAIN stack',
           \A t \in DOMAIN stack' : t # n => t \in DOMAIN stack /\ stack'[t] = stack[t],
           n \in DOMAIN stack => Range(stack'[n]) = Range(stack[n]) \union {b},
           n \notin DOMAIN stack => Range(stack'[n]) = {b}
    PROVE  /\ \A t, u \in DOMAIN stack' : t # u => Range(stack'[t]) \intersect Range(stack'[u]) = {}
           /\ Live' = Live \union {b}
           /\ \A a \in Live : TaskOf(a)' = TaskOf(a)
           /\ TaskOf(b)' = n
<1>1. \A t \in DOMAIN stack : b \notin Range(stack[t])
  BY DEF Live
<1>2. \A t, u \in DOMAIN stack' : t # u => Range(stack'[t]) \intersect Range(stack'[u]) = {}
  <2> SUFFICES ASSUME NEW t \in DOMAIN stack', NEW u \in DOMAIN stack', t # u, NEW a,
                      a \in Range(stack'[t]), a \in Range(stack'[u])
               PROVE  FALSE
    OBVIOUS
  <2>1. CASE t = n \/ u = n
    BY <1>1, <2>1 DEF StackInv
  <2>2. CASE t # n /\ u # n
    BY <2>2 DEF StackInv
  <2> QED BY <2>1, <2>2
<1>3. Live' = Live \union {b}
  <2>1. ASSUME NEW a PROVE a \in Live' <=> \E t \in DOMAIN stack' : a \in Range(stack'[t])
    BY DEF Live
  <2>2. ASSUME NEW a PROVE a \in Live <=> \E t \in DOMAIN stack : a \in Range(stack[t])
    BY DEF Live
  <2>3. ASSUME NEW a, a \in Live' PROVE a \in Live \union {b}
    <3>1. PICK t \in DOMAIN stack' : a \in Range(stack'[t])
      BY <2>1, <2>3
    <3>2. a = b \/ (t \in DOMAIN stack /\ a \in Range(stack[t]))
      BY <3>1
    <3> QED BY <2>2, <3>2
  <2>4. ASSUME NEW a, a \in Live PROVE a \in Live'
    <3>1. PICK t \in DOMAIN stack : a \in Range(stack[t])
      BY <2>2, <2>4
    <3>2. t \in DOMAIN stack' /\ a \in Range(stack'[t])
      BY <3>1
    <3> QED BY <2>1, <3>2
  <2>5. b \in Live'
    BY <2>1
  <2> HIDE DEF Live
  <2> QED BY <2>3, <2>4, <2>5
<1>4. ASSUME NEW a, NEW t \in DOMAIN stack', a \in Range(stack'[t]) PROVE TaskOf(a)' = t
  <2>1. \A u \in DOMAIN stack' : a \in Range(stack'[u]) => u = t
    BY <1>2, <1>4
  <2>2. a \in Live'
    BY <1>4 DEF Live
  <2>3. TaskOf(a)' = CHOOSE u \in DOMAIN stack' : a \in Range(stack'[u])
    BY <2>2 DEF TaskOf
  <2> QED BY <1>4, <2>1, <2>3
<1>5. ASSUME NEW a \in Live PROVE TaskOf(a)' = TaskOf(a)
  <2>1. TaskOf(a) \in DOMAIN stack' /\ a \in Range(stack'[TaskOf(a)])
    BY TaskOfIs
  <2> QED BY <1>4, <2>1
<1>6. TaskOf(b)' = n
  BY <1>4
<1> QED BY <1>2, <1>3, <1>5, <1>6

\* A sequence with one more member.
LEMMA AppendRange ==
    ASSUME NEW S, NEW s \in Seq(S), NEW x \in S
    PROVE  /\ Append(s, x) \in Seq(S) /\ Len(Append(s, x)) = Len(s) + 1 /\ Len(s) \in Nat
           /\ DOMAIN s = 1..Len(s) /\ DOMAIN Append(s, x) = 1..(Len(s) + 1)
           /\ Append(s, x)[Len(s) + 1] = x
           /\ \A i \in DOMAIN s : Append(s, x)[i] = s[i]
           /\ Range(Append(s, x)) = Range(s) \union {x}
<1> DEFINE w == Append(s, x)
<1>1. /\ w \in Seq(S) /\ Len(w) = Len(s) + 1 /\ Len(s) \in Nat
      /\ DOMAIN s = 1..Len(s) /\ DOMAIN w = 1..(Len(s) + 1)
      /\ w[Len(s) + 1] = x /\ \A i \in DOMAIN s : w[i] = s[i]
  OBVIOUS
<1> HIDE DEF w
<1>2. ASSUME NEW y \in Range(w) PROVE y \in Range(s) \union {x}
  <2>1. PICK i \in DOMAIN w : y = w[i]
    BY DEF Range
  <2>2. i = Len(s) + 1 \/ i \in DOMAIN s
    BY <1>1, <2>1
  <2> QED BY <1>1, <2>1, <2>2 DEF Range
<1>3. ASSUME NEW y \in Range(s) \union {x} PROVE y \in Range(w)
  <2>1. x \in Range(w)
    BY <1>1 DEF Range
  <2>2. ASSUME y \in Range(s) PROVE y \in Range(w)
    <3>1. PICK i \in DOMAIN s : y = s[i]
      BY <2>2 DEF Range
    <3>2. i \in DOMAIN w /\ y = w[i]
      BY <1>1, <3>1
    <3> QED BY <3>2 DEF Range
  <2> QED BY <2>1, <2>2
<1>4. Range(w) = Range(s) \union {x}
  BY <1>2, <1>3
<1> QED BY <1>1, <1>4 DEF w

\* What the launch of a new activity does to the tasks.
Joined(t, b) ==
    /\ stack' \in Seq(Seq(Token)) /\ DOMAIN stack \subseteq DOMAIN stack' /\ t \in DOMAIN stack'
    /\ Len(stack') <= Len(stack) + 1
    /\ \A u, v \in DOMAIN stack' : u # v => Range(stack'[u]) \intersect Range(stack'[v]) = {}
    /\ \A u \in DOMAIN stack' : u # t => u \in DOMAIN stack /\ stack'[u] = stack[u]
    /\ Live' = Live \union {b}
    /\ \A a \in Live : TaskOf(a)' = TaskOf(a)
    /\ TaskOf(b)' = t

\* A new activity on top of a task.
LEMMA JoinedTask ==
    ASSUME TypeInv, StackInv, NEW t \in DOMAIN stack, NEW b \in Token, b \notin Live,
           stack' = [stack EXCEPT ![t] = Append(@, b)]
    PROVE  Joined(t, b)
<1>1. stack \in Seq(Seq(Token)) /\ Len(stack) \in Nat /\ DOMAIN stack = 1..Len(stack) /\ stack[t] \in Seq(Token)
  BY DEF TypeInv
<1>2. Append(stack[t], b) \in Seq(Token) /\ Range(Append(stack[t], b)) = Range(stack[t]) \union {b}
  BY <1>1, AppendRange
<1>3. stack' \in [1..Len(stack) -> Seq(Token)]
  BY <1>1, <1>2
<1>4. stack' \in Seq(Seq(Token)) /\ Len(stack') = Len(stack) /\ DOMAIN stack' = DOMAIN stack
  BY <1>1, <1>3, FunctionIsSeq
<1>5. \A u \in DOMAIN stack : u # t => stack'[u] = stack[u]
  OBVIOUS
<1>6. stack'[t] = Append(stack[t], b)
  BY <1>1
<1>7. /\ \A u, v \in DOMAIN stack' : u # v => Range(stack'[u]) \intersect Range(stack'[v]) = {}
      /\ Live' = Live \union {b} /\ \A a \in Live : TaskOf(a)' = TaskOf(a)
      /\ TaskOf(b)' = t
  BY <1>2, <1>4, <1>5, <1>6, OneMore
<1>8. Len(stack') <= Len(stack) + 1
  BY <1>1, <1>4
<1> QED BY <1>4, <1>5, <1>7, <1>8 DEF Joined

\* A new activity in a task of its own.
LEMMA JoinedNew ==
    ASSUME TypeInv, StackInv, NEW b \in Token, b \notin Live, stack' = Append(stack, <<b>>)
    PROVE  Joined(Len(stack) + 1, b) /\ Len(stack') = Len(stack) + 1 /\ Len(stack) + 1 \notin DOMAIN stack
<1> DEFINE n == Len(stack) + 1
<1>1. stack \in Seq(Seq(Token)) /\ Len(stack) \in Nat /\ <<b>> \in Seq(Token)
  BY DEF TypeInv
<1>2. /\ stack' \in Seq(Seq(Token)) /\ Len(stack') = n /\ DOMAIN stack = 1..Len(stack)
      /\ DOMAIN stack' = 1..n /\ stack'[n] = <<b>>
      /\ \A u \in DOMAIN stack : stack'[u] = stack[u]
  BY <1>1, AppendRange
<1>3. n \in DOMAIN stack' /\ n \notin DOMAIN stack /\ DOMAIN stack \subseteq DOMAIN stack'
  BY <1>1, <1>2
<1>4. \A u \in DOMAIN stack' : u # n => u \in DOMAIN stack /\ stack'[u] = stack[u]
  BY <1>1, <1>2
<1>5. Range(stack'[n]) = {b}
  BY <1>2 DEF Range
<1> HIDE DEF n
<1>6. /\ \A u, v \in DOMAIN stack' : u # v => Range(stack'[u]) \intersect Range(stack'[v]) = {}
      /\ Live' = Live \union {b} /\ \A a \in Live : TaskOf(a)' = TaskOf(a)
      /\ TaskOf(b)' = n
  BY <1>3, <1>4, <1>5, OneMore
<1>7. Len(stack') <= Len(stack) + 1
  BY <1>1, <1>2 DEF n
<1>8. Joined(n, b)
  BY <1>2, <1>3, <1>4, <1>6, <1>7 DEF Joined
<1> QED BY <1>2, <1>3, <1>8 DEF n

-----------------------------------------------------------------------------
(* The records of the tasks                                                *)

Same(r, q) == r.token = q.token /\ r.component = q.component /\ r.pid = q.pid

\* The records of v are records of w, but for their marks, and those of an
\* activity stand in the same order.
Kept(v, w) ==
    /\ \A i \in DOMAIN v : \E k \in DOMAIN w : Same(v[i], w[k])
    /\ \A i, j \in DOMAIN v : i < j /\ v[i].token = v[j].token =>
          \E k, l \in DOMAIN w : k < l /\ Same(v[i], w[k]) /\ Same(v[j], w[l])

\* What is marked in v is marked in w.
Unmarked(v, w) ==
    \A i \in DOMAIN v : v[i].marked => \E k \in DOMAIN w : w[k].marked /\ Same(v[i], w[k])

\* Any sequence of records is kept in itself.
LEMMA SameKept ==
    ASSUME NEW w
    PROVE  Kept(w, w) /\ Unmarked(w, w)
BY DEF Kept, Unmarked, Same

\* One record less.
LEMMA RemovedAt ==
    ASSUME NEW w \in Seq(ActivityRecord), NEW k \in DOMAIN w
    PROVE  LET v == RemoveAt(w, k) IN
           /\ v \in Seq(ActivityRecord) /\ Len(v) = Len(w) - 1
           /\ \A i \in DOMAIN v : v[i] = IF i < k THEN w[i] ELSE w[i + 1]
           /\ \A i \in DOMAIN v : IF i < k THEN i \in DOMAIN w ELSE i + 1 \in DOMAIN w
           /\ \A j \in DOMAIN w : j # k => \E i \in DOMAIN v : v[i] = w[j]
<1> DEFINE v == RemoveAt(w, k)
<1>0. Len(w) \in Nat /\ DOMAIN w = 1..Len(w) /\ k \in 1..Len(w)
  OBVIOUS
<1> DEFINE a == SubSeq(w, 1, k - 1)
           b == SubSeq(w, k + 1, Len(w))
<1>1. v = a \o b
  BY DEF RemoveAt
<1>2. a \in Seq(ActivityRecord) /\ Len(a) = k - 1 /\ \A i \in 1..(k - 1) : a[i] = w[i]
  BY <1>0
<1>3. b \in Seq(ActivityRecord) /\ Len(b) = Len(w) - k /\ \A i \in 1..(Len(w) - k) : b[i] = w[i + k]
  BY <1>0
<1> HIDE DEF v, a, b
<1>4. v \in Seq(ActivityRecord) /\ Len(v) = Len(w) - 1 /\ DOMAIN v = 1..(Len(w) - 1)
  <2>1. v \in Seq(ActivityRecord) /\ Len(v) = Len(a) + Len(b)
    BY <1>1, <1>2, <1>3
  <2>2. Len(v) = Len(w) - 1
    BY <1>0, <1>2, <1>3, <2>1
  <2> QED BY <2>1, <2>2
<1>5. ASSUME NEW i \in DOMAIN v PROVE v[i] = IF i < k THEN w[i] ELSE w[i + 1]
  <2>1. i \in 1..(Len(w) - 1) /\ i \in 1..(Len(a) + Len(b))
    BY <1>0, <1>2, <1>3, <1>4
  <2>2. v[i] = IF i <= Len(a) THEN a[i] ELSE b[i - Len(a)]
    BY <1>1, <1>2, <1>3, <2>1, SMTT(30)
  <2>3. CASE i < k
    <3>1. i <= Len(a) /\ i \in 1..(k - 1)
      BY <1>0, <1>2, <2>1, <2>3
    <3> QED BY <1>2, <2>2, <2>3, <3>1
  <2>4. CASE ~(i < k)
    <3>1. ~(i <= Len(a)) /\ i - Len(a) \in 1..(Len(w) - k) /\ (i - Len(a)) + k = i + 1
      BY <1>0, <1>2, <2>1, <2>4
    <3>2. b[i - Len(a)] = w[(i - Len(a)) + k]
      BY <1>3, <3>1
    <3> QED BY <2>2, <2>4, <3>1, <3>2
  <2> QED BY <2>3, <2>4
<1>6. \A i \in DOMAIN v : IF i < k THEN i \in DOMAIN w ELSE i + 1 \in DOMAIN w
  BY <1>0, <1>4
<1>7. ASSUME NEW j \in DOMAIN w, j # k PROVE \E i \in DOMAIN v : v[i] = w[j]
  <2>1. CASE j < k
    <3>1. j \in DOMAIN v
      BY <1>0, <1>4, <2>1
    <3> QED BY <1>5, <2>1, <3>1
  <2>2. CASE ~(j < k)
    <3>1. j - 1 \in DOMAIN v /\ ~(j - 1 < k) /\ (j - 1) + 1 = j
      BY <1>0, <1>4, <1>7, <2>2
    <3>2. v[j - 1] = w[(j - 1) + 1]
      BY <1>5, <3>1
    <3> QED BY <3>1, <3>2
  <2> QED BY <2>1, <2>2
<1>8. Len(v) = Len(w) - 1
  BY <1>4
<1> QED BY <1>4, <1>5, <1>6, <1>7, <1>8 DEF v

\* The others stay as they are, in their order.
LEMMA RemovedKept ==
    ASSUME NEW w \in Seq(ActivityRecord), NEW k \in DOMAIN w
    PROVE  LET v == RemoveAt(w, k) IN
           /\ v \in Seq(ActivityRecord) /\ Kept(v, w) /\ Unmarked(v, w)
           /\ \A i \in DOMAIN v : \E j \in DOMAIN w : j # k /\ v[i] = w[j]
           /\ \A j \in DOMAIN w : j # k => \E i \in DOMAIN v : v[i] = w[j]
<1> DEFINE v == RemoveAt(w, k)
           at(i) == IF i < k THEN i ELSE i + 1
<1>1. /\ v \in Seq(ActivityRecord) /\ Len(v) = Len(w) - 1
      /\ \A i \in DOMAIN v : v[i] = IF i < k THEN w[i] ELSE w[i + 1]
      /\ \A i \in DOMAIN v : IF i < k THEN i \in DOMAIN w ELSE i + 1 \in DOMAIN w
      /\ \A j \in DOMAIN w : j # k => \E i \in DOMAIN v : v[i] = w[j]
  BY RemovedAt
<1> HIDE DEF v
<1>2. k \in Nat /\ DOMAIN v = 1..Len(v) /\ Len(v) \in Nat
  BY <1>1
<1>3. ASSUME NEW i \in DOMAIN v PROVE at(i) \in DOMAIN w /\ at(i) # k /\ v[i] = w[at(i)]
  BY <1>1, <1>2
<1>4. ASSUME NEW i \in DOMAIN v, NEW j \in DOMAIN v, i < j PROVE at(i) < at(j)
  BY <1>2, <1>4
<1> HIDE DEF at
<1>5. Kept(v, w) /\ Unmarked(v, w)
  BY <1>3, <1>4 DEF Kept, Unmarked, Same
<1>6. \A i \in DOMAIN v : \E j \in DOMAIN w : j # k /\ v[i] = w[j]
  BY <1>3
<1> QED BY <1>1, <1>5, <1>6 DEF v

\* The last record of an activity goes to the end.
LEMMA MovedKept ==
    ASSUME NEW w \in Seq(ActivityRecord), NEW k \in DOMAIN w,
           \A j \in DOMAIN w : w[j].token = w[k].token => j <= k
    PROVE  LET v == Append(RemoveAt(w, k), w[k]) IN
           /\ v \in Seq(ActivityRecord) /\ Kept(v, w) /\ Unmarked(v, w)
           /\ \A j \in DOMAIN w : \E i \in DOMAIN v : v[i] = w[j]
<1> DEFINE u == RemoveAt(w, k)
           v == Append(u, w[k])
<1>1. /\ u \in Seq(ActivityRecord) /\ Kept(u, w) /\ Unmarked(u, w)
      /\ \A i \in DOMAIN u : \E j \in DOMAIN w : j # k /\ u[i] = w[j]
      /\ \A j \in DOMAIN w : j # k => \E i \in DOMAIN u : u[i] = w[j]
  BY RemovedKept
<1>2. w[k] \in ActivityRecord /\ k \in Nat /\ DOMAIN w \subseteq Nat
  OBVIOUS
<1> HIDE DEF u
<1>3. /\ v \in Seq(ActivityRecord) /\ DOMAIN u = 1..Len(u) /\ DOMAIN v = 1..(Len(u) + 1)
      /\ v[Len(u) + 1] = w[k] /\ \A i \in DOMAIN u : v[i] = u[i]
      /\ Len(u) \in Nat
  BY <1>1, <1>2, AppendRange
<1> HIDE DEF v
<1>4. ASSUME NEW i \in DOMAIN v PROVE \E j \in DOMAIN w : v[i] = w[j]
  <2>1. CASE i = Len(u) + 1
    BY <1>3, <2>1
  <2>2. CASE i # Len(u) + 1
    <3>1. i \in DOMAIN u /\ v[i] = u[i]
      BY <1>3, <2>2
    <3> QED BY <1>1, <3>1
  <2> QED BY <2>1, <2>2
<1>5. ASSUME NEW i \in DOMAIN v, NEW j \in DOMAIN v, i < j, v[i].token = v[j].token
      PROVE  \E m, l \in DOMAIN w : m < l /\ Same(v[i], w[m]) /\ Same(v[j], w[l])
  <2>1. i \in DOMAIN u /\ v[i] = u[i]
    BY <1>3, <1>5
  <2>2. CASE j = Len(u) + 1
    <3>1. PICK m \in DOMAIN w : m # k /\ u[i] = w[m]
      BY <1>1, <2>1
    <3>2. m <= k /\ v[j] = w[k]
      BY <1>3, <1>5, <2>1, <2>2, <3>1
    <3>3. m < k
      BY <1>2, <3>1, <3>2
    <3> QED BY <2>1, <3>1, <3>2, <3>3 DEF Same
  <2>3. CASE j # Len(u) + 1
    <3>1. j \in DOMAIN u /\ v[j] = u[j]
      BY <1>3, <2>3
    <3> QED BY <1>1, <1>5, <2>1, <3>1 DEF Kept
  <2> QED BY <2>2, <2>3
<1>6. Kept(v, w) /\ Unmarked(v, w)
  <2>1. \A i \in DOMAIN v : \E j \in DOMAIN w : Same(v[i], w[j])
    BY <1>4 DEF Same
  <2>2. Kept(v, w)
    BY <1>5, <2>1 DEF Kept
  <2>3. Unmarked(v, w)
    BY <1>4 DEF Unmarked, Same
  <2> QED BY <2>2, <2>3
<1>7. ASSUME NEW j \in DOMAIN w PROVE \E i \in DOMAIN v : v[i] = w[j]
  <2>1. CASE j = k
    <3>1. Len(u) + 1 \in DOMAIN v
      BY <1>3
    <3> QED BY <1>3, <2>1, <3>1
  <2>2. CASE j # k
    <3>1. PICK i \in DOMAIN u : u[i] = w[j]
      BY <1>1, <2>2
    <3>2. i \in DOMAIN v /\ v[i] = u[i]
      BY <1>3
    <3> QED BY <3>1, <3>2
  <2> QED BY <2>1, <2>2
<1> QED BY <1>3, <1>6, <1>7 DEF v, u

\* The records that are not of a process that has died.
LEMMA LeftKept ==
    ASSUME NEW w \in Seq(ActivityRecord), NEW rs
    PROVE  LET v == Without(w, rs) IN
           /\ v \in Seq(ActivityRecord) /\ Kept(v, w) /\ Unmarked(v, w)
           /\ \A i \in DOMAIN v : v[i] \notin rs
           /\ \A j \in DOMAIN w : w[j] \notin rs => \E i \in DOMAIN v : v[i] = w[j]
<1> DEFINE v == Without(w, rs)
<1>1. v \in Seq(ActivityRecord) /\ LeftOf(v, w, rs, Len(w))
  BY WithoutLeaves
<1>2. DOMAIN w = 1..Len(w)
  OBVIOUS
<1> HIDE DEF v
<1>3. \A i \in DOMAIN v : \E k \in DOMAIN w : v[i] = w[k] /\ v[i] \notin rs
  BY <1>1, <1>2 DEF LeftOf
<1>4. ASSUME NEW i \in DOMAIN v, NEW j \in DOMAIN v, i < j
      PROVE  \E k, l \in DOMAIN w : k < l /\ v[i] = w[k] /\ v[j] = w[l]
  <2>1. PICK k \in 1..Len(w), l \in 1..Len(w) : k < l /\ v[i] = w[k] /\ v[j] = w[l]
    BY <1>1, <1>4 DEF LeftOf
  <2> QED BY <1>2, <2>1
<1>5. Kept(v, w) /\ Unmarked(v, w)
  BY <1>3, <1>4 DEF Kept, Unmarked, Same
<1>6. \A j \in DOMAIN w : w[j] \notin rs => \E i \in DOMAIN v : v[i] = w[j]
  BY <1>1, <1>2 DEF LeftOf
<1> QED BY <1>1, <1>3, <1>5, <1>6 DEF v

\* Marking changes nothing else.
LEMMA MarkedKept ==
    ASSUME NEW w \in Seq(ActivityRecord), NEW places
    PROVE  LET v == Mark(w, places) IN
           /\ v \in Seq(ActivityRecord) /\ DOMAIN v = DOMAIN w /\ Len(v) = Len(w)
           /\ \A i \in DOMAIN w : Same(v[i], w[i]) /\ v[i].marked = (i \in places \/ w[i].marked)
           /\ Kept(v, w)
<1> DEFINE v == Mark(w, places)
<1>1. Len(w) \in Nat /\ DOMAIN w = 1..Len(w)
  OBVIOUS
<1>2. ASSUME NEW i \in DOMAIN w
      PROVE  v[i] \in ActivityRecord /\ Same(v[i], w[i]) /\ v[i].marked = (i \in places \/ w[i].marked)
  <2>1. w[i] \in ActivityRecord
    OBVIOUS
  <2>2. v[i] = IF i \in places THEN [w[i] EXCEPT !.marked = TRUE] ELSE w[i]
    BY DEF Mark
  <2>3. CASE i \in places
    BY <2>1, <2>2, <2>3 DEF ActivityRecord, Same
  <2>4. CASE i \notin places
    BY <2>1, <2>2, <2>4 DEF ActivityRecord, Same
  <2> QED BY <2>3, <2>4
<1>3. v = [i \in 1..Len(w) |-> v[i]]
  BY <1>1 DEF Mark
<1> HIDE DEF v
<1>4. v \in [1..Len(w) -> ActivityRecord]
  BY <1>1, <1>2, <1>3
<1>5. v \in Seq(ActivityRecord) /\ DOMAIN v = DOMAIN w /\ Len(v) = Len(w)
  BY <1>1, <1>4, FunctionIsSeq
<1>6. Kept(v, w)
  BY <1>2, <1>5 DEF Kept
<1> QED BY <1>2, <1>5, <1>6 DEF v

-----------------------------------------------------------------------------
(* Common parts of the steps                                               *)

\* The bounds of tokens, tasks and processes.
LEMMA Bounds ==
    ASSUME TypeInv
    PROVE  /\ MaxStarts \in Nat /\ MaxTroubles \in Nat
           /\ Len(comp) \in Nat /\ DOMAIN comp = 1..Len(comp) /\ Len(comp) <= MaxStarts
           /\ Len(stack) \in Nat /\ DOMAIN stack = 1..Len(stack) /\ Len(stack) <= MaxStarts
           /\ DOMAIN comp \subseteq Token /\ DOMAIN stack \subseteq Task /\ pid \in Pid
           /\ \A a \in Token : a \in Nat
<1>1. MaxStarts \in Nat /\ MaxTroubles \in Nat
  BY ActivityTasksAssumption
<1>2. Len(comp) \in Nat /\ DOMAIN comp = 1..Len(comp) /\ Len(stack) \in Nat /\ DOMAIN stack = 1..Len(stack)
  BY DEF TypeInv
<1>3. spent.starts \in 0..MaxStarts /\ spent.troubles \in 0..MaxTroubles
  BY DEF TypeInv
<1>4. Len(comp) <= spent.starts /\ Len(stack) <= Len(comp)
  BY <1>2, <1>3 DEF TypeInv
<1>5. Len(comp) <= MaxStarts /\ Len(stack) <= MaxStarts
  BY <1>1, <1>2, <1>3, <1>4
<1>6. pid \in Pid
  BY <1>1, <1>3 DEF TypeInv, Pid
<1>7. DOMAIN comp \subseteq Token /\ DOMAIN stack \subseteq Task /\ \A a \in Token : a \in Nat
  BY <1>1, <1>2, <1>5 DEF Token, Task
<1> QED BY <1>1, <1>2, <1>5, <1>6, <1>7

\* The bound on what Android does of its own accord.
LEMMA TroubleSpent ==
    ASSUME TypeInv, Trouble
    PROVE  /\ spent' \in [starts : 0..MaxStarts, troubles : 0..MaxTroubles]
           /\ spent'.starts = spent.starts /\ pid + 1 <= spent'.troubles + 1
<1>1. spent \in [starts : 0..MaxStarts, troubles : 0..MaxTroubles] /\ spent.troubles < MaxTroubles
  BY DEF TypeInv, Trouble
<1>2. spent' = [spent EXCEPT !.troubles = @ + 1]
  BY DEF Trouble
<1>3. pid \in Nat /\ pid <= spent.troubles + 1
  BY DEF TypeInv
<1> QED BY <1>1, <1>2, <1>3, ActivityTasksAssumption

\* The single activities, when none comes.
LEMMA SingleStays ==
    ASSUME JobInv, SingleInv, comp' = comp, Live' \subseteq Live,
           pc' # "idle" => pc # "idle" /\ job'.comp = job.comp,
           \A a \in Live' : a \in Excused => a \in Excused'
    PROVE  JobInv' /\ SingleInv'
<1>1. JobInv'
  BY DEF JobInv
<1>2. SingleInv'
  BY DEF SingleInv
<1> QED BY <1>1, <1>2

\* What is filed, and what is about to be.
LEMMA FiledNamed ==
    ASSUME TypeInv, NamedInv
    PROVE  /\ \A x \in Filed \union creating \union posted : x.pid \in Nat /\ x.pid <= pid /\ x.token \in DOMAIN comp
           /\ \A x \in Filed \union creating : x.task \in DOMAIN stack \union {NoTask}
<1>1. ASSUME NEW x \in Filed
      PROVE  x.pid \in Nat /\ x.pid <= pid /\ x.token \in DOMAIN comp /\ x.task \in DOMAIN stack \union {NoTask}
  <2>1. x \in Creation /\ x.task \in DOMAIN mHistory
    BY DEF Filed
  <2>2. PICK i \in DOMAIN mHistory[x.task].activities :
          LET r == mHistory[x.task].activities[i] IN r.token = x.token /\ r.pid = x.pid
    BY DEF Filed
  <2>3. x.pid <= pid /\ x.token \in DOMAIN comp /\ x.task \in DOMAIN stack \union {NoTask}
    BY <2>1, <2>2 DEF NamedInv
  <2>4. x.pid \in Nat
    BY <2>1, ActivityTasksAssumption DEF Creation, Pid
  <2> QED BY <2>3, <2>4
<1>2. ASSUME NEW x \in creating \union posted PROVE x.pid \in Nat /\ x.pid <= pid /\ x.token \in DOMAIN comp
  <2>1. x.pid \in Pid /\ x.pid <= pid /\ x.token \in DOMAIN comp
    BY DEF TypeInv, NamedInv, Creation
  <2> QED BY <2>1, ActivityTasksAssumption DEF Pid
<1>3. \A x \in creating : x.task \in DOMAIN stack \union {NoTask}
  BY DEF NamedInv
<1> QED BY <1>1, <1>2, <1>3

\* What is filed, when the server does nothing.
LEMMA FiledStays == UNCHANGED mHistory => Filed' = Filed
BY DEF Filed

\* What lives, when Android does nothing.
LEMMA LiveStays == UNCHANGED stack => Live' = Live /\ \A a : TaskOf(a)' = TaskOf(a)
BY DEF Live, TaskOf

-----------------------------------------------------------------------------
(* Init, and the steps of Android                                          *)

\* There is nothing.
LEMMA InitIInv == Init => IInv
<1> SUFFICES ASSUME Init PROVE IInv
  OBVIOUS
<1>0. MaxStarts \in Nat /\ MaxTroubles \in Nat
  BY ActivityTasksAssumption
<1>1. TypeInv
  <2>1. job \in [comp : Comp, task : Task \union {NoTask}, last : Token \union {0}]
    BY ActivityTasksAssumption DEF Init, NoJob, NoTask
  <2>2. owed \in OwedType
    BY DEF Init, NothingOwed, OwedType
  <2>3. spent \in [starts : 0..MaxStarts, troubles : 0..MaxTroubles]
    BY <1>0 DEF Init
  <2> QED BY <2>1, <2>2, <2>3 DEF Init, TypeInv
<1>2. Filed = {} /\ Live = {}
  BY DEF Init, Filed, Live
<1>3. NamedInv /\ StackInv /\ HomeInv /\ NoticeInv /\ OnceInv /\ KnownInv
  BY <1>2 DEF Init, NothingOwed, NamedInv, StackInv, HomeInv, NoticeInv, OnceInv, KnownInv
<1>4. CreatingInv /\ OrderInv /\ ListedInv /\ BackedInv /\ MarkInv /\ JobInv /\ SingleInv
  BY <1>2 DEF Init, CreatingInv, OrderInv, ListedInv, BackedInv, MarkInv, JobInv, SingleInv
<1> QED BY <1>1, <1>3, <1>4 DEF IInv

\* An activity that is destroyed for its memory still lives.
LEMMA DestroyForMemoryStep ==
    ASSUME IInv, NEW a, DestroyForMemory(a)
    PROVE  IInv'
<1> USE DEF IInv, DestroyForMemory, server, android, calls
<1>1. Filed' = Filed /\ Live' = Live /\ \A b : TaskOf(b)' = TaskOf(b)
  BY FiledStays, LiveStays
<1>2. TypeInv'
  <2>1. /\ spent' \in [starts : 0..MaxStarts, troubles : 0..MaxTroubles]
        /\ spent'.starts = spent.starts /\ pid + 1 <= spent'.troubles + 1
    BY TroubleSpent
  <2>2. pid <= spent'.troubles + 1
    BY <2>1 DEF TypeInv
  <2> QED BY <2>1, <2>2 DEF TypeInv
<1>3. NamedInv' /\ NoticeInv' /\ OnceInv' /\ OrderInv'
  BY <1>1 DEF NamedInv, NoticeInv, OnceInv, OrderInv, Odd
<1>4. StackInv' /\ HomeInv' /\ KnownInv' /\ CreatingInv'
  BY <1>1 DEF StackInv, HomeInv, KnownInv, CreatingInv, Odd
<1>5. ListedInv' /\ BackedInv' /\ MarkInv'
  BY <1>1 DEF ListedInv, BackedInv, MarkInv, Odd
<1>6. JobInv' /\ SingleInv'
  BY <1>1 DEF JobInv, SingleInv, Excused
<1> QED BY <1>2, <1>3, <1>4, <1>5, <1>6

\* An activity that is launched again is not on its way already.
LEMMA RelaunchStep ==
    ASSUME IInv, NEW t \in DOMAIN stack, Relaunch(t)
    PROVE  IInv'
<1> USE DEF IInv, Relaunch, server, android, calls
<1>1. Filed' = Filed /\ Live' = Live /\ \A b : TaskOf(b)' = TaskOf(b)
  BY FiledStays, LiveStays
<1>2. Last(stack[t]) \in Live /\ \A x \in creating : x.token # Last(stack[t])
  <2>1. Last(stack[t]) \in Range(stack[t])
    BY RangeNotEmpty DEF TypeInv
  <2> QED BY <2>1, TaskOfIs
<1>3. TypeInv'
  BY <1>2 DEF TypeInv, StackInv
<1>4. OnceInv'
  BY <1>2 DEF OnceInv
<1>5. NamedInv' /\ NoticeInv' /\ OrderInv'
  BY <1>1 DEF NamedInv, NoticeInv, OrderInv, Odd
<1>6. StackInv' /\ HomeInv' /\ KnownInv' /\ CreatingInv'
  BY <1>1 DEF StackInv, HomeInv, KnownInv, CreatingInv, Odd
<1>7. ListedInv' /\ BackedInv' /\ MarkInv'
  BY <1>1 DEF ListedInv, BackedInv, MarkInv, Odd
<1>8. JobInv' /\ SingleInv'
  BY <1>1 DEF JobInv, SingleInv, Excused
<1> QED BY <1>3, <1>4, <1>5, <1>6, <1>7, <1>8

\* The records of the task, and what is about to be filed in it, are not to be
\* seen any more.
LEMMA RemoveTaskStep ==
    ASSUME IInv, NEW t \in DOMAIN stack, RemoveTask(t)
    PROVE  IInv'
<1> USE DEF IInv, RemoveTask, Finish, server, calls
<1> DEFINE as == Range(stack[t])
<1>1. /\ stack' \in Seq(Seq(Token)) /\ DOMAIN stack' = DOMAIN stack /\ Len(stack') = Len(stack)
      /\ \A u, v \in DOMAIN stack : u # v => Range(stack'[u]) \intersect Range(stack'[v]) = {}
      /\ \A u \in DOMAIN stack : stack'[u] # <<>> => stack[u] # <<>> /\ Range(stack[u]) \ as # {}
      /\ Live' = Live \ as
      /\ \A a \in Live' : TaskOf(a)' = TaskOf(a)
  BY Finished
<1>2. Filed' = Filed
  BY FiledStays
<1>3. \A a \in Live : a \notin Live' => TaskOf(a) = t
  BY <1>1, TaskOfIs
<1>4. TypeInv'
  <2>1. /\ spent' \in [starts : 0..MaxStarts, troubles : 0..MaxTroubles]
        /\ spent'.starts = spent.starts /\ pid + 1 <= spent'.troubles + 1
    BY TroubleSpent
  <2>2. pid <= spent'.troubles + 1
    BY <2>1 DEF TypeInv
  <2> QED BY <1>1, <2>1, <2>2 DEF TypeInv
<1>5. NamedInv' /\ NoticeInv' /\ OnceInv' /\ OrderInv'
  BY <1>1, <1>2 DEF NamedInv, NoticeInv, OnceInv, OrderInv, Odd
<1>6. StackInv'
  BY <1>1 DEF StackInv
<1>7. HomeInv'
  BY <1>1, <1>2 DEF HomeInv
<1>8. KnownInv'
  BY <1>1, <1>2 DEF KnownInv, Odd
<1>9. CreatingInv'
  BY <1>1, <1>3 DEF CreatingInv, HomeInv, Odd
<1>10. ListedInv'
  BY <1>1, <1>2 DEF ListedInv, StackInv
<1>11. BackedInv'
  BY <1>1, <1>2, <1>3 DEF BackedInv, HomeInv, Odd
<1>12. MarkInv'
  BY <1>1 DEF MarkInv
<1>13. JobInv' /\ SingleInv'
  BY <1>1, SingleStays DEF Excused
<1> QED BY <1>4, <1>5, <1>6, <1>7, <1>8, <1>9, <1>10, <1>11, <1>12, <1>13

\* An empty task has no activity that lives.
LEMMA ForgetTaskStep ==
    ASSUME IInv, NEW t \in DOMAIN stack, ForgetTask(t)
    PROVE  IInv'
<1> USE DEF IInv, ForgetTask, server, process, calls
<1>1. Filed' = Filed /\ Live' = Live /\ \A b : TaskOf(b)' = TaskOf(b)
  BY FiledStays, LiveStays
<1>2. TypeInv' /\ StackInv'
  BY <1>1 DEF TypeInv, StackInv
<1>3. NamedInv' /\ NoticeInv' /\ OnceInv' /\ OrderInv'
  BY <1>1 DEF NamedInv, NoticeInv, OnceInv, OrderInv, Odd
<1>4. HomeInv' /\ KnownInv' /\ CreatingInv'
  BY <1>1 DEF HomeInv, KnownInv, CreatingInv, Odd
<1>5. ListedInv' /\ BackedInv' /\ MarkInv'
  BY <1>1 DEF ListedInv, BackedInv, MarkInv, Odd
<1>6. JobInv' /\ SingleInv'
  BY <1>1 DEF JobInv, SingleInv, Excused
<1> QED BY <1>2, <1>3, <1>4, <1>5, <1>6

\* All that is filed has a process that has died, and nothing is for the new one.
LEMMA DieStep ==
    ASSUME IInv, Die
    PROVE  IInv'
<1> USE DEF IInv, Die, server
<1>0. PICK as \in SUBSET up : stack' = [t \in DOMAIN stack |-> Without(stack[t], as)]
  OBVIOUS
<1>1. /\ stack' \in Seq(Seq(Token)) /\ DOMAIN stack' = DOMAIN stack /\ Len(stack') = Len(stack)
      /\ \A u, v \in DOMAIN stack : u # v => Range(stack'[u]) \intersect Range(stack'[v]) = {}
      /\ \A u \in DOMAIN stack : stack'[u] # <<>> => stack[u] # <<>> /\ Range(stack[u]) \ as # {}
      /\ Live' = Live \ as
      /\ \A a \in Live' : TaskOf(a)' = TaskOf(a)
  BY <1>0, Finished
<1>2. Filed' = Filed
  BY FiledStays
<1>3. /\ pid \in Nat /\ pid' \in Nat \ {0} /\ \A n \in Nat : n <= pid => n # pid'
      /\ \A x \in Filed \union creating \union posted : x.pid \in Nat /\ x.pid <= pid
  <2>1. pid \in Nat \ {0}
    BY DEF TypeInv
  <2> QED BY <2>1, FiledNamed
<1>4. TypeInv'
  <2>1. /\ spent' \in [starts : 0..MaxStarts, troubles : 0..MaxTroubles]
        /\ spent'.starts = spent.starts /\ pid + 1 <= spent'.troubles + 1
    BY TroubleSpent
  <2>2. pid' <= spent'.troubles + 1 /\ notices' \subseteq 1..(pid' - 1)
    BY <1>3, <2>1 DEF TypeInv
  <2> QED BY <1>1, <1>3, <2>1, <2>2 DEF TypeInv
<1>5. NamedInv'
  <2>1. \A n \in Nat : n <= pid => n <= pid'
    BY <1>3
  <2>2. \A t \in DOMAIN mHistory : \A i \in DOMAIN mHistory[t].activities :
            mHistory[t].activities[i].pid <= pid'
    <3> SUFFICES ASSUME NEW t \in DOMAIN mHistory, NEW i \in DOMAIN mHistory[t].activities
                 PROVE  mHistory[t].activities[i].pid <= pid'
      OBVIOUS
    <3>1. mHistory[t].activities[i] \in ActivityRecord
      BY DEF TypeInv, TaskRecord
    <3>2. mHistory[t].activities[i].pid \in Nat
      BY <3>1, ActivityTasksAssumption DEF ActivityRecord, Pid
    <3> QED BY <2>1, <3>2 DEF NamedInv
  <2>3. \A x \in creating \union posted : x.pid <= pid'
    BY <1>3
  <2> QED BY <1>1, <2>2, <2>3 DEF NamedInv
<1>6. StackInv'
  BY <1>1 DEF StackInv
<1>7. HomeInv' /\ OnceInv' /\ OrderInv'
  <2>1. HomeInv'
    BY <1>1, <1>2 DEF HomeInv
  <2>2. OnceInv'
    BY <1>1 DEF OnceInv
  <2>3. OrderInv'
    BY DEF OrderInv, Odd
  <2> QED BY <2>1, <2>2, <2>3
<1>8. NoticeInv'
  BY <1>2 DEF NoticeInv
<1>9. KnownInv' /\ CreatingInv'
  BY <1>1, <1>2, <1>3 DEF KnownInv, CreatingInv, Odd
<1>10. ListedInv'
  BY DEF ListedInv
<1>11. BackedInv'
  BY <1>2, <1>3, <1>8 DEF BackedInv, NoticeInv
<1>12. MarkInv'
  <2> SUFFICES ASSUME NEW t \in DOMAIN mHistory \intersect recents,
                      NEW i \in DOMAIN mHistory[t].activities,
                      mHistory[t].activities[i].marked, mHistory[t].activities[i].token \in Live'
               PROVE  /\ mHistory[t].activities[i].pid # pid'
                      /\ mHistory[t].activities[i].token \in owed.spared \union {x.token : x \in posted}
    BY DEF MarkInv
  <2>1. mHistory[t].activities[i] \in ActivityRecord
    BY DEF TypeInv, TaskRecord
  <2>2. mHistory[t].activities[i].pid \in Nat /\ mHistory[t].activities[i].pid <= pid
    BY <1>3, <2>1, ActivityTasksAssumption DEF ActivityRecord, Pid, NamedInv
  <2> QED BY <1>1, <1>3, <2>2 DEF MarkInv
<1>13. JobInv' /\ SingleInv'
  BY <1>1, SingleStays DEF Excused
<1> QED BY <1>4, <1>5, <1>6, <1>7, <1>8, <1>9, <1>10, <1>11, <1>12, <1>13

-----------------------------------------------------------------------------
(* The steps of the process                                                *)

\* An activity that runs is not about to be filed for its process, unless it
\* was launched twice.
LEMMA FinishActivityStep ==
    ASSUME IInv, NEW a, FinishActivity(a)
    PROVE  IInv'
<1> USE DEF IInv, FinishActivity, Finish, server
<1>1. /\ stack' \in Seq(Seq(Token)) /\ DOMAIN stack' = DOMAIN stack /\ Len(stack') = Len(stack)
      /\ \A u, v \in DOMAIN stack : u # v => Range(stack'[u]) \intersect Range(stack'[v]) = {}
      /\ \A u \in DOMAIN stack : stack'[u] # <<>> => stack[u] # <<>> /\ Range(stack[u]) \ {a} # {}
      /\ Live' = Live \ {a}
      /\ \A b \in Live' : TaskOf(b)' = TaskOf(b)
  BY Finished
<1>2. Filed' = Filed /\ a \in DOMAIN comp
  BY FiledStays DEF TypeInv
<1>3. TypeInv'
  BY <1>1, <1>2 DEF TypeInv
<1>4. NamedInv' /\ NoticeInv' /\ OnceInv' /\ OrderInv'
  BY <1>1, <1>2 DEF NamedInv, NoticeInv, OnceInv, OrderInv, Odd
<1>5. StackInv'
  BY <1>1 DEF StackInv
<1>6. HomeInv' /\ KnownInv'
  BY <1>1, <1>2 DEF HomeInv, KnownInv, Odd
<1>7. CreatingInv'
  BY <1>1, <1>2 DEF CreatingInv, KnownInv, Odd
<1>8. ListedInv'
  BY <1>1, <1>2 DEF ListedInv, StackInv
<1>9. BackedInv' /\ MarkInv'
  BY <1>1, <1>2 DEF BackedInv, MarkInv, Odd
<1>10. JobInv' /\ SingleInv'
  BY <1>1, SingleStays DEF Excused
<1> QED BY <1>3, <1>4, <1>5, <1>6, <1>7, <1>8, <1>9, <1>10

\* The activities that end in silence are noted as such.
LEMMA FinishAffinityStep ==
    ASSUME IInv, NEW t \in DOMAIN stack, FinishAffinity(t)
    PROVE  IInv'
<1> USE DEF IInv, FinishAffinity, Finish, server, calls
<1> DEFINE as == Range(stack[t])
<1>1. /\ stack' \in Seq(Seq(Token)) /\ DOMAIN stack' = DOMAIN stack /\ Len(stack') = Len(stack)
      /\ \A u, v \in DOMAIN stack : u # v => Range(stack'[u]) \intersect Range(stack'[v]) = {}
      /\ \A u \in DOMAIN stack : stack'[u] # <<>> => stack[u] # <<>> /\ Range(stack[u]) \ as # {}
      /\ Live' = Live \ as
      /\ \A b \in Live' : TaskOf(b)' = TaskOf(b)
  BY Finished
<1>2. Filed' = Filed /\ as \subseteq Live /\ as \subseteq DOMAIN comp
  BY FiledStays, TaskOfIs DEF StackInv
<1> HIDE DEF as
<1>3. /\ owed' \in OwedType /\ owed'.silent = owed.silent \union as
      /\ owed'.again = owed.again /\ owed'.belated = owed.belated
      /\ owed'.unseen = owed.unseen /\ owed'.spared = owed.spared
  BY <1>2, Bounds DEF TypeInv, OwedType, as
<1>4. TypeInv'
  <2>1. /\ spent' \in [starts : 0..MaxStarts, troubles : 0..MaxTroubles]
        /\ spent'.starts = spent.starts /\ pid + 1 <= spent'.troubles + 1
    BY TroubleSpent
  <2>2. pid <= spent'.troubles + 1
    BY <2>1 DEF TypeInv
  <2> QED BY <1>1, <1>3, <2>1, <2>2 DEF TypeInv
<1>5. NamedInv'
  BY <1>1, <1>2, <1>3 DEF NamedInv
<1>6. NoticeInv' /\ OnceInv' /\ OrderInv'
  BY <1>2, <1>3 DEF NoticeInv, OnceInv, OrderInv, Odd
<1>7. StackInv'
  BY <1>1, <1>3 DEF StackInv, as
<1>8. HomeInv' /\ KnownInv' /\ CreatingInv'
  BY <1>1, <1>2, <1>3 DEF HomeInv, KnownInv, CreatingInv, Odd, as
<1>9. ListedInv'
  BY <1>1, <1>2 DEF ListedInv, StackInv, as
<1>10. BackedInv' /\ MarkInv'
  BY <1>1, <1>2, <1>3, ZenonT(40) DEF BackedInv, MarkInv, Odd
<1>11. JobInv' /\ SingleInv'
  BY <1>1, <1>3, SingleStays DEF Excused
<1> QED BY <1>4, <1>5, <1>6, <1>7, <1>8, <1>9, <1>10, <1>11

\* The call that goes out names the task in which the activity is; if there is
\* a record for the process that runs, the process knows the activity.
LEMMA HandleLaunchActivityStep ==
    ASSUME IInv, NEW a, HandleLaunchActivity(a)
    PROVE  IInv'
<1> USE DEF IInv, HandleLaunchActivity, server, android
<1> DEFINE x == [token |-> a, pid |-> pid, task |-> TaskOf(a)]
<1>1. Filed' = Filed /\ Live' = Live /\ \A b : TaskOf(b)' = TaskOf(b)
  BY FiledStays, LiveStays
<1>2. /\ a \in DOMAIN comp /\ a \in Token /\ TaskOf(a) \in DOMAIN stack \union {NoTask}
      /\ pid \in Pid /\ pid \in Nat /\ pid <= pid
  BY Bounds, TaskOfIs, SMTT(30) DEF TypeInv
<1>3. x \in Creation /\ x.token = a /\ x.pid = pid /\ x.task = TaskOf(a) /\ creating' = creating \union {x}
  BY <1>2, Bounds DEF Creation
<1> HIDE DEF x
<1>4. /\ owed' \in OwedType
      /\ owed'.silent = IF a \in Live THEN owed.silent ELSE owed.silent \union {a}
      /\ owed'.again = IF a \in known THEN owed.again \union {a} ELSE owed.again
      /\ owed'.belated = owed.belated /\ owed'.unseen = owed.unseen /\ owed'.spared = owed.spared
  BY <1>2 DEF TypeInv, OwedType
<1>5. TypeInv'
  BY <1>2, <1>3, <1>4 DEF TypeInv
<1>6. NamedInv'
  BY <1>2, <1>3, <1>4 DEF NamedInv
<1>7. StackInv'
  BY <1>1, <1>4 DEF StackInv
<1>8. HomeInv'
  <2>1. \A f \in (Filed \union creating)' : f.token \in Live => f.task = TaskOf(f.token)
    BY <1>1, <1>3 DEF HomeInv
  <2>2. ASSUME NEW f \in (Filed \union creating)', NEW g \in (Filed \union creating)', f.token = g.token
        PROVE  f.task = g.task \/ f.token \in owed'.silent
    <3>1. CASE f.token \in Live
      BY <2>1, <2>2, <3>1
    <3>2. CASE f.token \notin Live
      BY <1>1, <1>3, <1>4, <2>2, <3>2 DEF HomeInv
    <3> QED BY <3>1, <3>2
  <2> QED BY <1>1, <2>1, <2>2 DEF HomeInv
<1>9. NoticeInv' /\ OrderInv'
  BY <1>1, <1>4 DEF NoticeInv, OrderInv, Odd
<1>10. OnceInv'
  BY <1>3 DEF OnceInv
<1>11. KnownInv'
  <2>1. \A f \in (Filed \union creating \union posted)' : f.pid = pid /\ f.token \in Live => f.token \in known'
    BY <1>1, <1>3 DEF KnownInv
  <2>2. ASSUME a \notin Odd', NEW f \in Filed \union posted, f.token = a PROVE f.pid < pid
    <3>1. a \in Live /\ a \notin known
      BY <1>4, <2>2 DEF Odd
    <3>2. f.pid # pid
      BY <2>2, <3>1 DEF KnownInv
    <3>3. f.pid \in Nat /\ f.pid <= pid
      BY <2>2, FiledNamed
    <3> QED BY <1>2, <3>2, <3>3
  <2>3. ASSUME a \notin Odd' PROVE a \notin up
    BY <1>4, <2>3 DEF Odd, TypeInv
  <2>4. ASSUME NEW y \in creating' PROVE
            y.token \in Odd' \/ /\ \A f \in Filed \union posted : f.token = y.token => f.pid < y.pid
                                /\ y.pid = pid => y.token \notin up
    <3>1. CASE y = x
      BY <1>3, <2>2, <2>3, <3>1
    <3>2. CASE y \in creating
      BY <1>4, <3>2 DEF KnownInv, Odd
    <3> QED BY <1>3, <3>1, <3>2
  <2> QED BY <1>1, <2>1, <2>4 DEF KnownInv
<1>12. CreatingInv'
  BY <1>1, <1>3, <1>4 DEF CreatingInv, Odd
<1>13. ListedInv' /\ BackedInv' /\ MarkInv'
  BY <1>1, <1>4 DEF ListedInv, BackedInv, MarkInv, Odd
<1>14. JobInv' /\ SingleInv'
  BY <1>1, <1>4, SingleStays DEF Excused
<1> QED BY <1>5, <1>6, <1>7, <1>8, <1>9, <1>10, <1>11, <1>12, <1>13, <1>14

\* What is to be finished is known to its process, if that runs; and then it is
\* not about to be filed for it, unless it was launched twice.
LEMMA FinishMarkedStep ==
    ASSUME IInv, NEW x \in posted, FinishMarked(x)
    PROVE  IInv'
<1> USE DEF IInv, FinishMarked, Finish
<1> DEFINE a == x.token
<1>0. /\ a \in DOMAIN comp /\ a \in Token /\ x.pid \in Nat /\ x.pid <= pid /\ pid \in Nat
      /\ x = [token |-> a, pid |-> x.pid]
  BY Bounds, FiledNamed DEF NamedInv, TypeInv
<1>1. Filed' = Filed
  BY FiledStays
<1>2. CASE x.pid = pid /\ a \in known \ owed.silent
  <2>1. /\ stack' \in Seq(Seq(Token)) /\ DOMAIN stack' = DOMAIN stack /\ Len(stack') = Len(stack)
        /\ \A u, v \in DOMAIN stack : u # v => Range(stack'[u]) \intersect Range(stack'[v]) = {}
        /\ \A u \in DOMAIN stack : stack'[u] # <<>> => stack[u] # <<>> /\ Range(stack[u]) \ {a} # {}
        /\ Live' = Live \ {a}
        /\ \A b \in Live' : TaskOf(b)' = TaskOf(b)
    BY <1>2, Finished
  <2>2. UNCHANGED owed /\ reports' = reports \union {a} /\ up' = up \ {a} /\ posted' = posted \ {x}
    BY <1>2
  <2>3. TypeInv'
    BY <1>0, <2>1, <2>2 DEF TypeInv
  <2>4. NamedInv' /\ NoticeInv' /\ OnceInv' /\ OrderInv'
    BY <1>1, <2>1, <2>2 DEF NamedInv, NoticeInv, OnceInv, OrderInv, Odd
  <2>5. StackInv'
    BY <2>1, <2>2 DEF StackInv
  <2>6. HomeInv' /\ KnownInv'
    BY <1>1, <2>1, <2>2 DEF HomeInv, KnownInv, Odd
  <2>7. CreatingInv'
    <3> SUFFICES ASSUME NEW y \in creating, y.pid = pid, y.token = a PROVE y.token \in Odd
      BY <2>1, <2>2 DEF CreatingInv, Odd
    <3> QED BY <1>0, <1>2 DEF KnownInv
  <2>8. ListedInv'
    BY <1>1, <2>1, <2>2 DEF ListedInv, StackInv
  <2>9. BackedInv'
    BY <1>1, <2>1, <2>2 DEF BackedInv, Odd
  <2>10. MarkInv'
    BY <1>0, <2>1, <2>2 DEF MarkInv
  <2>11. JobInv' /\ SingleInv'
    BY <2>1, <2>2, SingleStays DEF Excused
  <2> QED BY <2>3, <2>4, <2>5, <2>6, <2>7, <2>8, <2>9, <2>10, <2>11
<1>3. CASE ~(x.pid = pid /\ a \in known \ owed.silent)
  <2>1. /\ UNCHANGED <<stack, up, reports>> /\ posted' = posted \ {x}
        /\ owed' = [owed EXCEPT !.spared = @ \union ({a} \intersect Live)]
    BY <1>3
  <2>2. /\ owed' \in OwedType /\ owed'.silent = owed.silent /\ owed'.again = owed.again
        /\ owed'.belated = owed.belated /\ owed'.unseen = owed.unseen
        /\ owed'.spared = owed.spared \union ({a} \intersect Live)
    BY <1>0, <2>1 DEF TypeInv, OwedType
  <2>3. Live' = Live /\ \A b : TaskOf(b)' = TaskOf(b)
    BY <2>1, LiveStays
  <2>4. x.pid = pid => a \notin Live
    BY <1>3 DEF KnownInv, StackInv
  <2>5. TypeInv' /\ NamedInv' /\ StackInv'
    BY <2>1, <2>2, <2>3 DEF TypeInv, NamedInv, StackInv
  <2>6. HomeInv' /\ NoticeInv' /\ OnceInv' /\ OrderInv'
    BY <1>1, <2>1, <2>2, <2>3 DEF HomeInv, NoticeInv, OnceInv, OrderInv, Odd
  <2>7. KnownInv' /\ CreatingInv'
    BY <1>1, <2>1, <2>2, <2>3 DEF KnownInv, CreatingInv, Odd
  <2>8. ListedInv' /\ BackedInv'
    BY <1>1, <2>1, <2>2, <2>3 DEF ListedInv, BackedInv, Odd
  <2>9. MarkInv'
    BY <1>0, <2>1, <2>2, <2>3, <2>4 DEF MarkInv
  <2>10. JobInv' /\ SingleInv'
    BY <2>1, <2>2, <2>3, SingleStays DEF Excused
  <2> QED BY <2>5, <2>6, <2>7, <2>8, <2>9, <2>10
<1> QED BY <1>2, <1>3


-----------------------------------------------------------------------------
(* What the server remembers                                               *)

\* The tasks that Android has forgotten are left out.
LEMMA OptimizedIs ==
    ASSUME TypeInv
    PROVE  /\ DOMAIN Optimized = DOMAIN mHistory \intersect recents
           /\ \A t \in DOMAIN Optimized :
                 /\ Optimized[t] = mHistory[t] /\ Optimized[t] \in TaskRecord
                 /\ Optimized[t].activities \in Seq(ActivityRecord)
<1>1. Optimized = [t \in DOMAIN mHistory \intersect recents |-> mHistory[t]]
  BY DEF Optimized, Restrict
<1>2. \A t \in DOMAIN mHistory : mHistory[t] \in TaskRecord
  BY DEF TypeInv
<1>3. \A h \in TaskRecord : h.activities \in Seq(ActivityRecord)
  BY DEF TaskRecord
<1> QED BY <1>1, <1>2, <1>3

\* A record, and its entry in what is filed.
LEMMA InFiled ==
    ASSUME TypeInv, NamedInv, NEW t \in DOMAIN mHistory, NEW i \in DOMAIN mHistory[t].activities
    PROVE  LET r == mHistory[t].activities[i] IN
           /\ r \in ActivityRecord
           /\ [token |-> r.token, pid |-> r.pid, task |-> t] \in Filed
           /\ r.token \in DOMAIN comp /\ r.component = comp[r.token]
<1> DEFINE r == mHistory[t].activities[i]
<1>1. r \in ActivityRecord
  <2>1. mHistory[t] \in TaskRecord
    BY DEF TypeInv
  <2>2. mHistory[t].activities \in Seq(ActivityRecord)
    BY <2>1 DEF TaskRecord
  <2> QED BY <2>2
<1>2. r.token \in DOMAIN comp /\ r.component = comp[r.token]
  BY DEF NamedInv
<1>3. t \in Task \union {NoTask}
  BY Bounds DEF NamedInv
<1>4. [token |-> r.token, pid |-> r.pid, task |-> t] \in Creation
  BY <1>1, <1>3 DEF ActivityRecord, Creation
<1> HIDE DEF r
<1>5. [token |-> r.token, pid |-> r.pid, task |-> t] \in Filed
  BY <1>4 DEF Filed, r
<1> QED BY <1>1, <1>2, <1>5 DEF r

\* The operation that goes on keeps its component, and a task or a token.
LEMMA KeptJob ==
    ASSUME TypeInv, KeepJob
    PROVE  /\ job' \in [comp : Comp, task : Task \union {NoTask}, last : Token \union {0}]
           /\ job'.comp = job.comp
<1>1. job \in [comp : Comp, task : Task \union {NoTask}, last : Token \union {0}]
  BY DEF TypeInv
<1>2. CASE job.task \in DOMAIN mHistory \ recents
  <2> DEFINE as == mHistory[job.task].activities
  <2>1. as \in Seq(ActivityRecord)
    <3>1. mHistory[job.task] \in TaskRecord
      BY <1>2 DEF TypeInv
    <3> QED BY <3>1 DEF TaskRecord
  <2> HIDE DEF as
  <2>2. LastToken(as) \in Token \union {0}
    <3>1. CASE as = <<>>
      BY <3>1 DEF LastToken
    <3>2. CASE as # <<>>
      <4>1. Last(as) \in ActivityRecord
        BY <2>1, <3>2, RangeNotEmpty
      <4>2. Last(as).token \in Token
        BY <4>1 DEF ActivityRecord
      <4> QED BY <3>2, <4>2 DEF LastToken
    <3> QED BY <3>1, <3>2
  <2>3. job' = [job EXCEPT !.task = NoTask, !.last = LastToken(as)]
    BY <1>2 DEF KeepJob, as
  <2> QED BY <1>1, <2>2, <2>3
<1>3. CASE job.task \notin DOMAIN mHistory \ recents
  BY <1>1, <1>3 DEF KeepJob
<1> QED BY <1>2, <1>3

\* The last record of an activity, when it has one.
LEMMA PlaceIs ==
    ASSUME TypeInv, NEW a, Places(Optimized, a) # {}
    PROVE  LET p == Place(Optimized, a) IN
           /\ p[1] \in DOMAIN Optimized /\ p[2] \in DOMAIN Optimized[p[1]].activities
           /\ Optimized[p[1]].activities[p[2]].token = a
           /\ \A i \in DOMAIN Optimized[p[1]].activities :
                 Optimized[p[1]].activities[i].token = a => i <= p[2]
<1> DEFINE at(t) == {i \in DOMAIN Optimized[t].activities : Optimized[t].activities[i].token = a}
           ts == {t \in DOMAIN Optimized : at(t) # {}}
<1>1. ASSUME NEW q PROVE q \in Places(Optimized, a) <=>
                             \E t \in DOMAIN Optimized : \E i \in at(t) : q = <<t, i>>
  BY DEF Places
<1>2. \A t \in DOMAIN Optimized : \A i \in at(t) : t \in 0..MaxStarts /\ i \in Nat
  <2>1. DOMAIN Optimized \subseteq DOMAIN stack
    BY OptimizedIs DEF TypeInv
  <2>2. \A t \in DOMAIN stack : t \in 0..MaxStarts
    BY Bounds DEF Task
  <2>3. \A t \in DOMAIN Optimized : Optimized[t].activities \in Seq(ActivityRecord)
    BY OptimizedIs
  <2>4. \A t \in DOMAIN Optimized : DOMAIN Optimized[t].activities \subseteq Nat
    BY <2>3
  <2> QED BY <2>1, <2>2, <2>4
<1>3. PICK t \in ts : \A u \in ts : t >= u
  <2>1. ts # {}
    BY <1>1
  <2>2. ts \subseteq 0..MaxStarts
    BY <1>2
  <2> HIDE DEF ts
  <2> QED BY <2>1, <2>2, GreatestExists, ActivityTasksAssumption
<1>4. PICK i \in at(t) : \A j \in at(t) : i >= j
  <2>1. Optimized[t].activities \in Seq(ActivityRecord)
    BY OptimizedIs
  <2>2. Len(Optimized[t].activities) \in Nat /\ DOMAIN Optimized[t].activities = 1..Len(Optimized[t].activities)
    BY <2>1
  <2>3. at(t) \subseteq 0..Len(Optimized[t].activities) /\ at(t) # {}
    BY <2>2
  <2> HIDE DEF at
  <2> QED BY <2>2, <2>3, GreatestExists
<1> DEFINE p == <<t, i>>
           Greatest(q) == q \in Places(Optimized, a) /\ \A r \in Places(Optimized, a) :
                              q[1] > r[1] \/ (q[1] = r[1] /\ q[2] >= r[2])
<1>5. Greatest(p)
  <2>1. p \in Places(Optimized, a)
    BY <1>1, <1>3, <1>4
  <2>2. ASSUME NEW r \in Places(Optimized, a) PROVE p[1] > r[1] \/ (p[1] = r[1] /\ p[2] >= r[2])
    <3>0. PICK u \in DOMAIN Optimized : \E j \in at(u) : r = <<u, j>>
      BY <1>1
    <3>1. PICK j \in at(u) : r = <<u, j>>
      BY <3>0
    <3>2. t >= u /\ t \in Nat /\ u \in Nat
      BY <1>2, <1>3, <1>4, <3>1, ActivityTasksAssumption
    <3>3. CASE t = u
      BY <1>4, <3>1, <3>3
    <3>4. CASE t # u
      BY <3>1, <3>2, <3>4
    <3> QED BY <3>3, <3>4
  <2> QED BY <2>1, <2>2
<1>6. Greatest(Place(Optimized, a))
  <2>1. Place(Optimized, a) = CHOOSE q : Greatest(q)
    BY DEF Place
  <2> HIDE DEF Greatest, p
  <2> QED BY <1>5, <2>1
<1>7. PICK u \in DOMAIN Optimized : \E j \in at(u) : Place(Optimized, a) = <<u, j>>
  BY <1>1, <1>6
<1>8. PICK j \in at(u) : Place(Optimized, a) = <<u, j>>
  BY <1>7
<1>9. ASSUME NEW k \in DOMAIN Optimized[u].activities, Optimized[u].activities[k].token = a PROVE k <= j
  <2>1. k \in at(u) /\ <<u, k>> \in Places(Optimized, a)
    BY <1>1, <1>9
  <2>2. u > u \/ (u = u /\ j >= k)
    BY <1>6, <1>8, <2>1
  <2>3. u \in Nat /\ k \in Nat /\ j \in Nat
    BY <1>2, <1>8, <2>1, ActivityTasksAssumption
  <2> QED BY <2>2, <2>3
<1> QED BY <1>8, <1>9

\* mHistory keeps some of its records, in tasks that Android has.
Narrowed ==
    /\ mHistory' \in [DOMAIN mHistory' -> TaskRecord]
    /\ DOMAIN mHistory' \subseteq DOMAIN mHistory \intersect recents
    /\ \A t \in DOMAIN mHistory' : Kept(mHistory'[t].activities, mHistory[t].activities)

\* What is filed then was filed before.
LEMMA NarrowedFiled ==
    ASSUME TypeInv, Narrowed
    PROVE  \A f \in Filed' : f \in Filed /\ f.task \in recents
<1> SUFFICES ASSUME NEW f \in Filed' PROVE f \in Filed /\ f.task \in recents
  OBVIOUS
<1>1. f \in Creation /\ f.task \in DOMAIN mHistory'
  BY DEF Filed
<1>2. PICK i \in DOMAIN mHistory'[f.task].activities :
          mHistory'[f.task].activities[i].token = f.token /\ mHistory'[f.task].activities[i].pid = f.pid
  BY DEF Filed
<1>3. PICK k \in DOMAIN mHistory[f.task].activities :
          Same(mHistory'[f.task].activities[i], mHistory[f.task].activities[k])
  BY <1>1, <1>2 DEF Narrowed, Kept
<1>4. f.task \in DOMAIN mHistory \intersect recents
  BY <1>1 DEF Narrowed
<1> QED BY <1>1, <1>2, <1>3, <1>4 DEF Filed, Same

\* What holds of the records, however many are kept.
LEMMA NarrowedStep ==
    ASSUME IInv, Narrowed, UNCHANGED <<android, pid, launch, up, creating>>,
           owed'.silent = owed.silent, owed'.again = owed.again
    PROVE  /\ DOMAIN mHistory' \subseteq DOMAIN stack' \union {NoTask}
           /\ \A t \in DOMAIN mHistory' : \A i \in DOMAIN mHistory'[t].activities :
                 LET r == mHistory'[t].activities[i] IN
                 r.token \in DOMAIN comp' /\ r.component = comp'[r.token] /\ r.pid <= pid'
           /\ HomeInv' /\ OnceInv' /\ OrderInv' /\ CreatingInv'
<1> USE DEF IInv, android
<1>1. \A f \in Filed' : f \in Filed /\ f.task \in recents
  BY NarrowedFiled
<1>2. Live' = Live /\ \A b : TaskOf(b)' = TaskOf(b)
  BY LiveStays
<1>3. DOMAIN mHistory' \subseteq DOMAIN stack \union {NoTask}
  BY DEF Narrowed, NamedInv
<1>4. ASSUME NEW t \in DOMAIN mHistory', NEW i \in DOMAIN mHistory'[t].activities
      PROVE  LET r == mHistory'[t].activities[i] IN
             r.token \in DOMAIN comp /\ r.component = comp[r.token] /\ r.pid <= pid
  <2>1. PICK k \in DOMAIN mHistory[t].activities :
            Same(mHistory'[t].activities[i], mHistory[t].activities[k])
    BY DEF Narrowed, Kept
  <2> QED BY <2>1 DEF Narrowed, NamedInv, Same
<1>5. HomeInv' /\ OnceInv' /\ CreatingInv'
  BY <1>1, <1>2 DEF HomeInv, OnceInv, CreatingInv, Odd
<1>6. OrderInv'
  <2> SUFFICES ASSUME NEW t \in DOMAIN mHistory', NEW i \in DOMAIN mHistory'[t].activities,
                      NEW j \in DOMAIN mHistory'[t].activities, i < j,
                      mHistory'[t].activities[i].token = mHistory'[t].activities[j].token
               PROVE  \/ mHistory'[t].activities[i].token \in Odd'
                      \/ mHistory'[t].activities[i].pid < mHistory'[t].activities[j].pid
    BY DEF OrderInv
  <2> DEFINE v == mHistory'[t].activities
             w == mHistory[t].activities
  <2>1. Kept(v, w) /\ t \in DOMAIN mHistory
    BY DEF Narrowed
  <2>2. PICK k \in DOMAIN w, l \in DOMAIN w : k < l /\ Same(v[i], w[k]) /\ Same(v[j], w[l])
    BY <2>1 DEF Kept
  <2>3. w[k].token \in Odd \/ w[k].pid < w[l].pid
    BY <2>1, <2>2 DEF OrderInv, Same
  <2> HIDE DEF v, w
  <2>4. v[i].token \in Odd \/ v[i].pid < v[j].pid
    BY <2>2, <2>3 DEF Same
  <2> QED BY <2>4 DEF v, Odd
<1> QED BY <1>3, <1>4, <1>5, <1>6

\* And of their marks, if none is new.
LEMMA NarrowedMarks ==
    ASSUME IInv, Narrowed, UNCHANGED <<android, pid, posted>>, owed'.spared = owed.spared,
           \A t \in DOMAIN mHistory' : Unmarked(mHistory'[t].activities, mHistory[t].activities)
    PROVE  MarkInv'
<1> USE DEF IInv, android
<1>1. Live' = Live
  BY LiveStays
<1> SUFFICES ASSUME NEW t \in DOMAIN mHistory', NEW i \in DOMAIN mHistory'[t].activities,
                    mHistory'[t].activities[i].marked, mHistory'[t].activities[i].token \in Live
             PROVE  LET r == mHistory'[t].activities[i] IN
                    /\ r.pid = pid => [token |-> r.token, pid |-> r.pid] \in posted
                    /\ r.token \in owed.spared \union {x.token : x \in posted}
  BY <1>1 DEF MarkInv
<1>2. PICK k \in DOMAIN mHistory[t].activities :
          mHistory[t].activities[k].marked /\ Same(mHistory'[t].activities[i], mHistory[t].activities[k])
  BY DEF Unmarked
<1>3. t \in DOMAIN mHistory \intersect recents
  BY DEF Narrowed
<1> QED BY <1>2, <1>3 DEF MarkInv, Same

-----------------------------------------------------------------------------
(* The steps in which the server hears of the activities                   *)

\* What these steps have in common, but for that which files a record.
LEMMA HearsStep ==
    ASSUME IInv, Narrowed, KeepJob, UNCHANGED <<pc, posted, android, pid, launch, up, creating, spent, owed>>,
           \A t \in DOMAIN mHistory' : Unmarked(mHistory'[t].activities, mHistory[t].activities),
           up \subseteq known', known' \subseteq known, reports' \subseteq reports, notices' \subseteq notices,
           \A a \in known : a \in Live => a \in known'
    PROVE  /\ TypeInv' /\ NamedInv' /\ StackInv' /\ HomeInv' /\ OnceInv' /\ KnownInv'
           /\ CreatingInv' /\ OrderInv' /\ MarkInv' /\ JobInv' /\ SingleInv'
<1> USE DEF IInv, android
<1>1. Live' = Live /\ \A b : TaskOf(b)' = TaskOf(b)
  BY LiveStays
<1>2. \A f \in Filed' : f \in Filed
  BY NarrowedFiled
<1>3. TypeInv'
  BY KeptJob DEF TypeInv, Narrowed
<1>4. /\ DOMAIN mHistory' \subseteq DOMAIN stack' \union {NoTask}
      /\ \A t \in DOMAIN mHistory' : \A i \in DOMAIN mHistory'[t].activities :
            LET r == mHistory'[t].activities[i] IN
            r.token \in DOMAIN comp' /\ r.component = comp'[r.token] /\ r.pid <= pid'
      /\ HomeInv' /\ OnceInv' /\ OrderInv' /\ CreatingInv'
  BY NarrowedStep
<1>5. NamedInv'
  BY <1>4 DEF NamedInv
<1>6. StackInv'
  BY <1>1 DEF StackInv
<1>7. KnownInv'
  <2>1. \A f \in (Filed \union creating \union posted)' : f.pid = pid /\ f.token \in Live => f.token \in known'
    BY <1>2 DEF KnownInv
  <2>2. \A x \in creating : x.token \in Odd \/
            /\ \A f \in (Filed \union posted)' : f.token = x.token => f.pid < x.pid
            /\ x.pid = pid => x.token \notin up
    BY <1>2 DEF KnownInv
  <2> QED BY <1>1, <2>1, <2>2 DEF KnownInv, Odd
<1>8. MarkInv'
  BY NarrowedMarks
<1>9. JobInv' /\ SingleInv'
  BY <1>1, KeptJob, SingleStays DEF Excused
<1> QED BY <1>3, <1>4, <1>5, <1>6, <1>7, <1>8, <1>9

\* Records that are all kept, in tasks that Android has.
LEMMA AllKept ==
    ASSUME IInv, NEW h, h \in [DOMAIN Optimized -> TaskRecord], mHistory' = h,
           \A t \in DOMAIN Optimized : LET v == h[t].activities
                                           w == Optimized[t].activities IN
              Kept(v, w) /\ \A j \in DOMAIN w : \E i \in DOMAIN v : Same(v[i], w[j])
    PROVE  Narrowed /\ \A f \in Filed : f.task \in recents => f \in Filed'
<1>1. /\ DOMAIN h = DOMAIN mHistory \intersect recents
      /\ \A t \in DOMAIN h : Optimized[t] = mHistory[t]
  BY OptimizedIs DEF IInv
<1>2. Narrowed
  BY <1>1 DEF Narrowed
<1>3. ASSUME NEW f \in Filed, f.task \in recents PROVE f \in Filed'
  <2>1. f \in Creation /\ f.task \in DOMAIN h
    BY <1>1, <1>3 DEF Filed
  <2>2. PICK j \in DOMAIN mHistory[f.task].activities :
            mHistory[f.task].activities[j].token = f.token /\ mHistory[f.task].activities[j].pid = f.pid
    BY DEF Filed
  <2>3. PICK i \in DOMAIN h[f.task].activities :
            Same(h[f.task].activities[i], mHistory[f.task].activities[j])
    BY <1>1, <2>1, <2>2
  <2> QED BY <2>1, <2>2, <2>3 DEF Filed, Same
<1> QED BY <1>2, <1>3

\* So when nothing else is done.
LEMMA OptimizedKept ==
    ASSUME IInv, mHistory' = Optimized
    PROVE  /\ Narrowed
           /\ \A t \in DOMAIN mHistory' : Unmarked(mHistory'[t].activities, mHistory[t].activities)
           /\ \A f \in Filed : f.task \in recents => f \in Filed'
<1>1. \A t \in DOMAIN Optimized : Optimized[t] \in TaskRecord /\ Optimized[t] = mHistory[t]
  BY OptimizedIs DEF IInv
<1>2. Optimized = [t \in DOMAIN Optimized |-> Optimized[t]]
  BY DEF Optimized, Restrict
<1>3. Optimized \in [DOMAIN Optimized -> TaskRecord]
  <2> HIDE DEF Optimized
  <2> QED BY <1>1, <1>2
<1>4. \A w : Kept(w, w) /\ \A j \in DOMAIN w : \E i \in DOMAIN w : Same(w[i], w[j])
  BY SameKept DEF Same
<1>5. Narrowed /\ \A f \in Filed : f.task \in recents => f \in Filed'
  BY <1>3, <1>4, AllKept
<1>6. \A t \in DOMAIN mHistory' : Unmarked(mHistory'[t].activities, mHistory[t].activities)
  BY <1>1, SameKept
<1> QED BY <1>5, <1>6

\* Optimized, with other activities in one task.
LEMMA Replaced ==
    ASSUME TypeInv, NEW t \in DOMAIN Optimized, NEW v \in Seq(ActivityRecord)
    PROVE  LET h == [Optimized EXCEPT ![t].activities = v] IN
           /\ h \in [DOMAIN Optimized -> TaskRecord]
           /\ h[t].activities = v
           /\ \A u \in DOMAIN Optimized : u # t => h[u] = Optimized[u]
           /\ \A u \in DOMAIN Optimized : h[u].affinity = Optimized[u].affinity /\ h[u].root = Optimized[u].root
<1> DEFINE h == [Optimized EXCEPT ![t].activities = v]
<1>1. DOMAIN h = DOMAIN Optimized
  OBVIOUS
<1>2. ASSUME NEW u \in DOMAIN Optimized
      PROVE  /\ h[u] \in TaskRecord /\ h[u].affinity = Optimized[u].affinity /\ h[u].root = Optimized[u].root
             /\ h[u].activities = IF u = t THEN v ELSE Optimized[u].activities
  <2>1. Optimized[u] \in TaskRecord
    BY OptimizedIs
  <2>2. h[u] = IF u = t THEN [Optimized[u] EXCEPT !.activities = v] ELSE Optimized[u]
    OBVIOUS
  <2> HIDE DEF h
  <2> QED BY <2>1, <2>2 DEF TaskRecord
<1>3. h = [u \in DOMAIN Optimized |-> h[u]] /\ \A u \in DOMAIN Optimized : u # t => h[u] = Optimized[u]
  OBVIOUS
<1> HIDE DEF h
<1>4. h \in [DOMAIN Optimized -> TaskRecord]
  BY <1>2, <1>3
<1> QED BY <1>2, <1>3, <1>4 DEF h

\* The record goes to the top of its task.
LEMMA OnActivityResumedStep ==
    ASSUME IInv, NEW t \in DOMAIN stack, OnActivityResumed(t)
    PROVE  IInv'
<1> USE DEF IInv, android, process, calls
<1> DEFINE a == Last(stack[t])
           p == Place(Optimized, a)
           as == Optimized[p[1]].activities
           moved == Append(RemoveAt(as, p[2]), as[p[2]])
<1>1. KeepJob /\ UNCHANGED <<pc, posted, android, process, calls, spent, owed>>
  BY DEF OnActivityResumed
<1>2. mHistory' = IF Places(Optimized, a) = {} THEN Optimized
                  ELSE [Optimized EXCEPT ![p[1]].activities = moved]
  BY DEF OnActivityResumed
<1>3. /\ Narrowed
      /\ \A u \in DOMAIN mHistory' : Unmarked(mHistory'[u].activities, mHistory[u].activities)
      /\ \A f \in Filed : f.task \in recents => f \in Filed'
  <2>1. CASE Places(Optimized, a) = {}
    BY <1>2, <2>1, OptimizedKept
  <2>2. CASE Places(Optimized, a) # {}
    <3>1. /\ p[1] \in DOMAIN Optimized /\ p[2] \in DOMAIN as /\ as[p[2]].token = a
          /\ \A i \in DOMAIN as : as[i].token = a => i <= p[2]
      BY <2>2, PlaceIs
    <3>2. as \in Seq(ActivityRecord) /\ Optimized[p[1]] \in TaskRecord
      BY <3>1, OptimizedIs
    <3> HIDE DEF p
    <3>3. /\ moved \in Seq(ActivityRecord) /\ Kept(moved, as) /\ Unmarked(moved, as)
          /\ \A j \in DOMAIN as : \E i \in DOMAIN moved : moved[i] = as[j]
      <4> HIDE DEF as
      <4> QED BY <3>1, <3>2, MovedKept
    <3> DEFINE h == [Optimized EXCEPT ![p[1]].activities = moved]
    <3>4. /\ h \in [DOMAIN Optimized -> TaskRecord] /\ h[p[1]].activities = moved
          /\ \A u \in DOMAIN Optimized : u # p[1] => h[u] = Optimized[u]
      <4> HIDE DEF moved, as
      <4> QED BY <3>1, <3>3, Replaced
    <3>5. mHistory' = h
      BY <1>2, <2>2
    <3> HIDE DEF h, moved
    <3>6. ASSUME NEW u \in DOMAIN Optimized
          PROVE  LET v == h[u].activities
                     w == Optimized[u].activities IN
                 /\ Kept(v, w) /\ Unmarked(v, w)
                 /\ \A j \in DOMAIN w : \E i \in DOMAIN v : Same(v[i], w[j])
      <4>1. CASE u = p[1]
        BY <3>3, <3>4, <4>1 DEF Same
      <4>2. CASE u # p[1]
        BY <3>4, <4>2, SameKept DEF Same
      <4> QED BY <4>1, <4>2
    <3>7. \A u \in DOMAIN h : Optimized[u] = mHistory[u]
      BY <3>4, OptimizedIs
    <3> QED BY <3>4, <3>5, <3>6, <3>7, AllKept
  <2> QED BY <2>1, <2>2
<1>4. /\ TypeInv' /\ NamedInv' /\ StackInv' /\ HomeInv' /\ OnceInv' /\ KnownInv'
      /\ CreatingInv' /\ OrderInv' /\ MarkInv' /\ JobInv' /\ SingleInv'
  <2>1. up \subseteq known
    BY DEF TypeInv
  <2> QED BY <1>1, <1>3, <2>1, HearsStep
<1>5. \A f \in Filed' : f \in Filed
  BY <1>3, NarrowedFiled
<1>6. Live' = Live /\ \A b : TaskOf(b)' = TaskOf(b)
  BY <1>1, LiveStays
<1>7. NoticeInv' /\ BackedInv'
  BY <1>1, <1>5, <1>6 DEF NoticeInv, BackedInv, Odd
<1>8. ListedInv'
  <2>1. \A b \in up : TaskOf(b) \in recents
    BY TaskOfIs DEF StackInv
  <2> QED BY <1>1, <1>3, <1>6, <2>1 DEF ListedInv
<1> QED BY <1>4, <1>7, <1>8

\* The record that goes is the last of an activity that has ended. One that is
\* left is of a process that died earlier, or the activity was launched twice.
LEMMA OnActivityDestroyedStep ==
    ASSUME IInv, NEW a, OnActivityDestroyed(a)
    PROVE  IInv'
<1> USE DEF IInv, android
<1> DEFINE p == Place(Optimized, a)
           as == Optimized[p[1]].activities
           less == RemoveAt(as, p[2])
<1>1. /\ KeepJob /\ a \in reports /\ reports' = reports \ {a} /\ known' = known \ {a}
      /\ UNCHANGED <<pc, posted, android, pid, launch, up, creating, notices, spent, owed>>
  BY DEF OnActivityDestroyed
<1>2. mHistory' = IF Places(Optimized, a) = {} THEN Optimized
                  ELSE [Optimized EXCEPT ![p[1]].activities = less]
  BY DEF OnActivityDestroyed
<1>3. /\ DOMAIN Optimized = DOMAIN mHistory \intersect recents
      /\ \A u \in DOMAIN Optimized : Optimized[u] = mHistory[u] /\ Optimized[u] \in TaskRecord
  BY OptimizedIs
<1>4. Live' = Live /\ (\A b : TaskOf(b)' = TaskOf(b)) /\ a \notin Live
  BY <1>1, LiveStays DEF StackInv
<1>5. /\ Narrowed
      /\ \A u \in DOMAIN mHistory' : Unmarked(mHistory'[u].activities, mHistory[u].activities)
      /\ \A f \in Filed : f.task \in recents /\ f.token # a => f \in Filed'
      /\ \A f \in Filed' : f.token = a => f.token \in Odd \/ f.pid < pid
  <2>1. CASE Places(Optimized, a) = {}
    <3>2. mHistory' = Optimized
      BY <1>2, <2>1
    <3>3. /\ Narrowed
          /\ \A u \in DOMAIN mHistory' : Unmarked(mHistory'[u].activities, mHistory[u].activities)
          /\ \A f \in Filed : f.task \in recents => f \in Filed'
      BY <3>2, OptimizedKept
    <3>4. ASSUME NEW f \in Filed', f.token = a PROVE FALSE
      <4>1. PICK i \in DOMAIN Optimized[f.task].activities : Optimized[f.task].activities[i].token = a
        BY <3>2, <3>4 DEF Filed
      <4>2. f.task \in DOMAIN Optimized
        BY <3>2 DEF Filed
      <4>3. <<f.task, i>> \in Places(Optimized, a)
        BY <4>1, <4>2 DEF Places
      <4> QED BY <2>1, <4>3
    <3> QED BY <3>3, <3>4
  <2>2. CASE Places(Optimized, a) # {}
    <3>1. /\ p[1] \in DOMAIN Optimized /\ p[2] \in DOMAIN as /\ as[p[2]].token = a
          /\ \A i \in DOMAIN as : as[i].token = a => i <= p[2]
      BY <2>2, PlaceIs
    <3> DEFINE t == p[1]
               k == p[2]
    <3>2. as \in Seq(ActivityRecord) /\ as = mHistory[t].activities /\ t \in DOMAIN mHistory \intersect recents
      BY <1>3, <3>1, OptimizedIs
    <3>3. /\ less \in Seq(ActivityRecord) /\ Kept(less, as) /\ Unmarked(less, as)
          /\ \A i \in DOMAIN less : \E j \in DOMAIN as : j # k /\ less[i] = as[j]
          /\ \A j \in DOMAIN as : j # k => \E i \in DOMAIN less : less[i] = as[j]
      <4> HIDE DEF as, k, p
      <4> QED BY <3>1, <3>2, RemovedKept DEF k
    <3> DEFINE h == [Optimized EXCEPT ![t].activities = less]
    <3>4. mHistory' = h
      BY <1>2, <2>2
    <3>5. /\ h \in [DOMAIN Optimized -> TaskRecord] /\ h[t].activities = less
          /\ \A u \in DOMAIN Optimized : u # t => h[u] = Optimized[u]
      <4> HIDE DEF p, less, as
      <4> QED BY <3>1, <3>3, Replaced
    <3> HIDE DEF h, less, t, k
    <3>6. Narrowed
      BY <1>3, <3>2, <3>3, <3>4, <3>5, SameKept DEF Narrowed
    <3>7. \A u \in DOMAIN mHistory' : Unmarked(mHistory'[u].activities, mHistory[u].activities)
      <4> SUFFICES ASSUME NEW u \in DOMAIN mHistory'
                   PROVE  Unmarked(mHistory'[u].activities, mHistory[u].activities)
        OBVIOUS
      <4> HIDE DEF as
      <4>1. CASE u = t
        BY <3>2, <3>3, <3>4, <3>5, <4>1
      <4>2. CASE u # t
        <5>1. mHistory'[u] = mHistory[u]
          BY <1>3, <3>4, <3>5, <4>2
        <5> QED BY <5>1, SameKept
      <4> QED BY <4>1, <4>2
    <3>8. ASSUME NEW f \in Filed, f.task \in recents, f.token # a PROVE f \in Filed'
      <4>1. f \in Creation /\ f.task \in DOMAIN h
        BY <1>3, <3>5, <3>8 DEF Filed
      <4>2. PICK j \in DOMAIN mHistory[f.task].activities :
                mHistory[f.task].activities[j].token = f.token /\ mHistory[f.task].activities[j].pid = f.pid
        BY DEF Filed
      <4>3. \E i \in DOMAIN h[f.task].activities : h[f.task].activities[i] = mHistory[f.task].activities[j]
        <5>1. CASE f.task = t
          <6>1. j # k
            BY <3>1, <3>2, <3>8, <4>2, <5>1 DEF k, t
          <6> QED BY <3>2, <3>3, <3>5, <4>2, <5>1, <6>1
        <5>2. CASE f.task # t
          BY <1>3, <3>5, <4>1, <4>2, <5>2
        <5> QED BY <5>1, <5>2
      <4> QED BY <3>4, <4>1, <4>2, <4>3 DEF Filed
    <3>9. ASSUME NEW f \in Filed', f.token = a PROVE a \in Odd \/ f.pid < pid
      <4>1. f \in Filed /\ f.task \in DOMAIN h
        BY <3>4, <3>6, NarrowedFiled DEF Filed
      <4> DEFINE r == mHistory[t].activities[k]
                 g == [token |-> r.token, pid |-> r.pid, task |-> t]
      <4>2. r.token = a /\ k \in DOMAIN mHistory[t].activities /\ t \in DOMAIN mHistory
        BY <3>1, <3>2 DEF k, t
      <4>3. g \in Filed /\ r \in ActivityRecord
        BY <4>2, InFiled
      <4>4. CASE f.task # t
        <5>1. f.token = g.token /\ f.task # g.task
          BY <3>9, <4>2, <4>4
        <5> HIDE DEF g
        <5> QED BY <3>9, <4>1, <4>3, <5>1 DEF HomeInv, Odd
      <4>5. CASE f.task = t
        <5>1. PICK i \in DOMAIN less : less[i].token = a /\ less[i].pid = f.pid
          BY <3>4, <3>5, <3>9, <4>5 DEF Filed
        <5>2. PICK j \in DOMAIN as : j # k /\ less[i] = as[j]
          BY <3>3, <5>1
        <5>3. j <= k /\ j \in Nat /\ k \in Nat
          BY <3>1, <3>2, <5>1, <5>2 DEF k
        <5>4. j < k
          BY <5>2, <5>3
        <5>5. a \in Odd \/ f.pid < r.pid
          BY <3>2, <4>2, <5>1, <5>2, <5>4 DEF OrderInv
        <5>6. g.pid = r.pid /\ g.pid \in Nat /\ g.pid <= pid
          BY <4>3, FiledNamed
        <5>7. f.pid \in Nat /\ pid \in Nat
          BY <4>1, FiledNamed DEF TypeInv
        <5> HIDE DEF g, r
        <5> QED BY <5>5, <5>6, <5>7
      <4> QED BY <4>4, <4>5
    <3> QED BY <3>6, <3>7, <3>8, <3>9
  <2> QED BY <2>1, <2>2
<1>6. /\ TypeInv' /\ NamedInv' /\ StackInv' /\ HomeInv' /\ OnceInv' /\ KnownInv'
      /\ CreatingInv' /\ OrderInv' /\ MarkInv' /\ JobInv' /\ SingleInv'
  <2>1. up \subseteq known'
    BY <1>1, <1>4 DEF TypeInv, StackInv
  <2>2. \A b \in known : b \in Live => b \in known'
    BY <1>1, <1>4
  <2> HIDE DEF IInv
  <2> QED BY <1>1, <1>5, <2>1, <2>2, HearsStep
<1>7. \A f \in Filed' : f \in Filed /\ f.pid \in Nat /\ pid \in Nat
  BY <1>5, NarrowedFiled, FiledNamed DEF TypeInv
<1>8. NoticeInv'
  BY <1>1, <1>7 DEF NoticeInv
<1>9. BackedInv'
  <2> SUFFICES ASSUME NEW f \in Filed', f.task \in recents
               PROVE  \/ f.token \in Live \union reports' \/ f.pid \in notices
                      \/ f.token \in Odd \union owed.belated
    BY <1>1, <1>4 DEF BackedInv, Odd
  <2>1. CASE f.token = a
    <3>1. CASE f.pid < pid
      <4>1. f.pid # pid
        BY <1>7, <3>1
      <4> QED BY <1>7, <4>1 DEF NoticeInv
    <3>2. CASE f.token \in Odd
      BY <3>2
    <3> QED BY <1>5, <2>1, <3>1, <3>2
  <2>2. CASE f.token # a
    BY <1>1, <1>7, <2>2 DEF BackedInv
  <2> QED BY <2>1, <2>2
<1>10. ListedInv'
  <2>1. \A b \in up : TaskOf(b) \in recents /\ b # a
    BY <1>4, TaskOfIs DEF StackInv
  <2> QED BY <1>1, <1>4, <1>5, <2>1 DEF ListedInv
<1> QED BY <1>6, <1>8, <1>9, <1>10

\* The records of the process that has died go, and no others.
LEMMA ProcessDiedStep ==
    ASSUME IInv, NEW p, ProcessDied(p)
    PROVE  IInv'
<1> USE DEF IInv, android, process
<1> DEFINE of(t) == {r \in Range(Optimized[t].activities) : r.pid = p}
           left(t) == Without(Optimized[t].activities, of(t))
           ts == {u \in DOMAIN Optimized : left(u) # <<>> \/ Optimized[u].activities = <<>>}
           h == [t \in ts |-> [Optimized[t] EXCEPT !.activities = left(t)]]
<1>1. /\ KeepJob /\ p \in notices /\ notices' = notices \ {p} /\ mHistory' = h
      /\ UNCHANGED <<pc, posted, android, process, creating, reports, spent, owed>>
  BY DEF ProcessDied
<1>2. /\ DOMAIN Optimized = DOMAIN mHistory \intersect recents
      /\ \A u \in DOMAIN Optimized : Optimized[u] = mHistory[u] /\ Optimized[u] \in TaskRecord
  BY OptimizedIs
<1>3. ASSUME NEW t \in DOMAIN Optimized
      PROVE  LET v == left(t)
                 w == Optimized[t].activities IN
             /\ v \in Seq(ActivityRecord) /\ Kept(v, w) /\ Unmarked(v, w)
             /\ \A i \in DOMAIN v : v[i].pid # p
             /\ \A j \in DOMAIN w : w[j].pid # p => \E i \in DOMAIN v : v[i] = w[j]
  <2> DEFINE w == Optimized[t].activities
             rs == of(t)
             v == Without(w, rs)
  <2>1. w \in Seq(ActivityRecord)
    BY OptimizedIs
  <2>2. rs = {r \in Range(w) : r.pid = p}
    OBVIOUS
  <2> HIDE DEF w, rs
  <2>3. /\ v \in Seq(ActivityRecord) /\ Kept(v, w) /\ Unmarked(v, w)
        /\ \A j \in DOMAIN w : w[j] \notin rs => \E i \in DOMAIN v : v[i] = w[j]
    BY <2>1, LeftKept
  <2>4. Range(v) = Range(w) \ rs
    BY <2>1, WithoutRange
  <2> HIDE DEF v
  <2>5. \A i \in DOMAIN v : v[i].pid # p
    BY <2>2, <2>4 DEF Range
  <2>6. \A j \in DOMAIN w : w[j].pid # p => \E i \in DOMAIN v : v[i] = w[j]
    BY <2>2, <2>3
  <2> QED BY <2>3, <2>5, <2>6 DEF v, w, rs
<1> HIDE DEF left
<1>4. DOMAIN h = ts /\ \A t \in ts : h[t] \in TaskRecord /\ h[t].activities = left(t)
  <2>1. ASSUME NEW t \in ts PROVE h[t] \in TaskRecord /\ h[t].activities = left(t)
    <3>1. h[t] = [Optimized[t] EXCEPT !.activities = left(t)]
      OBVIOUS
    <3>2. Optimized[t] \in TaskRecord /\ left(t) \in Seq(ActivityRecord)
      BY <1>2, <1>3
    <3> HIDE DEF h
    <3> QED BY <3>1, <3>2 DEF TaskRecord
  <2> QED BY <2>1
<1>5. h = [t \in DOMAIN h |-> h[t]] /\ ts \subseteq DOMAIN Optimized
  OBVIOUS
<1> HIDE DEF h
<1>6. Narrowed
  <2>1. h \in [DOMAIN h -> TaskRecord]
    BY <1>4, <1>5
  <2> QED BY <1>1, <1>2, <1>3, <1>4, <1>5, <2>1 DEF Narrowed
<1>7. \A t \in DOMAIN mHistory' : Unmarked(mHistory'[t].activities, mHistory[t].activities)
  BY <1>1, <1>2, <1>3, <1>4, <1>5
<1>8. Live' = Live /\ \A b : TaskOf(b)' = TaskOf(b)
  BY <1>1, LiveStays
<1>9. ASSUME NEW f \in Filed' PROVE f \in Filed /\ f.pid # p
  <2>1. f \in Filed
    BY <1>6, NarrowedFiled
  <2>2. f.task \in ts /\ \E i \in DOMAIN h[f.task].activities : h[f.task].activities[i].pid = f.pid
    BY <1>1, <1>4 DEF Filed
  <2> QED BY <1>3, <1>4, <1>5, <2>1, <2>2
<1>10. ASSUME NEW f \in Filed, f.task \in recents, f.pid # p PROVE f \in Filed'
  <2>1. f \in Creation /\ f.task \in DOMAIN Optimized
    BY <1>2, <1>10 DEF Filed
  <2>2. PICK j \in DOMAIN mHistory[f.task].activities :
            mHistory[f.task].activities[j].token = f.token /\ mHistory[f.task].activities[j].pid = f.pid
    BY DEF Filed
  <2>3. PICK i \in DOMAIN left(f.task) : left(f.task)[i] = mHistory[f.task].activities[j]
    BY <1>2, <1>3, <1>10, <2>1, <2>2
  <2>4. left(f.task) # <<>>
    BY <2>3
  <2>5. f.task \in ts
    BY <2>1, <2>4
  <2> QED BY <1>1, <1>4, <2>1, <2>2, <2>3, <2>5 DEF Filed
<1>11. /\ TypeInv' /\ NamedInv' /\ StackInv' /\ HomeInv' /\ OnceInv' /\ KnownInv'
       /\ CreatingInv' /\ OrderInv' /\ MarkInv' /\ JobInv' /\ SingleInv'
  <2>1. up \subseteq known
    BY DEF TypeInv
  <2> QED BY <1>1, <1>6, <1>7, <2>1, HearsStep
<1>12. NoticeInv' /\ BackedInv'
  BY <1>1, <1>8, <1>9 DEF NoticeInv, BackedInv, Odd
<1>13. ListedInv'
  <2>1. \A b \in up : TaskOf(b) \in recents
    BY TaskOfIs DEF StackInv
  <2>2. pid # p
    BY <1>1 DEF TypeInv
  <2> QED BY <1>1, <1>8, <1>10, <2>1, <2>2 DEF ListedInv
<1> QED BY <1>11, <1>12, <1>13

\* The record r of the call goes to the end of its task, behind rs.
FiledBehind(x, rs, r) ==
    /\ r.token = x.token /\ r.component = comp[x.token] /\ r.pid = x.pid /\ ~r.marked
    /\ mHistory'[x.task].activities = Append(rs, r)
    /\ IF x.task \in DOMAIN mHistory \intersect recents THEN rs = mHistory[x.task].activities
       ELSE rs = <<>>

\* What onActivityCreated does to mHistory: the record goes to the end of its
\* task, which may be new.
LEMMA FiledLast ==
    ASSUME TypeInv, NamedInv, NEW x \in creating, OnActivityCreated(x)
    PROVE  /\ mHistory' \in [DOMAIN mHistory' -> TaskRecord]
           /\ DOMAIN mHistory' = (DOMAIN mHistory \intersect recents) \union {x.task}
           /\ \A t \in DOMAIN mHistory \intersect recents : t # x.task => mHistory'[t] = mHistory[t]
           /\ \E rs \in Seq(ActivityRecord), r \in ActivityRecord : FiledBehind(x, rs, r)
<1> DEFINE c == comp[x.token]
           task == IF x.task \in DOMAIN Optimized THEN Optimized[x.task]
                   ELSE [affinity |-> affinity[c], root |-> c, activities |-> <<>>]
           r == [token |-> x.token, component |-> c, pid |-> x.pid, marked |-> FALSE]
           filed == [task EXCEPT !.activities = Append(@, r)]
<1>1. mHistory' = [t \in DOMAIN Optimized \union {x.task} |-> IF t = x.task THEN filed ELSE Optimized[t]]
  BY DEF OnActivityCreated
<1>2. /\ DOMAIN Optimized = DOMAIN mHistory \intersect recents
      /\ \A t \in DOMAIN Optimized : Optimized[t] = mHistory[t] /\ Optimized[t] \in TaskRecord
  BY OptimizedIs
<1>3. c \in Comp
  <2>1. x.token \in DOMAIN comp /\ comp \in Seq(Comp)
    BY DEF NamedInv, TypeInv
  <2> QED BY <2>1
<1>4. r \in ActivityRecord
  <2>1. x \in Creation
    BY DEF TypeInv
  <2> QED BY <1>3, <2>1 DEF ActivityRecord, Creation
<1>5. task \in TaskRecord
  <2>1. [affinity |-> affinity[c], root |-> c, activities |-> <<>>] \in TaskRecord
    BY <1>3 DEF TaskRecord
  <2> QED BY <1>2, <2>1
<1> DEFINE rs == task.activities
<1>6. rs \in Seq(ActivityRecord) /\ Append(rs, r) \in Seq(ActivityRecord)
  <2>1. rs \in Seq(ActivityRecord)
    BY <1>5 DEF TaskRecord
  <2> HIDE DEF rs, r
  <2> QED BY <1>4, <2>1, AppendRange
<1>7. IF x.task \in DOMAIN mHistory \intersect recents THEN rs = mHistory[x.task].activities ELSE rs = <<>>
  BY <1>2
<1>8. filed \in TaskRecord /\ filed.activities = Append(rs, r)
  <2>1. filed = [task EXCEPT !.activities = Append(rs, r)]
    OBVIOUS
  <2> HIDE DEF task, r, filed
  <2> QED BY <1>5, <1>6, <2>1 DEF TaskRecord
<1>9. r.token = x.token /\ r.component = comp[x.token] /\ r.pid = x.pid /\ ~r.marked
  OBVIOUS
<1> HIDE DEF rs, r, task, filed
<1>10. mHistory' \in [DOMAIN mHistory' -> TaskRecord] /\ DOMAIN mHistory' = DOMAIN Optimized \union {x.task}
  BY <1>1, <1>2, <1>8
<1>11. /\ \A t \in DOMAIN Optimized : t # x.task => mHistory'[t] = Optimized[t]
       /\ mHistory'[x.task] = filed
  BY <1>1
<1>12. FiledBehind(x, rs, r)
  BY <1>7, <1>8, <1>9, <1>11 DEF FiledBehind
<1> QED BY <1>2, <1>4, <1>6, <1>10, <1>11, <1>12

\* What is filed is the call; the process of an activity that runs waits for it.
LEMMA OnActivityCreatedStep ==
    ASSUME IInv, NEW x \in creating, OnActivityCreated(x)
    PROVE  IInv'
<1> USE DEF IInv, android
<1>1. /\ creating' = creating \ {x} /\ KeepJob
      /\ up' = IF x.pid = pid /\ x.token \in Live THEN up \union {x.token} ELSE up
      /\ owed' = [owed EXCEPT !.belated = IF x.pid # pid /\ x.pid \notin notices THEN @ \union {x.token} ELSE @]
      /\ UNCHANGED <<pc, posted, android, pid, launch, known, reports, notices, spent>>
  BY DEF OnActivityCreated
<1>2. PICK rs \in Seq(ActivityRecord), r \in ActivityRecord : FiledBehind(x, rs, r)
  BY FiledLast
<1>0. r.token = x.token /\ r.component = comp[x.token] /\ r.pid = x.pid /\ ~r.marked
  BY <1>2 DEF FiledBehind
<1>3. /\ mHistory' \in [DOMAIN mHistory' -> TaskRecord]
      /\ DOMAIN mHistory' = (DOMAIN mHistory \intersect recents) \union {x.task}
      /\ \A t \in DOMAIN mHistory \intersect recents : t # x.task => mHistory'[t] = mHistory[t]
  BY FiledLast
<1> DEFINE w == mHistory'[x.task].activities
           last == Len(rs) + 1
<1>4. /\ Len(rs) \in Nat /\ last \in Nat /\ DOMAIN rs = 1..Len(rs)
      /\ DOMAIN w = 1..last /\ w[last] = r
      /\ \A i \in DOMAIN rs : w[i] = rs[i]
  <2>1. w = Append(rs, r)
    BY <1>2 DEF FiledBehind
  <2> HIDE DEF w
  <2> QED BY <2>1, AppendRange
<1>5. /\ \A i \in DOMAIN rs : x.task \in DOMAIN mHistory \intersect recents /\ i \in DOMAIN mHistory[x.task].activities
                              /\ w[i] = mHistory[x.task].activities[i] /\ i \in DOMAIN w
      /\ \A i \in DOMAIN w : i \in DOMAIN rs \/ i = last
      /\ last \in DOMAIN w
  <2> HIDE DEF w
  <2>1. \A i \in DOMAIN w : i \in DOMAIN rs \/ i = last
    BY <1>4
  <2>2. last \in DOMAIN w /\ DOMAIN rs \subseteq DOMAIN w
    BY <1>4
  <2>3. \A i \in DOMAIN rs : x.task \in DOMAIN mHistory \intersect recents /\ rs = mHistory[x.task].activities
    <3>1. rs = <<>> => DOMAIN rs = {}
      OBVIOUS
    <3> QED BY <1>2, <3>1 DEF FiledBehind
  <2> QED BY <1>4, <2>1, <2>2, <2>3
<1> HIDE DEF w, last
<1>6. Live' = Live /\ \A b : TaskOf(b)' = TaskOf(b)
  BY <1>1, LiveStays
<1>7. x \in Creation /\ x.token \in DOMAIN comp /\ x.token \in Token
  BY Bounds DEF TypeInv, NamedInv
<1>8. /\ owed' \in OwedType /\ owed'.silent = owed.silent /\ owed'.again = owed.again
      /\ owed'.belated = IF x.pid # pid /\ x.pid \notin notices THEN owed.belated \union {x.token} ELSE owed.belated
      /\ owed'.unseen = owed.unseen /\ owed'.spared = owed.spared
  BY <1>1, <1>7 DEF TypeInv, OwedType
<1>9. ASSUME NEW t \in DOMAIN mHistory', NEW i \in DOMAIN mHistory'[t].activities
      PROVE  \/ t = x.task /\ mHistory'[t].activities[i] = r /\ i = last
             \/ /\ t \in DOMAIN mHistory \intersect recents /\ i \in DOMAIN mHistory[t].activities
                /\ mHistory'[t].activities[i] = mHistory[t].activities[i]
                /\ t = x.task => i \in DOMAIN rs
  <2>1. CASE t = x.task
    BY <1>4, <1>5, <2>1 DEF w
  <2>2. CASE t # x.task
    BY <1>3, <2>2
  <2> QED BY <2>1, <2>2
<1>10. ASSUME NEW f \in Filed' PROVE f = x \/ (f \in Filed /\ f.task \in recents)
  <2>1. f \in Creation /\ f.task \in DOMAIN mHistory'
    BY DEF Filed
  <2>2. PICK i \in DOMAIN mHistory'[f.task].activities :
            mHistory'[f.task].activities[i].token = f.token /\ mHistory'[f.task].activities[i].pid = f.pid
    BY DEF Filed
  <2>3. CASE f.task = x.task /\ mHistory'[f.task].activities[i] = r
    BY <1>0, <1>7, <2>1, <2>2, <2>3 DEF Creation
  <2>4. CASE ~(f.task = x.task /\ mHistory'[f.task].activities[i] = r)
    <3>1. /\ f.task \in DOMAIN mHistory \intersect recents /\ i \in DOMAIN mHistory[f.task].activities
          /\ mHistory'[f.task].activities[i] = mHistory[f.task].activities[i]
      BY <1>9, <2>1, <2>4
    <3> QED BY <2>1, <2>2, <3>1 DEF Filed
  <2> QED BY <2>3, <2>4
<1>11. x \in Filed'
  <2>1. x.task \in DOMAIN mHistory' /\ w[last].token = x.token /\ w[last].pid = x.pid
    BY <1>0, <1>3, <1>4
  <2> QED BY <1>5, <1>7, <2>1 DEF Filed, w
<1>12. ASSUME NEW f \in Filed, f.task \in recents PROVE f \in Filed'
  <2>1. f \in Creation /\ f.task \in DOMAIN mHistory \intersect recents /\ f.task \in DOMAIN mHistory'
    BY <1>3, <1>12 DEF Filed
  <2>2. PICK i \in DOMAIN mHistory[f.task].activities :
            mHistory[f.task].activities[i].token = f.token /\ mHistory[f.task].activities[i].pid = f.pid
    BY DEF Filed
  <2>3. i \in DOMAIN mHistory'[f.task].activities /\ mHistory'[f.task].activities[i] = mHistory[f.task].activities[i]
    <3>1. CASE f.task = x.task
      <4>1. rs = mHistory[x.task].activities
        BY <1>2, <2>1, <3>1 DEF FiledBehind
      <4>2. i \in DOMAIN w /\ w[i] = mHistory[f.task].activities[i]
        BY <1>5, <2>2, <3>1, <4>1
      <4> QED BY <3>1, <4>2 DEF w
    <3>2. CASE f.task # x.task
      BY <1>3, <2>1, <2>2, <3>2
    <3> QED BY <3>1, <3>2
  <2> QED BY <2>1, <2>2, <2>3 DEF Filed
<1>13. TypeInv'
  <2>1. up' \subseteq known
    BY <1>1 DEF TypeInv, KnownInv
  <2> QED BY <1>1, <1>3, <1>8, <2>1, KeptJob DEF TypeInv
<1>14. NamedInv'
  <2>1. DOMAIN mHistory' \subseteq DOMAIN stack \union {NoTask}
    BY <1>3 DEF NamedInv
  <2>2. ASSUME NEW t \in DOMAIN mHistory', NEW i \in DOMAIN mHistory'[t].activities
        PROVE  LET q == mHistory'[t].activities[i] IN
               q.token \in DOMAIN comp /\ q.component = comp[q.token] /\ q.pid <= pid
    <3>1. r.token \in DOMAIN comp /\ r.component = comp[r.token] /\ r.pid <= pid
      BY <1>0 DEF NamedInv
    <3>2. CASE mHistory'[t].activities[i] = r
      BY <3>1, <3>2
    <3>3. CASE mHistory'[t].activities[i] # r
      <4>1. /\ t \in DOMAIN mHistory /\ i \in DOMAIN mHistory[t].activities
            /\ mHistory'[t].activities[i] = mHistory[t].activities[i]
        BY <1>9, <3>3
      <4> QED BY <4>1 DEF NamedInv
    <3> QED BY <3>2, <3>3
  <2> QED BY <1>1, <1>8, <2>1, <2>2 DEF NamedInv
<1>15. StackInv'
  BY <1>1, <1>6, <1>8 DEF StackInv
<1>16. HomeInv'
  BY <1>1, <1>6, <1>8, <1>10 DEF HomeInv
<1>17. NoticeInv'
  BY <1>1, <1>8, <1>10 DEF NoticeInv
<1>18. OnceInv' /\ CreatingInv'
  BY <1>1, <1>6, <1>8 DEF OnceInv, CreatingInv, Odd
<1>19. KnownInv'
  <2>1. \A f \in (Filed \union creating \union posted)' : f.pid = pid /\ f.token \in Live => f.token \in known'
    BY <1>1, <1>10 DEF KnownInv
  <2>2. \A y \in creating' : y \in creating /\ y.token # x.token
    BY <1>1 DEF OnceInv
  <2>3. \A y \in creating' : y.token \in Odd \/
            /\ \A f \in (Filed \union posted)' : f.token = y.token => f.pid < y.pid
            /\ y.pid = pid => y.token \notin up'
    BY <1>1, <1>10, <2>2 DEF KnownInv
  <2> QED BY <1>1, <1>6, <1>8, <2>1, <2>3 DEF KnownInv, Odd
<1>20. OrderInv'
  <2> SUFFICES ASSUME NEW t \in DOMAIN mHistory', NEW i \in DOMAIN mHistory'[t].activities,
                      NEW j \in DOMAIN mHistory'[t].activities, i < j,
                      mHistory'[t].activities[i].token = mHistory'[t].activities[j].token
               PROVE  \/ mHistory'[t].activities[i].token \in Odd
                      \/ mHistory'[t].activities[i].pid < mHistory'[t].activities[j].pid
    BY <1>8 DEF OrderInv, Odd
  <2>1. CASE t = x.task /\ j = last
    <3>1. i \in DOMAIN rs /\ w[j] = r
      <4>1. i # last
        <5>1. i \in 1..last /\ last \in Nat
          BY <1>4, <2>1 DEF w
        <5> QED BY <2>1, <5>1
      <4> QED BY <1>4, <1>5, <2>1, <4>1 DEF w
    <3> DEFINE q == mHistory[t].activities[i]
    <3>2. t \in DOMAIN mHistory /\ i \in DOMAIN mHistory[t].activities /\ mHistory'[t].activities[i] = q
      BY <1>5, <2>1, <3>1 DEF w
    <3> DEFINE f == [token |-> q.token, pid |-> q.pid, task |-> t]
    <3>3. f \in Filed
      BY <3>2, InFiled
    <3>4. f.token = x.token /\ f.pid = q.pid
      BY <1>0, <2>1, <3>1, <3>2 DEF w
    <3> HIDE DEF f, q
    <3>5. x.token \in Odd \/ f.pid < x.pid
      BY <3>3, <3>4 DEF KnownInv
    <3> QED BY <1>0, <2>1, <3>1, <3>2, <3>4, <3>5 DEF w
  <2>2. CASE ~(t = x.task /\ j = last)
    <3>1. /\ t \in DOMAIN mHistory /\ j \in DOMAIN mHistory[t].activities
          /\ mHistory'[t].activities[j] = mHistory[t].activities[j]
          /\ t = x.task => j \in DOMAIN rs
      BY <1>9, <2>2
    <3>2. ~(t = x.task /\ i = last)
      <4> SUFFICES ASSUME t = x.task, i = last PROVE FALSE
        OBVIOUS
      <4>1. j \in 1..Len(rs)
        BY <1>4, <3>1
      <4>2. j <= Len(rs) /\ j \in Nat /\ last = Len(rs) + 1
        BY <1>4, <4>1 DEF last
      <4> QED BY <1>4, <4>2
    <3>3. /\ i \in DOMAIN mHistory[t].activities
          /\ mHistory'[t].activities[i] = mHistory[t].activities[i]
      BY <1>9, <3>2
    <3> QED BY <3>1, <3>3 DEF OrderInv
  <2> QED BY <2>1, <2>2
<1>21. ListedInv'
  <2> SUFFICES ASSUME NEW b \in up' PROVE [token |-> b, pid |-> pid, task |-> TaskOf(b)] \in Filed'
    BY <1>1, <1>6 DEF ListedInv
  <2>1. CASE b \in up
    <3>1. TaskOf(b) \in recents
      BY <2>1, TaskOfIs DEF StackInv
    <3> QED BY <1>12, <2>1, <3>1 DEF ListedInv
  <2>2. CASE b \notin up
    <3>1. x.pid = pid /\ x.token \in Live /\ b = x.token
      BY <1>1, <2>2
    <3>2. x.task = TaskOf(b)
      BY <3>1 DEF HomeInv
    <3>3. x = [token |-> b, pid |-> pid, task |-> TaskOf(b)]
      BY <1>7, <3>1, <3>2 DEF Creation
    <3> QED BY <1>11, <3>3
  <2> QED BY <2>1, <2>2
<1>22. BackedInv'
  <2> SUFFICES ASSUME NEW f \in Filed', f.task \in recents
               PROVE  \/ f.token \in Live \union reports \/ f.pid \in notices
                      \/ f.token \in Odd \union owed'.belated
    BY <1>1, <1>6, <1>8 DEF BackedInv, Odd
  <2>1. CASE f = x
    BY <1>8, <2>1 DEF CreatingInv
  <2>2. CASE f \in Filed
    BY <1>8, <2>2 DEF BackedInv
  <2> QED BY <1>10, <2>1, <2>2
<1>23. MarkInv'
  <2> SUFFICES ASSUME NEW t \in DOMAIN mHistory' \intersect recents, NEW i \in DOMAIN mHistory'[t].activities,
                      mHistory'[t].activities[i].marked, mHistory'[t].activities[i].token \in Live
               PROVE  LET q == mHistory'[t].activities[i] IN
                      /\ q.pid = pid => [token |-> q.token, pid |-> q.pid] \in posted
                      /\ q.token \in owed.spared \union {y.token : y \in posted}
    BY <1>1, <1>6, <1>8 DEF MarkInv
  <2>1. /\ t \in DOMAIN mHistory \intersect recents /\ i \in DOMAIN mHistory[t].activities
        /\ mHistory'[t].activities[i] = mHistory[t].activities[i]
    BY <1>0, <1>9
  <2> QED BY <2>1 DEF MarkInv
<1>24. JobInv' /\ SingleInv'
  BY <1>1, <1>6, <1>8, KeptJob, SingleStays DEF Excused
<1> QED BY <1>13, <1>14, <1>15, <1>16, <1>17, <1>18, <1>19, <1>20, <1>21, <1>22, <1>23, <1>24

-----------------------------------------------------------------------------
(* The end of startActivity                                                *)

\* The operation ends, and Android launches nothing.
LEMMA JobEnds ==
    ASSUME IInv, JobDone, UNCHANGED <<mHistory, posted, android, process, calls, spent, owed>>
    PROVE  IInv'
<1> USE DEF IInv, JobDone, android, process, calls
<1>1. Filed' = Filed /\ Live' = Live /\ \A b : TaskOf(b)' = TaskOf(b)
  BY FiledStays, LiveStays
<1>2. TypeInv'
  <2>1. job' \in [comp : Comp, task : Task \union {NoTask}, last : Token \union {0}]
    BY ActivityTasksAssumption DEF NoJob, NoTask
  <2>2. Len(comp) + 0 <= spent.starts
    <3>1. Len(comp) \in Nat /\ spent.starts \in Nat
      BY Bounds DEF TypeInv
    <3> QED BY <3>1 DEF TypeInv
  <2> QED BY <2>1, <2>2 DEF TypeInv
<1>3. NamedInv' /\ NoticeInv' /\ OnceInv' /\ OrderInv'
  BY <1>1 DEF NamedInv, NoticeInv, OnceInv, OrderInv, Odd
<1>4. StackInv' /\ HomeInv' /\ KnownInv' /\ CreatingInv'
  BY <1>1 DEF StackInv, HomeInv, KnownInv, CreatingInv, Odd
<1>5. ListedInv' /\ BackedInv' /\ MarkInv'
  BY <1>1 DEF ListedInv, BackedInv, MarkInv, Odd
<1>6. JobInv' /\ SingleInv'
  BY <1>1 DEF JobInv, SingleInv, Excused
<1> QED BY <1>2, <1>3, <1>4, <1>5, <1>6

\* Android launches a new activity, for which all others are excused.
LEMMA LaunchedStep ==
    ASSUME IInv, pc # "idle", JobDone, Launched(job.comp), NEW t, Joined(t, Len(comp) + 1),
           recents' = recents \union {t}, t \in DOMAIN stack => t \in recents,
           UNCHANGED <<mHistory, posted, pid, up, known, calls, spent, owed>>
    PROVE  IInv'
<1> USE DEF IInv, JobDone, calls
<1> DEFINE b == Len(comp) + 1
<1>1. /\ Len(comp) \in Nat /\ DOMAIN comp = 1..Len(comp) /\ comp \in Seq(Comp) /\ job.comp \in Comp
      /\ Len(stack) \in Nat /\ DOMAIN stack = 1..Len(stack)
  BY Bounds DEF TypeInv
<1>2. comp' = Append(comp, job.comp) /\ launch' = launch \union {Len(comp')}
  BY DEF Launched
<1>3. /\ comp' \in Seq(Comp) /\ Len(comp') = b /\ DOMAIN comp' = 1..b /\ comp'[b] = job.comp
      /\ \A a \in DOMAIN comp : comp'[a] = comp[a]
  BY <1>1, <1>2, AppendRange
<1>4. /\ b \in DOMAIN comp' /\ b \notin DOMAIN comp /\ DOMAIN comp \subseteq DOMAIN comp'
      /\ ~(b < b) /\ \A a \in DOMAIN comp : ~(b < a)
  BY <1>1, <1>3
<1> HIDE DEF b
<1>5. /\ stack' \in Seq(Seq(Token)) /\ DOMAIN stack \subseteq DOMAIN stack' /\ t \in DOMAIN stack'
      /\ Len(stack') <= Len(stack) + 1
      /\ \A u, v \in DOMAIN stack' : u # v => Range(stack'[u]) \intersect Range(stack'[v]) = {}
      /\ \A u \in DOMAIN stack' : u # t => u \in DOMAIN stack /\ stack'[u] = stack[u]
      /\ Live' = Live \union {b}
      /\ \A a \in Live : TaskOf(a)' = TaskOf(a)
  BY DEF Joined, b
<1>6. Filed' = Filed
  BY FiledStays
<1>7. \A u \in DOMAIN stack \union {NoTask} : u \in recents' => u \in recents
  <2>1. t # NoTask
    <3>1. DOMAIN stack' = 1..Len(stack')
      BY <1>5
    <3> QED BY <1>5, <3>1 DEF NoTask
  <2> QED BY <2>1
<1>8. \A f \in Filed \union creating \union posted : f.token \in DOMAIN comp /\ f.token # b
  BY <1>4, FiledNamed
<1>9. TypeInv'
  <2>1. job' \in [comp : Comp, task : Task \union {NoTask}, last : Token \union {0}]
    BY ActivityTasksAssumption DEF NoJob, NoTask
  <2>2. Len(comp') + 0 <= spent.starts
    <3>1. spent.starts \in Nat /\ Len(comp) + 1 <= spent.starts
      BY DEF TypeInv
    <3> QED BY <1>1, <1>3, <3>1 DEF b
  <2>3. Len(stack') <= Len(comp')
    <3>1. Len(stack) <= Len(comp) /\ Len(stack') \in Nat
      BY <1>5 DEF TypeInv
    <3> QED BY <1>1, <1>3, <1>5, <3>1 DEF b
  <2>4. launch' \subseteq DOMAIN comp'
    BY <1>2, <1>3, <1>4 DEF TypeInv
  <2>5. known \subseteq DOMAIN comp' /\ reports \subseteq DOMAIN comp'
    BY <1>4 DEF TypeInv
  <2>6. recents' \subseteq DOMAIN stack'
    BY <1>5 DEF TypeInv
  <2> QED BY <1>3, <1>5, <2>1, <2>2, <2>3, <2>4, <2>5, <2>6 DEF TypeInv
<1>10. NamedInv'
  <2>1. \A a \in DOMAIN comp : a \in DOMAIN comp' /\ comp'[a] = comp[a]
    BY <1>3, <1>4
  <2>2. \A u \in DOMAIN stack \union {NoTask} : u \in DOMAIN stack' \union {NoTask}
    BY <1>5
  <2> QED BY <2>1, <2>2 DEF NamedInv
<1>11. StackInv'
  <2>1. \A u \in DOMAIN stack' : stack'[u] # <<>> => u \in recents'
    BY <1>5 DEF StackInv
  <2>2. Live' \subseteq DOMAIN comp' /\ up \subseteq Live'
    BY <1>4, <1>5 DEF StackInv
  <2>3. \A a \in reports \union owed.silent : a \notin Live'
    BY <1>4, <1>5, SMTT(30) DEF StackInv, NamedInv, TypeInv
  <2> QED BY <1>5, <2>1, <2>2, <2>3 DEF StackInv
<1>12. HomeInv'
  BY <1>5, <1>6, <1>8 DEF HomeInv
<1>13. NoticeInv' /\ OrderInv'
  BY <1>6 DEF NoticeInv, OrderInv, Odd
<1>14. OnceInv'
  BY <1>2, <1>3, <1>8 DEF OnceInv
<1>15. KnownInv'
  BY <1>5, <1>6, <1>8 DEF KnownInv, Odd
<1>16. CreatingInv'
  BY <1>5, <1>7 DEF CreatingInv, NamedInv, Odd
<1>17. ListedInv'
  BY <1>5, <1>6 DEF ListedInv, StackInv
<1>18. BackedInv'
  BY <1>5, <1>6, <1>7, FiledNamed DEF BackedInv, Odd
<1>19. MarkInv'
  <2> SUFFICES ASSUME NEW u \in DOMAIN mHistory \intersect recents', NEW i \in DOMAIN mHistory[u].activities,
                      mHistory[u].activities[i].marked, mHistory[u].activities[i].token \in Live'
               PROVE  LET r == mHistory[u].activities[i] IN
                      /\ r.pid = pid => [token |-> r.token, pid |-> r.pid] \in posted
                      /\ r.token \in owed.spared \union {x.token : x \in posted}
    BY DEF MarkInv
  <2>1. u \in recents /\ mHistory[u].activities[i].token \in Live
    BY <1>4, <1>5, <1>7 DEF NamedInv
  <2> QED BY <2>1 DEF MarkInv
<1>20. JobInv' /\ SingleInv'
  <2>1. Live \subseteq DOMAIN comp
    BY DEF StackInv
  <2>2. ASSUME NEW a \in Live', NEW c \in Live', a < c, comp'[a] = comp'[c], Single(comp'[a])
        PROVE  a \in Excused
    <3>1. a \in Live
      BY <1>4, <1>5, <2>1, <2>2
    <3>2. CASE c \in Live
      BY <1>3, <2>1, <2>2, <3>1, <3>2 DEF SingleInv
    <3>3. CASE c = b
      BY <1>3, <2>1, <2>2, <3>1, <3>3 DEF JobInv
    <3> QED BY <1>5, <3>2, <3>3
  <2> QED BY <2>2 DEF JobInv, SingleInv, Excused
<1> QED BY <1>9, <1>10, <1>11, <1>12, <1>13, <1>14, <1>15, <1>16, <1>17, <1>18, <1>19, <1>20

\* The token of a new activity is new.
LEMMA NewToken ==
    ASSUME IInv, pc # "idle", Launched(job.comp)
    PROVE  Len(comp') = Len(comp) + 1 /\ Len(comp) + 1 \in Token /\ Len(comp) + 1 \notin Live
<1>1. comp' = Append(comp, job.comp) /\ comp \in Seq(Comp) /\ job.comp \in Comp
  BY DEF Launched, IInv, TypeInv
<1>2. Len(comp') = Len(comp) + 1 /\ DOMAIN comp = 1..Len(comp) /\ Len(comp) \in Nat
  BY <1>1, AppendRange
<1>3. spent.starts \in 0..MaxStarts /\ Len(comp) + 1 <= spent.starts
  BY DEF IInv, TypeInv
<1>4. Len(comp) + 1 \in Token
  BY <1>2, <1>3, ActivityTasksAssumption DEF Token
<1>5. Len(comp) + 1 \notin Live
  BY <1>2 DEF IInv, StackInv
<1> QED BY <1>2, <1>4, <1>5

\* A launch in a new task.
LEMMA LaunchNewStep ==
    ASSUME IInv, pc # "idle", JobDone, LaunchNew(job.comp),
           UNCHANGED <<mHistory, posted, pid, up, known, calls, spent, owed>>
    PROVE  IInv'
<1> DEFINE t == Len(stack) + 1
<1>1. Launched(job.comp) /\ stack' = Append(stack, <<Len(comp')>>) /\ recents' = recents \union {Len(stack')}
  BY DEF LaunchNew
<1>2. Len(comp') = Len(comp) + 1 /\ Len(comp) + 1 \in Token /\ Len(comp) + 1 \notin Live
  BY <1>1, NewToken
<1>3. stack' = Append(stack, <<Len(comp) + 1>>)
  BY <1>1, <1>2
<1>4. Joined(t, Len(comp) + 1) /\ Len(stack') = t /\ t \notin DOMAIN stack
  BY <1>2, <1>3, JoinedNew DEF IInv
<1> HIDE DEF t
<1> QED BY <1>1, <1>4, LaunchedStep

\* The start of an activity for which there is no task.
LEMMA StartActivityInNewTaskStep ==
    ASSUME IInv, StartActivityInNewTask
    PROVE  IInv'
<1>1. /\ pc # "idle" /\ JobDone /\ LaunchNew(job.comp)
      /\ UNCHANGED <<mHistory, posted, pid, up, known, calls, spent, owed>>
  BY DEF StartActivityInNewTask
<1> QED BY <1>1, LaunchNewStep

\* The start from the last activity of the task, which may have ended since.
LEMMA StartActivityFromSourceTaskStep ==
    ASSUME IInv, StartActivityFromSourceTask
    PROVE  IInv'
<1>1. /\ pc # "idle" /\ JobDone
      /\ UNCHANGED <<mHistory, posted, pid, up, known, calls, spent, owed>>
  BY DEF StartActivityFromSourceTask
<1>2. \/ UNCHANGED <<android, launch>>
      \/ Source \in Live /\ LaunchIn(TaskOf(Source), job.comp)
      \/ LaunchNew(job.comp)
  BY DEF StartActivityFromSourceTask
<1>3. CASE UNCHANGED <<android, launch>>
  BY <1>1, <1>3, JobEnds DEF process
<1>4. CASE Source \in Live /\ LaunchIn(TaskOf(Source), job.comp)
  <2> DEFINE t == TaskOf(Source)
  <2>1. t \in DOMAIN stack /\ t \in recents
    BY <1>4, TaskOfIs DEF IInv
  <2> HIDE DEF t
  <2>2. Launched(job.comp) /\ stack' = [stack EXCEPT ![t] = Append(@, Len(comp'))] /\ recents' = recents
    BY <1>4 DEF LaunchIn, t
  <2>3. Len(comp') = Len(comp) + 1 /\ Len(comp) + 1 \in Token /\ Len(comp) + 1 \notin Live
    BY <1>1, <2>2, NewToken
  <2>4. stack' = [stack EXCEPT ![t] = Append(@, Len(comp) + 1)]
    BY <2>2, <2>3
  <2>5. Joined(t, Len(comp) + 1)
    BY <2>1, <2>3, <2>4, JoinedTask DEF IInv
  <2>6. recents' = recents \union {t}
    BY <2>1, <2>2
  <2> QED BY <1>1, <2>1, <2>2, <2>5, <2>6, LaunchedStep
<1>5. CASE LaunchNew(job.comp)
  BY <1>1, <1>5, LaunchNewStep
<1> QED BY <1>2, <1>3, <1>4, <1>5

\* There is no process for the activity.
LEMMA NoProcessStep ==
    ASSUME IInv, NoProcess
    PROVE  IInv'
BY JobEnds DEF NoProcess

-----------------------------------------------------------------------------
(* startActivity                                                           *)

\* The task to go on with is one of mHistory, or none.
LEMMA ReuseTaskIs ==
    ASSUME TypeInv, NEW c \in Comp, NEW flags, NEW sourceTask \in DOMAIN Optimized \union {NoTask}
    PROVE  ReuseTask(Optimized, c, flags, sourceTask) \in DOMAIN Optimized \union {NoTask}
<1> DEFINE target == ReuseTarget(c, flags, sourceTask)
<1>1. DOMAIN Optimized \subseteq Nat
  BY OptimizedIs, Bounds, SMTT(30) DEF TypeInv, Task
<1>2. ASSUME NEW ts \in SUBSET DOMAIN Optimized PROVE FirstTask(ts) \in DOMAIN Optimized \union {NoTask}
  <2>1. CASE ts = {}
    BY <2>1 DEF FirstTask
  <2>2. CASE ts # {}
    <3>1. \E t \in ts : \A u \in ts : t <= u
      BY <1>1, <2>2, LeastExists
    <3>2. FirstTask(ts) \in ts
      BY <2>2, <3>1 DEF FirstTask
    <3> QED BY <3>2
  <2> QED BY <2>1, <2>2
<1>3. target \in {"AFFINITY", "DOCUMENT", "CURRENT", "MULTIPLE"}
  BY ActivityTasksAssumption DEF ReuseTarget, OrMultiple
<1> HIDE DEF target
<1>4. {t \in DOMAIN Optimized : Optimized[t].affinity = affinity[c]} \in SUBSET DOMAIN Optimized
  OBVIOUS
<1>5. {t \in DOMAIN Optimized : Optimized[t].root = c} \in SUBSET DOMAIN Optimized
  OBVIOUS
<1> HIDE DEF Optimized
<1>6. CASE target = "AFFINITY"
  BY <1>2, <1>4, <1>6 DEF ReuseTask, target
<1>7. CASE target = "DOCUMENT"
  BY <1>2, <1>5, <1>7 DEF ReuseTask, target
<1>8. CASE target = "CURRENT"
  BY <1>8 DEF ReuseTask, target
<1>9. CASE target = "MULTIPLE"
  BY <1>9 DEF ReuseTask, target
<1> QED BY <1>3, <1>6, <1>7, <1>8, <1>9

\* A single activity goes to the only task of its affinity.
LEMMA ReuseTaskFound ==
    ASSUME TypeInv, NEW c \in Comp, NEW flags, NEW sourceTask, Single(c), ~Multiple(c, flags),
           NEW t \in DOMAIN Optimized, TasksFor(c) = {t}
    PROVE  ReuseTask(Optimized, c, flags, sourceTask) = t
<1>1. ReuseTarget(c, flags, sourceTask) = "AFFINITY"
  BY ActivityTasksAssumption DEF ReuseTarget, OrMultiple, Single, Multiple
<1>2. t \in Nat
  BY OptimizedIs, Bounds DEF TypeInv, Task
<1>3. FirstTask({t}) = t
  BY <1>2 DEF FirstTask
<1> HIDE DEF Optimized
<1>4. ReuseTask(Optimized, c, flags, sourceTask) = FirstTask(TasksFor(c))
  BY <1>1 DEF ReuseTask, TasksFor
<1> QED BY <1>3, <1>4

\* topActivityInTask.
LEMMA TopIs ==
    ASSUME NEW w \in Seq(ActivityRecord), NEW k \in DOMAIN w, ~w[k].marked,
           \A i \in DOMAIN w : ~w[i].marked => i <= k
    PROVE  Top(w) = k
<1> DEFINE is == {i \in 1..Len(w) : ~w[i].marked}
<1>1. Top(w) = IF is # {} THEN Max(is) ELSE 0
  BY DEF Top, SelectLastInSeq
<1>2. DOMAIN w = 1..Len(w) /\ k \in is /\ \A i \in is : i \in Nat /\ i <= k
  OBVIOUS
<1> HIDE DEF is
<1>3. Max(is) = k
  BY <1>2 DEF Max
<1> QED BY <1>1, <1>2, <1>3

\* A start changes no record but for the marks, and leaves none out of a task
\* of which it says that it has marked nothing.
LEMMA ClearedIs ==
    ASSUME NEW w \in Seq(ActivityRecord), NEW c \in Comp, NEW flags
    PROVE  LET v == Cleared(w, c, flags) IN
           /\ v.activities \in Seq(ActivityRecord) /\ Kept(v.activities, w)
           /\ DOMAIN v.activities = DOMAIN w
           /\ \A i \in DOMAIN w : Same(v.activities[i], w[i])
           /\ \A i \in DOMAIN w : v.activities[i].marked => v.marked \/ w[i].marked
<1> DEFINE target == ClearTarget(c, flags)
           clears == target \in {"TASK", "TOP"} \/ SingleTop(c, flags)
           places == MarkedBy(w, target, c)
           first == IF clears THEN Mark(w, places) ELSE w
           marked == clears /\ TaskMarked(w, target, c)
           top == Top(first)
           topToo == top # 0 /\ marked /\ "CLEAR_TOP" \in flags /\ ~InOwnTask(c) /\ ~SingleTop(c, flags)
           v == Cleared(w, c, flags)
<1>1. v.activities = (IF topToo THEN Mark(first, {top}) ELSE first) /\ v.marked = marked
  BY DEF Cleared
<1>2. target \in {"TASK", "TOP", "SPEC_ACTIVITY", "NOTHING"}
  BY DEF ClearTarget
<1> HIDE DEF v, target
<1>3. clears /\ places # {} => marked
  <2> SUFFICES ASSUME NEW i \in places PROVE TaskMarked(w, target, c)
    OBVIOUS
  <2>0. Len(w) \in Nat /\ DOMAIN w = 1..Len(w)
    OBVIOUS
  <2>1. CASE target = "TASK"
    BY <2>1 DEF MarkedBy, TaskMarked
  <2>2. CASE target = "SPEC_ACTIVITY"
    BY <2>2 DEF MarkedBy, TaskMarked
  <2>3. CASE target = "TOP"
    <3>1. i \in Above(w, c)
      BY <2>3 DEF MarkedBy
    <3>2. PICK j \in 1..(i - 1) : w[j].component = c
      BY <3>1 DEF Above
    <3>3. i \in 1..Len(w) /\ j \in 1..Len(w)
      BY <2>0, <3>1 DEF Above
    <3> QED BY <2>0, <2>3, <3>2, <3>3 DEF TaskMarked
  <2>4. CASE target = "NOTHING"
    BY <2>4 DEF MarkedBy
  <2> QED BY <1>2, <2>1, <2>2, <2>3, <2>4
<1> HIDE DEF places
<1>4. /\ first \in Seq(ActivityRecord) /\ DOMAIN first = DOMAIN w /\ \A i \in DOMAIN w : Same(first[i], w[i])
      /\ \A i \in DOMAIN w : first[i].marked => (clears /\ i \in places) \/ w[i].marked
  <2>1. CASE clears
    <3>1. first = Mark(w, places)
      BY <2>1
    <3> HIDE DEF first
    <3> QED BY <2>1, <3>1, MarkedKept
  <2>2. CASE ~clears
    <3>1. first = w
      BY <2>2
    <3> HIDE DEF first
    <3> QED BY <3>1 DEF Same
  <2> QED BY <2>1, <2>2
<1>5. topToo => marked
  OBVIOUS
<1>6. \A i \in DOMAIN w : first[i].marked => marked \/ w[i].marked
  BY <1>3, <1>4
<1> HIDE DEF first, topToo, marked, clears, top
<1>7. /\ v.activities \in Seq(ActivityRecord) /\ DOMAIN v.activities = DOMAIN w
      /\ \A i \in DOMAIN w : Same(v.activities[i], w[i])
      /\ \A i \in DOMAIN w : v.activities[i].marked => marked \/ w[i].marked
  <2>1. CASE topToo
    <3>1. v.activities = Mark(first, {top})
      BY <1>1, <2>1
    <3>2. /\ Mark(first, {top}) \in Seq(ActivityRecord) /\ DOMAIN Mark(first, {top}) = DOMAIN first
          /\ \A i \in DOMAIN first : Same(Mark(first, {top})[i], first[i])
      BY <1>4, MarkedKept
    <3> QED BY <1>4, <1>5, <2>1, <3>1, <3>2 DEF Same
  <2>2. CASE ~topToo
    BY <1>1, <1>4, <1>6, <2>2
  <2> QED BY <2>1, <2>2
<1>8. Kept(v.activities, w)
  BY <1>7 DEF Kept
<1> QED BY <1>1, <1>7, <1>8 DEF v

\* A single activity on record, with no later one of its component: either it
\* is marked already, or the intent is delivered to it.
LEMMA ClearedFound ==
    ASSUME NEW w \in Seq(ActivityRecord), NEW c \in Comp, NEW flags, Single(c),
           NEW i \in DOMAIN w, w[i].component = c, ~w[i].marked,
           \A j \in i + 1..Len(w) : w[j].component # c
    PROVE  Cleared(w, c, flags).delivered
<1> DEFINE places == MarkedBy(w, "TOP", c)
           first == Mark(w, places)
<1>0. Len(w) \in Nat /\ DOMAIN w = 1..Len(w) /\ i \in Nat /\ i # 0 /\ i <= Len(w)
  OBVIOUS
<1>1. InOwnTask(c) /\ ClearTarget(c, flags) = "TOP"
  BY DEF Single, InOwnTask, ClearTarget
<1>2. places = Above(w, c)
  BY DEF MarkedBy
<1>3. i \notin Above(w, c)
  <2> SUFFICES ASSUME NEW j \in 1..(i - 1), \A k \in j + 1..Len(w) : w[k].component # c PROVE FALSE
    BY DEF Above
  <2>1. i \in j + 1..Len(w)
    BY <1>0
  <2> QED BY <2>1
<1>4. ASSUME NEW k \in DOMAIN w, ~(k <= i) PROVE k \in Above(w, c)
  <2>1. i \in 1..(k - 1)
    BY <1>0, <1>4
  <2> QED BY <2>1 DEF Above
<1> HIDE DEF places
<1>5. /\ first \in Seq(ActivityRecord) /\ DOMAIN first = DOMAIN w
      /\ \A k \in DOMAIN w : Same(first[k], w[k]) /\ first[k].marked = (k \in places \/ w[k].marked)
  BY MarkedKept
<1> HIDE DEF first
<1>6. Top(first) = i
  <2>1. ~first[i].marked
    BY <1>2, <1>3, <1>5
  <2>2. \A k \in DOMAIN first : ~first[k].marked => k <= i
    BY <1>2, <1>4, <1>5
  <2> QED BY <1>5, <2>1, <2>2, TopIs
<1>7. first[i].component = c
  BY <1>5 DEF Same
<1>8. Cleared(w, c, flags).delivered = (Top(first) # 0 /\ first[Top(first)].component = c)
  <2> DEFINE marked == TaskMarked(w, "TOP", c)
             topToo == Top(first) # 0 /\ marked /\ "CLEAR_TOP" \in flags /\ ~InOwnTask(c) /\ ~SingleTop(c, flags)
  <2>1. ~topToo
    BY <1>1
  <2>2. Cleared(w, c, flags).delivered = (Top(first) # 0 /\ ~topToo /\ first[Top(first)].component = c)
    BY <1>1 DEF Cleared, first, places
  <2> HIDE DEF topToo
  <2> QED BY <2>1, <2>2
<1> QED BY <1>0, <1>6, <1>7, <1>8

\* The calls that finish what is marked are for records.
LEMMA MarkedNamed ==
    ASSUME TypeInv, NamedInv, Narrowed, NEW x \in MarkedIn(mHistory')
    PROVE  /\ x \in [token : Token, pid : Pid]
           /\ \E g \in Filed : g.token = x.token /\ g.pid = x.pid
<1>1. PICK t \in DOMAIN mHistory' :
          \E r \in Range(mHistory'[t].activities) : x = [token |-> r.token, pid |-> r.pid]
  BY DEF MarkedIn
<1>2. PICK i \in DOMAIN mHistory'[t].activities :
          x = [token |-> mHistory'[t].activities[i].token, pid |-> mHistory'[t].activities[i].pid]
  BY <1>1 DEF Range
<1>3. t \in DOMAIN mHistory
  BY DEF Narrowed
<1>4. PICK k \in DOMAIN mHistory[t].activities : Same(mHistory'[t].activities[i], mHistory[t].activities[k])
  BY DEF Narrowed, Kept
<1> DEFINE r == mHistory[t].activities[k]
           g == [token |-> r.token, pid |-> r.pid, task |-> t]
<1>5. r \in ActivityRecord /\ g \in Filed
  BY <1>3, InFiled
<1> HIDE DEF r
<1>6. x = [token |-> r.token, pid |-> r.pid]
  BY <1>2, <1>4 DEF Same, r
<1>7. x \in [token : Token, pid : Pid]
  BY <1>5, <1>6 DEF ActivityRecord
<1>8. g.token = x.token /\ g.pid = x.pid
  BY <1>6
<1> HIDE DEF g
<1> QED BY <1>5, <1>7, <1>8

\* All that is marked gets its call.
LEMMA MarkedAll ==
    ASSUME NEW h, NEW t \in DOMAIN h, NEW i \in DOMAIN h[t].activities, h[t].activities[i].marked
    PROVE  [token |-> h[t].activities[i].token, pid |-> h[t].activities[i].pid] \in MarkedIn(h)
<1> DEFINE r == h[t].activities[i]
<1>1. r \in {q \in Range(h[t].activities) : q.marked}
  BY DEF Range
<1> HIDE DEF r
<1>2. [token |-> r.token, pid |-> r.pid] \in
          {[token |-> q.token, pid |-> q.pid] : q \in {q \in Range(h[t].activities) : q.marked}}
  BY <1>1
<1>3. [token |-> r.token, pid |-> r.pid] \in MarkedIn(h)
  BY <1>2 DEF MarkedIn
<1> QED BY <1>3 DEF r

\* A start leaves the records as they are, but for marks; it posts a call for
\* each mark. If it goes on to launch a single activity, the others of it are
\* not to be seen, or marked.
LEMMA StartedStep ==
    ASSUME IInv, NEW c \in Comp, NEW flags, pc = "idle", spent.starts < MaxStarts,
           spent' = [spent EXCEPT !.starts = @ + 1],
           owed' = [owed EXCEPT !.unseen = @ \union Unseen(c, flags)],
           UNCHANGED <<android, process, calls>>,
           Narrowed, \A f \in Filed : f.task \in recents => f \in Filed',
           posted \subseteq posted', \A x \in posted' : x \in posted \union MarkedIn(mHistory'),
           MarkInv',
           \/ UNCHANGED <<pc, job>>
           \/ /\ pc' \in {"newTask", "inTask"} /\ job'.comp = c
              /\ job' \in [comp : Comp, task : Task \union {NoTask}, last : Token \union {0}]
              /\ Single(c) => \A a \in Live : comp[a] = c => a \in Unseen(c, flags) \union Excused'
    PROVE  IInv'
<1> USE DEF IInv, android, process, calls
<1>1. Live' = Live /\ \A b : TaskOf(b)' = TaskOf(b)
  BY LiveStays
<1>2. \A f \in Filed' : f \in Filed /\ f.task \in recents
  BY NarrowedFiled
<1>3. Unseen(c, flags) \subseteq Token
  BY Bounds DEF Unseen, StackInv
<1>4. /\ owed' \in OwedType /\ owed'.silent = owed.silent /\ owed'.again = owed.again
      /\ owed'.belated = owed.belated /\ owed'.spared = owed.spared
      /\ owed'.unseen = owed.unseen \union Unseen(c, flags)
  BY <1>3 DEF TypeInv, OwedType
<1>5. \A x \in posted' : x \in [token : Token, pid : Pid] /\
          (x \in posted \/ \E g \in Filed : g.token = x.token /\ g.pid = x.pid)
  BY MarkedNamed DEF TypeInv
<1>6. TypeInv'
  <2>1. spent \in [starts : 0..MaxStarts, troubles : 0..MaxTroubles]
    BY DEF TypeInv
  <2>2. /\ spent' \in [starts : 0..MaxStarts, troubles : 0..MaxTroubles]
        /\ spent'.starts = spent.starts + 1 /\ spent'.troubles = spent.troubles
    BY <2>1, ActivityTasksAssumption
  <2>3. Len(comp) + (IF pc' = "idle" THEN 0 ELSE 1) <= spent'.starts
    <3>1. Len(comp) \in Nat /\ Len(comp) <= spent.starts /\ spent.starts \in Nat
      BY Bounds DEF TypeInv
    <3> QED BY <2>2, <3>1
  <2>4. pc' \in {"idle", "newTask", "inTask"}
    OBVIOUS
  <2>5. job' \in [comp : Comp, task : Task \union {NoTask}, last : Token \union {0}]
    BY DEF TypeInv
  <2>6. posted' \subseteq [token : Token, pid : Pid]
    BY <1>5
  <2>7. mHistory' \in [DOMAIN mHistory' -> TaskRecord]
    BY DEF Narrowed
  <2> QED BY <1>4, <2>2, <2>3, <2>4, <2>5, <2>6, <2>7 DEF TypeInv
<1>7. /\ DOMAIN mHistory' \subseteq DOMAIN stack' \union {NoTask}
      /\ \A t \in DOMAIN mHistory' : \A i \in DOMAIN mHistory'[t].activities :
            LET r == mHistory'[t].activities[i] IN
            r.token \in DOMAIN comp' /\ r.component = comp'[r.token] /\ r.pid <= pid'
      /\ HomeInv' /\ OnceInv' /\ OrderInv' /\ CreatingInv'
  BY <1>4, NarrowedStep
<1>8. NamedInv'
  <2>1. \A x \in posted' : x.token \in DOMAIN comp /\ x.pid <= pid
    BY <1>5, FiledNamed
  <2> QED BY <1>4, <1>7, <2>1 DEF NamedInv
<1>9. StackInv'
  BY <1>1, <1>4 DEF StackInv
<1>10. NoticeInv' /\ BackedInv'
  BY <1>1, <1>2, <1>4 DEF NoticeInv, BackedInv, Odd
<1>11. KnownInv'
  <2>1. \A f \in (Filed \union creating \union posted)' : f.pid = pid /\ f.token \in Live => f.token \in known
    BY <1>2, <1>5 DEF KnownInv
  <2>2. ASSUME NEW x \in creating, x.token \notin Odd
        PROVE  /\ \A f \in (Filed \union posted)' : f.token = x.token => f.pid < x.pid
               /\ x.pid = pid => x.token \notin up
    BY <1>2, <1>5, <2>2 DEF KnownInv
  <2> QED BY <1>1, <1>4, <2>1, <2>2 DEF KnownInv, Odd
<1>12. ListedInv'
  <2>1. \A b \in up : TaskOf(b) \in recents
    BY TaskOfIs DEF StackInv
  <2> QED BY <1>1, <2>1 DEF ListedInv
<1>13. \A a \in Excused \union Unseen(c, flags) : a \in Excused'
  BY <1>4 DEF Excused
<1>14. JobInv'
  BY <1>1, <1>13 DEF JobInv
<1>15. SingleInv'
  BY <1>1, <1>13 DEF SingleInv
<1> QED BY <1>6, <1>7, <1>8, <1>9, <1>10, <1>11, <1>12, <1>14, <1>15

\* The task of a start, and what is done to it.
LEMMA StartActivityLockedStep ==
    ASSUME IInv, NEW c \in Comp, NEW intentFlags, NEW source, NEW sameIntent,
           StartActivityLocked(c, intentFlags, source, sameIntent)
    PROVE  IInv'
<1> DEFINE listed == source # 0 /\ Places(Optimized, source) # {}
           sourceTask == IF listed THEN Place(Optimized, source)[1] ELSE NoTask
           flags == IF listed THEN Flags(c, intentFlags, source) ELSE intentFlags
           t == ReuseTask(Optimized, c, flags, sourceTask)
           result == Cleared(Optimized[t].activities, c, flags)
           v == result.activities
           w == Optimized[t].activities
<1>1. /\ pc = "idle" /\ spent.starts < MaxStarts
      /\ spent' = [spent EXCEPT !.starts = @ + 1]
      /\ owed' = [owed EXCEPT !.unseen = @ \union Unseen(c, flags)]
      /\ UNCHANGED <<android, process, calls>>
  BY DEF StartActivityLocked
<1>2. \/ /\ t = NoTask /\ mHistory' = Optimized /\ UNCHANGED posted
         /\ pc' = "newTask" /\ job' = [NoJob EXCEPT !.comp = c]
      \/ /\ t # NoTask /\ mHistory' = [Optimized EXCEPT ![t].activities = v]
         /\ posted' = IF result.marked THEN posted \union MarkedIn(mHistory') ELSE posted
         /\ \/ UNCHANGED <<pc, job>>
            \/ ~result.delivered /\ pc' = "inTask" /\ job' = [NoJob EXCEPT !.comp = c, !.task = t]
  BY DEF StartActivityLocked
<1>3. sourceTask \in DOMAIN Optimized \union {NoTask}
  BY PlaceIs DEF IInv
<1> HIDE DEF listed, sourceTask, flags
<1>4. t \in DOMAIN Optimized \union {NoTask}
  BY <1>3, ReuseTaskIs DEF IInv
<1>5. /\ DOMAIN Optimized = DOMAIN mHistory \intersect recents
      /\ \A u \in DOMAIN Optimized : Optimized[u] = mHistory[u] /\ Optimized[u].activities \in Seq(ActivityRecord)
      /\ \A u \in DOMAIN Optimized : u \in Task /\ u # NoTask
  <2>1. TypeInv
    BY DEF IInv
  <2>2. /\ DOMAIN Optimized = DOMAIN mHistory \intersect recents
        /\ \A u \in DOMAIN Optimized : Optimized[u] = mHistory[u] /\ Optimized[u].activities \in Seq(ActivityRecord)
    BY <2>1, OptimizedIs
  <2>3. recents \subseteq Task
    BY <2>1, Bounds DEF TypeInv
  <2>4. \A u \in Task : u # NoTask
    BY DEF Task, NoTask
  <2> QED BY <2>2, <2>3, <2>4
<1>6. NoJob = [comp |-> CHOOSE d \in Comp : TRUE, task |-> NoTask, last |-> 0]
  BY DEF NoJob
<1>7. ASSUME NEW a \in Live, comp[a] = c, Single(c), a \notin Unseen(c, flags)
      PROVE  /\ t \in DOMAIN Optimized
             /\ \E i \in DOMAIN Optimized[t].activities :
                   /\ Optimized[t].activities[i].token = a
                   /\ \A j \in i + 1..Len(Optimized[t].activities) : Optimized[t].activities[j].component # c
  <2>1. Found(a, c) /\ ~Multiple(c, flags)
    BY <1>7 DEF Unseen
  <2>2. PICK u \in TasksFor(c) :
            /\ TasksFor(c) = {u}
            /\ \E i \in DOMAIN Optimized[u].activities :
                   /\ Optimized[u].activities[i].token = a
                   /\ \A j \in i + 1..Len(Optimized[u].activities) : Optimized[u].activities[j].component # c
    BY <2>1 DEF Found
  <2>3. u \in DOMAIN Optimized
    BY DEF TasksFor
  <2>4. t = u
    BY <1>7, <2>1, <2>2, <2>3, ReuseTaskFound DEF IInv
  <2> QED BY <2>2, <2>3, <2>4
<1>8. CASE t = NoTask
  <2>1. /\ mHistory' = Optimized /\ UNCHANGED posted
        /\ pc' = "newTask" /\ job' = [NoJob EXCEPT !.comp = c]
    BY <1>2, <1>8
  <2>2. /\ Narrowed
        /\ \A u \in DOMAIN mHistory' : Unmarked(mHistory'[u].activities, mHistory[u].activities)
        /\ \A f \in Filed : f.task \in recents => f \in Filed'
    BY <2>1, OptimizedKept
  <2>3. MarkInv'
    <3>1. owed'.spared = owed.spared
      BY <1>1 DEF IInv, TypeInv, OwedType
    <3> QED BY <1>1, <2>1, <2>2, <3>1, NarrowedMarks DEF process
  <2>4. job'.comp = c /\ job' \in [comp : Comp, task : Task \union {NoTask}, last : Token \union {0}]
    BY <1>6, <2>1
  <2>5. Single(c) => \A a \in Live : comp[a] = c => a \in Unseen(c, flags)
    BY <1>5, <1>7, <1>8
  <2> HIDE DEF t
  <2> QED BY <1>1, <2>1, <2>2, <2>3, <2>4, <2>5, StartedStep
<1>9. CASE t # NoTask
  <2>1. /\ mHistory' = [Optimized EXCEPT ![t].activities = v]
        /\ posted' = IF result.marked THEN posted \union MarkedIn(mHistory') ELSE posted
        /\ \/ UNCHANGED <<pc, job>>
           \/ ~result.delivered /\ pc' = "inTask" /\ job' = [NoJob EXCEPT !.comp = c, !.task = t]
    BY <1>2, <1>9
  <2>2. t \in DOMAIN Optimized /\ t \in Task
    BY <1>4, <1>5, <1>9
  <2> HIDE DEF t
  <2>3. /\ w \in Seq(ActivityRecord) /\ w = mHistory[t].activities
        /\ t \in DOMAIN mHistory \intersect recents
    BY <1>5, <2>2
  <2>4. /\ v \in Seq(ActivityRecord) /\ Kept(v, w) /\ DOMAIN v = DOMAIN w
        /\ \A i \in DOMAIN w : Same(v[i], w[i])
        /\ \A i \in DOMAIN w : v[i].marked => result.marked \/ w[i].marked
    <3> HIDE DEF w
    <3> QED BY <2>3, ClearedIs DEF w
  <2> DEFINE h == [Optimized EXCEPT ![t].activities = v]
  <2>5. /\ h \in [DOMAIN Optimized -> TaskRecord] /\ h[t].activities = v
        /\ \A u \in DOMAIN Optimized : u # t => h[u] = Optimized[u]
    <3> HIDE DEF v
    <3> QED BY <2>2, <2>4, Replaced DEF IInv
  <2>6. mHistory' = h
    BY <2>1
  <2> HIDE DEF h, v, result
  <2>7. Narrowed /\ \A f \in Filed : f.task \in recents => f \in Filed'
    <3>1. ASSUME NEW u \in DOMAIN Optimized
          PROVE  /\ Kept(h[u].activities, Optimized[u].activities)
                 /\ \A j \in DOMAIN Optimized[u].activities :
                       \E i \in DOMAIN h[u].activities : Same(h[u].activities[i], Optimized[u].activities[j])
      <4>1. CASE u = t
        BY <2>4, <2>5, <4>1
      <4>2. CASE u # t
        BY <2>5, <4>2, SameKept DEF Same
      <4> QED BY <4>1, <4>2
    <3> QED BY <2>5, <2>6, <3>1, AllKept
  <2>8. posted \subseteq posted' /\ \A x \in posted' : x \in posted \union MarkedIn(mHistory')
    BY <2>1
  <2>9. owed'.spared = owed.spared /\ Live' = Live
    BY <1>1, LiveStays DEF IInv, TypeInv, OwedType, android
  <2>10. MarkInv'
    <3> SUFFICES ASSUME NEW u \in DOMAIN mHistory', NEW i \in DOMAIN mHistory'[u].activities,
                        mHistory'[u].activities[i].marked, mHistory'[u].activities[i].token \in Live
                 PROVE  LET q == mHistory'[u].activities[i] IN
                        /\ q.pid = pid => [token |-> q.token, pid |-> q.pid] \in posted'
                        /\ q.token \in owed.spared \union {x.token : x \in posted'}
      BY <1>1, <2>9 DEF MarkInv, process
    <3> DEFINE q == mHistory'[u].activities[i]
    <3>1. CASE result.marked
      <4>1. [token |-> q.token, pid |-> q.pid] \in MarkedIn(mHistory')
        BY MarkedAll
      <4>2. [token |-> q.token, pid |-> q.pid] \in posted'
        BY <2>1, <3>1, <4>1
      <4> HIDE DEF q
      <4>3. q.token \in {x.token : x \in posted'}
        BY <4>2
      <4> QED BY <4>2, <4>3 DEF q
    <3>2. CASE ~result.marked
      <4>1. u \in DOMAIN mHistory \intersect recents
        BY <2>7 DEF Narrowed
      <4>2. \E k \in DOMAIN mHistory[u].activities :
                mHistory[u].activities[k].marked /\ Same(q, mHistory[u].activities[k])
        <5>1. CASE u = t
          BY <2>3, <2>4, <2>5, <2>6, <3>2, <5>1
        <5>2. CASE u # t
          BY <1>5, <2>5, <2>6, <4>1, <5>2 DEF Same
        <5> QED BY <5>1, <5>2
      <4>3. posted' = posted
        BY <2>1, <3>2
      <4> QED BY <4>1, <4>2, <4>3 DEF IInv, MarkInv, Same
    <3> QED BY <3>1, <3>2
  <2>11. ASSUME ~result.delivered, Single(c), NEW a \in Live, comp[a] = c, a \notin Unseen(c, flags)
         PROVE  a \in Excused'
    <3>1. PICK i \in DOMAIN w : w[i].token = a /\ \A j \in i + 1..Len(w) : w[j].component # c
      BY <1>7, <2>11
    <3>2. w[i].component = c
      BY <2>3, <2>11, <3>1 DEF IInv, NamedInv
    <3>3. w[i].marked
      <4> SUFFICES ASSUME ~w[i].marked PROVE FALSE
        OBVIOUS
      <4> HIDE DEF w
      <4>1. Cleared(w, c, flags).delivered
        BY <2>3, <2>11, <3>1, <3>2, ClearedFound
      <4> QED BY <2>11, <4>1 DEF result, w
    <3>4. a \in owed.spared \union {x.token : x \in posted}
      BY <2>3, <3>1, <3>3 DEF IInv, MarkInv
    <3> QED BY <2>8, <2>9, <3>4 DEF Excused
  <2>12. CASE UNCHANGED <<pc, job>>
    BY <1>1, <2>7, <2>8, <2>10, <2>12, StartedStep
  <2>13. CASE ~result.delivered /\ pc' = "inTask" /\ job' = [NoJob EXCEPT !.comp = c, !.task = t]
    <3>1. job'.comp = c /\ job' \in [comp : Comp, task : Task \union {NoTask}, last : Token \union {0}]
      BY <1>6, <2>2, <2>13
    <3>2. pc' \in {"newTask", "inTask"}
      BY <2>13
    <3>3. Single(c) => \A a \in Live : comp[a] = c => a \in Unseen(c, flags) \union Excused'
      BY <2>11, <2>13
    <3> QED BY <1>1, <2>7, <2>8, <2>10, <3>1, <3>2, <3>3, StartedStep
  <2> QED BY <2>1, <2>12, <2>13
<1> QED BY <1>8, <1>9

-----------------------------------------------------------------------------
(* Theorems                                                                *)

\* Every step of the specification keeps the invariant.
LEMMA NextStep ==
    ASSUME IInv, [Next]_vars
    PROVE  IInv'
<1>1. CASE Start
  BY <1>1, StartActivityLockedStep DEF Start
<1>2. CASE StartActivityInNewTask
  BY <1>2, StartActivityInNewTaskStep
<1>3. CASE StartActivityFromSourceTask
  BY <1>3, StartActivityFromSourceTaskStep
<1>4. CASE NoProcess
  BY <1>4, NoProcessStep
<1>5. ASSUME NEW a \in Token,
             DestroyForMemory(a) \/ FinishActivity(a) \/ HandleLaunchActivity(a) \/ OnActivityDestroyed(a)
      PROVE  IInv'
  BY <1>5, DestroyForMemoryStep, FinishActivityStep, HandleLaunchActivityStep, OnActivityDestroyedStep
<1>6. ASSUME NEW t \in DOMAIN stack,
             Relaunch(t) \/ RemoveTask(t) \/ ForgetTask(t) \/ FinishAffinity(t) \/ OnActivityResumed(t)
      PROVE  IInv'
  BY <1>6, RelaunchStep, RemoveTaskStep, ForgetTaskStep, FinishAffinityStep, OnActivityResumedStep
<1>7. ASSUME NEW x \in creating, OnActivityCreated(x) PROVE IInv'
  BY <1>7, OnActivityCreatedStep
<1>8. ASSUME NEW x \in posted, FinishMarked(x) PROVE IInv'
  BY <1>8, FinishMarkedStep
<1>9. ASSUME NEW p \in notices, ProcessDied(p) PROVE IInv'
  BY <1>9, ProcessDiedStep
<1>10. CASE Die
  BY <1>10, DieStep
<1>11. CASE UNCHANGED vars
  <2>1. UNCHANGED <<mHistory, pc, job, posted, comp, stack, recents, pid, launch, up, known>>
    BY <1>11 DEF vars, server, android, process
  <2>2. UNCHANGED <<creating, reports, notices, spent, owed>>
    BY <1>11 DEF vars, calls
  <2>3. Filed' = Filed /\ Live' = Live /\ \A b : TaskOf(b)' = TaskOf(b)
    BY <2>1, FiledStays, LiveStays
  <2>4. TypeInv' /\ NamedInv' /\ StackInv' /\ NoticeInv'
    BY <2>1, <2>2, <2>3 DEF IInv, TypeInv, NamedInv, StackInv, NoticeInv
  <2>5. HomeInv' /\ OnceInv' /\ KnownInv' /\ CreatingInv'
    BY <2>1, <2>2, <2>3 DEF IInv, HomeInv, OnceInv, KnownInv, CreatingInv, Odd
  <2>6. OrderInv' /\ ListedInv' /\ BackedInv' /\ MarkInv'
    BY <2>1, <2>2, <2>3 DEF IInv, OrderInv, ListedInv, BackedInv, MarkInv, Odd
  <2>7. JobInv' /\ SingleInv'
    BY <2>1, <2>2, <2>3 DEF IInv, JobInv, SingleInv, Excused
  <2> QED BY <2>4, <2>5, <2>6, <2>7 DEF IInv
<1> QED BY <1>1, <1>2, <1>3, <1>4, <1>5, <1>6, <1>7, <1>8, <1>9, <1>10, <1>11 DEF Next

\* The invariant holds in every state that startActivity, the calls of the
\* process and what Android does by itself can reach.
THEOREM Invariance == Spec => []IInv
<1>1. Init => IInv
  BY InitIInv
<1>2. IInv /\ [Next]_vars => IInv'
  BY NextStep
<1> QED BY <1>1, <1>2, PTL DEF Spec

\* The types of the records, the calls and the histories; an activity that runs
\* has its record in the process, for any app and any bounds.
THEOREM TypeCorrect == Spec => []TypeOK
<1>1. IInv => TypeOK
  <2> SUFFICES ASSUME IInv PROVE TypeOK
    OBVIOUS
  <2> USE DEF IInv
  <2>1. DOMAIN mHistory \subseteq Task \union {NoTask} /\ \A t \in DOMAIN mHistory : mHistory[t] \in TaskRecord
    BY Bounds DEF TypeInv, NamedInv
  <2>2. Range(comp) \subseteq Comp /\ Len(comp) <= spent.starts
    <3>1. comp \in Seq(Comp) /\ DOMAIN comp = 1..Len(comp) /\ Len(comp) \in Nat /\ spent.starts \in Nat
      BY Bounds DEF TypeInv
    <3>2. \A i \in DOMAIN comp : comp[i] \in Comp
      BY <3>1
    <3>3. Len(comp) <= spent.starts
      BY <3>1 DEF TypeInv
    <3> QED BY <3>2, <3>3 DEF Range
  <2>3. pid \in Pid /\ launch \union up \union known \union reports \subseteq DOMAIN comp
    BY Bounds DEF TypeInv
  <2> QED BY <2>1, <2>2, <2>3 DEF TypeInv, TypeOK
<1> QED BY <1>1, Invariance, PTL

\* What mHistory shows in a task that Android has stands for an activity that
\* lives or whose end is on its way, or for one of the exceptions that the code
\* makes: finishAffinity, a second launch in a process, a call after its notice.
THEOREM RecordsAreBackedAlways == Spec => []RecordsAreBacked
<1>1. IInv => RecordsAreBacked
  <2> SUFFICES ASSUME IInv, NEW r \in Records
               PROVE  \/ r.token \in Live \union reports \/ r.pid \in notices
                      \/ r.token \in owed.silent \union owed.again \union owed.belated
    BY DEF RecordsAreBacked
  <2>1. PICK t \in DOMAIN mHistory \intersect recents : r \in Range(mHistory[t].activities)
    BY DEF Records
  <2>2. PICK i \in DOMAIN mHistory[t].activities : r = mHistory[t].activities[i]
    BY <2>1 DEF Range
  <2> DEFINE f == [token |-> r.token, pid |-> r.pid, task |-> t]
  <2>3. f \in Filed
    BY <2>2, InFiled DEF IInv
  <2>4. f.token = r.token /\ f.pid = r.pid /\ f.task \in recents
    OBVIOUS
  <2> HIDE DEF f
  <2> QED BY <2>3, <2>4 DEF IInv, BackedInv, Odd
<1> QED BY <1>1, Invariance, PTL

\* An activity that runs is found by its token, in its task and with its
\* process, whatever notices, reports and forgotten tasks come in between.
THEOREM RunningIsListedAlways == Spec => []RunningIsListed
<1>1. IInv => RunningIsListed
  <2> SUFFICES ASSUME IInv, NEW a \in up
               PROVE  TaskOf(a) \in DOMAIN mHistory /\
                          \E r \in Range(mHistory[TaskOf(a)].activities) : r.token = a /\ r.pid = pid
    BY DEF RunningIsListed
  <2> DEFINE f == [token |-> a, pid |-> pid, task |-> TaskOf(a)]
  <2>1. f \in Filed /\ f.token = a /\ f.pid = pid /\ f.task = TaskOf(a)
    BY DEF IInv, ListedInv
  <2> HIDE DEF f
  <2>2. f.task \in DOMAIN mHistory
    BY <2>1 DEF Filed
  <2>3. PICK i \in DOMAIN mHistory[f.task].activities :
            mHistory[f.task].activities[i].token = f.token /\ mHistory[f.task].activities[i].pid = f.pid
    BY <2>1 DEF Filed
  <2>4. mHistory[f.task].activities[i] \in Range(mHistory[f.task].activities)
    BY DEF Range
  <2> QED BY <2>1, <2>2, <2>3, <2>4
<1> QED BY <1>1, Invariance, PTL

\* Two activities of a single component live only when a start could not see
\* the first, or when the first is to be finished or its process had died.
THEOREM SingleTaskOnceAlways == Spec => []SingleTaskOnce
<1>1. IInv => SingleTaskOnce
  BY DEF IInv, SingleInv, SingleTaskOnce, Excused
<1> QED BY <1>1, Invariance, PTL

\* An activity with a mark, of the process that runs, has its call of
\* finishActivity on the main thread.
THEOREM MarkedIsPostedAlways == Spec => []MarkedIsPosted
<1>1. IInv => MarkedIsPosted
  <2> SUFFICES ASSUME IInv, NEW r \in Records, r.marked, r.pid = pid, r.token \in Live
               PROVE  [token |-> r.token, pid |-> pid] \in posted
    BY DEF MarkedIsPosted
  <2>1. PICK t \in DOMAIN mHistory \intersect recents : r \in Range(mHistory[t].activities)
    BY DEF Records
  <2>2. PICK i \in DOMAIN mHistory[t].activities : r = mHistory[t].activities[i]
    BY <2>1 DEF Range
  <2> QED BY <2>2 DEF IInv, MarkInv
<1> QED BY <1>1, Invariance, PTL
=============================================================================
