-------------------------- MODULE InterposeProofs --------------------------
(***************************************************************************)
(* Proofs about the command wrappers, for any number of interposed         *)
(* commands and guests, any files and any history of the repository:       *)
(* snapshot branches are never moved and keep what a destructive command   *)
(* discards, and a repair takes the newest clean version of the files that *)
(* held markers, and of no others.                                         *)
(***************************************************************************)
EXTENDS Interpose, SequenceTheorems, WellFoundedInduction, TLAPS

----------------------------------------------------------------------------
(* Types *)

Locs == Operations \cup {"rest", "gather", "pass", "refuse"}

Job == [file : Threads, ref : Name]

CallRec ==
  [outcome : {"none", "open", "ran", "refused"},
   kind : {"commit", "reset", "status", "kill"},
   where : Places \cup {"unwrapped"},
   short : 0..MaxCommits, second : 0..MaxSecond,
   found : SUBSET Job, job : Job, left : [Files -> SUBSET Name]]

Ask == [id : Nat, for : Threads]

ConnRec(answers) ==
  [next : Nat, asks : Seq(Ask), answers : {answers}, broken : BOOLEAN]

ThreadRec == [loc : Locs, ph : {"ready", "numbered", "waiting"}, id : Nat]

Past(n) == commits[n].past

(* The commits form a forest in which numbers grow.                        *)
Graph ==
  /\ commits \in Seq([tree : [Files -> Contents], past : SUBSET Nat])
  /\ Len(commits) <= MaxCommits
  /\ head \in DOMAIN commits
  /\ \A n \in DOMAIN commits :
       /\ n \in Past(n) /\ Past(n) \subseteq 1..n
       /\ \A m \in Past(n) : Past(m) \subseteq Past(n)

(* A snapshot keeps of the commit it is named after what is still on the   *)
(* branch.                                                                 *)
Kept ==
  \A n \in DOMAIN refs :
    /\ n.short # 0 => n.short \in DOMAIN commits
    /\ n.short # 0 => Past(head) \cap Past(n.short) \subseteq Past(refs[n])

Repository ==
  /\ Graph
  /\ work \in [Files -> Contents]
  /\ now \in 0..MaxSecond
  /\ refs \in [DOMAIN refs -> DOMAIN commits]
  /\ DOMAIN refs \subseteq Name
  /\ Kept

Shapes ==
  /\ call \in [Calls -> CallRec]
  /\ thread \in [Calls -> [Threads -> ThreadRec]]
  /\ owed \in [Calls -> [Files -> SUBSET Contents]]
  /\ conn = [c \in Guests |-> conn[c]]
  /\ \A c \in Guests : conn[c] \in ConnRec(conn[c].answers)

----------------------------------------------------------------------------
(* Where the goroutines of a call are. *)

InRepair == {"bare", "files", "refs", "gather", "checkout"}
InSnapshot == {"head", "short", "snap"}

Stages(c) ==
  LET main == Loc(c, "main") IN
  /\ main \notin {"read", "show"}
  /\ \A f \in Files : Loc(c, f) \in {"rest", "read", "show"}
  /\ \A t \in Threads : thread[c][t].ph # "ready" => Loc(c, t) \in Operations /\ c \in Guests
  /\ main \in InRepair => call[c].kind = "commit"
  /\ main \in InSnapshot => call[c].kind = "reset"
  /\ main = "root" => call[c].kind \in {"commit", "reset"}
  /\ main = "confirm" => call[c].kind = "kill"
  /\ main \notin {"gather", "checkout"} =>
       call[c].found = {} /\ \A f \in Files : Loc(c, f) = "rest"
  /\ main \notin {"gather", "checkout", "pass"} => \A f \in Files : owed[c][f] = {}
  /\ Open(c) <=> main # "rest"
  /\ ~Open(c) => call[c].job = NoJob /\ (c \in Guests => conn[c] = NoConn)

(* What a goroutine looks for, and what it has found, are snapshots; a     *)
(* file is looked for once.                                                *)
Jobs(c) ==
  call[c].found \cup (IF Loc(c, "main") = "checkout" THEN {call[c].job} ELSE {})

Searches(c) ==
  /\ \A f \in Files :
       /\ call[c].left[f] \subseteq DOMAIN refs
       /\ Loc(c, f) \in {"read", "show"} => call[c].left[f] # {}
  /\ \A j \in Jobs(c) :
       /\ j.file \in Files /\ j.ref \in DOMAIN refs
       /\ Loc(c, j.file) = "rest"

----------------------------------------------------------------------------
(* The connection of a guest *)

OneFile == \A f, g \in Files : f = g

(* No two goroutines of the call use one connection: it needs none, or     *)
(* there is one file to look for.                                          *)
Orderly(c) == c \in Hosts \/ OneFile

(* Only one goroutine uses the connection at present.                      *)
Alone(c) == OneFile \/ Loc(c, "main") \in Operations \ {"checkout"}

(* What a call sees of the repository and of its own history.              *)
World ==
  [work |-> work, refs |-> DOMAIN refs, commits |-> DOMAIN commits,
   troubled |-> troubled, sawMarks |-> sawMarks, others |-> others]

(* What the result of an operation tells of the world in which it was      *)
(* carried out.                                                            *)
SoundIn(w, c, t, r) ==
  /\ /\ Loc(c, t) \in {"root", "head"} /\ call[c].kind = "reset"
     /\ c \notin w.troubled /\ call[c].where = "repo"
     => r.how = "ok"
  /\ Loc(c, t) = "refs" /\ r.how = "ok" => r.val \subseteq w.refs
  /\ Loc(c, t) = "read" =>
       /\ r.how = "ok" /\ r.val = "marked" => <<c, t>> \in w.sawMarks
       /\ c \notin w.troubled /\ <<c, t>> \notin w.others /\ owed[c][t] # {}
            /\ "none" \notin Versions => r.how = "ok" /\ r.val = "marked"
  /\ Loc(c, t) = "show" /\ c \notin w.troubled => r = Shown(Newest(call[c].left[t]), t)
  /\ Loc(c, t) = "checkout" /\ c \notin w.troubled =>
       LET f == call[c].job.file IN
       <<c, f>> \notin w.others /\ owed[c][f] # {} /\ "none" \notin Versions =>
         w.work[f] \in owed[c][f]
  /\ Loc(c, t) = "short" =>
       /\ c \notin w.troubled => r.how = "ok"
       /\ r.how = "ok" => r.val \in w.commits
  /\ Loc(c, t) = "snap" /\ c \notin w.troubled => r.how # "err" /\ SnapName(c) \in w.refs

Sound(c, t, r) == SoundIn(World, c, t, r)

(* One goroutine's request or its answer is under way, or nothing is.      *)
Matched(c) ==
  \/ /\ \A t \in Threads : thread[c][t].ph # "waiting"
     /\ conn[c].asks = <<>> /\ conn[c].answers = <<>>
  \/ \E t \in Threads :
       /\ thread[c][t].ph = "waiting"
       /\ \/ /\ conn[c].asks = <<[id |-> thread[c][t].id, for |-> t]>>
             /\ conn[c].answers = <<>>
          \/ \E r \in {conn[c].answers[1].r} :
               /\ conn[c].asks = <<>>
               /\ conn[c].answers = <<[id |-> thread[c][t].id, r |-> r]>>
               /\ Sound(c, t, r)

Connection(c) ==
  c \in Guests =>
    /\ conn[c].broken /\ (OneFile \/ call[c].kind # "commit") => c \in troubled
    /\ ~conn[c].broken /\ Alone(c) => Matched(c)

----------------------------------------------------------------------------
(* What a destructive command finds, and what a repair owes. *)

Snapshotted(c) ==
  /\ call[c].short # 0 => call[c].short \in DOMAIN commits
  /\ Open(c) /\ call[c].kind = "reset" /\ call[c].where = "repo" /\ c \notin troubled =>
       /\ Loc(c, "main") \in {"snap", "pass"} => call[c].short # 0
       /\ Loc(c, "main") = "pass" => SnapName(c) \in DOMAIN refs

Marks(c) ==
  \A f \in Files : Open(c) /\ work[f] = "marked" => <<c, f>> \in sawMarks

OnlyMarked(c) ==
  /\ \A f \in Files : Loc(c, f) = "show" => <<c, f>> \in sawMarks
  /\ \A j \in call[c].found \cup {call[c].job} : j = NoJob \/ <<c, j.file>> \in sawMarks

(* What the newest clean snapshots have, given what each snapshot has.     *)
CleanOf(versions) ==
  LET clean == {n \in DOMAIN versions : versions[n] \notin {"marked", "none"}}
      last == Max({n.second : n \in clean})
  IN {versions[n] : n \in {m \in clean : m.second = last}}

Held(c, f) == [n \in call[c].left[f] |-> Committed(n, f)]

Repaired(c) ==
  \A f \in Files :
    c \notin troubled /\ <<c, f>> \notin others /\ owed[c][f] # {} =>
      /\ Loc(c, f) # "rest" =>
           work[f] = "marked" /\ CleanOf(Held(c, f)) = owed[c][f]
      /\ \A j \in Jobs(c) : j.file = f => Committed(j.ref, f) \in owed[c][f]
      /\ Loc(c, f) = "rest" => work[f] \in owed[c][f] \/ \E j \in Jobs(c) : j.file = f

(* The calls that left commits without a branch have ended.                *)
Lost ==
  \A p \in lost :
    /\ p[1] \in Calls /\ call[p[1]].outcome = "ran"
    /\ p[1] \notin troubled /\ call[p[1]].where = "repo" =>
         call[p[1]].short # 0 /\ p[2] \notin Past(call[p[1]].short)

(* All but the connection.                                                 *)
Progress(c) ==
  /\ Stages(c) /\ Searches(c)
  /\ Snapshotted(c) /\ Marks(c)
  /\ Orderly(c) => OnlyMarked(c) /\ ("none" \notin Versions => Repaired(c))

CallInv(c) == Connection(c) /\ Progress(c)

(* The inductive invariant.                                                *)
IInv == Repository /\ Shapes /\ Lost /\ \A c \in Calls : CallInv(c)

----------------------------------------------------------------------------
(* Numbers *)

LessThan == {p \in Nat \X Nat : p[1] < p[2]}

(* A set of numbers has a least element, and a bounded one a greatest.     *)
LEMMA Least ==
  ASSUME NEW S, S \subseteq Nat, S # {}
  PROVE  \E x \in S : \A y \in S : x <= y
<1>1. IsWellFoundedOn(LessThan, Nat)
  <2>1. LessThan = OpToRel(<, Nat)
    BY DEF LessThan, OpToRel
  <2> QED
    BY <2>1, NatLessThanWellFounded
<1>2. PICK x \in S : \A y \in S : ~(<<y, x>> \in LessThan)
  BY <1>1, WFMin
<1>3. ASSUME NEW y \in S PROVE x <= y
  <2>1. x \in Nat /\ y \in Nat /\ ~(<<y, x>> \in LessThan)
    BY <1>2
  <2>2. ~(y < x)
    BY <2>1 DEF LessThan
  <2> QED
    BY <2>1, <2>2
<1> QED
  BY <1>3

LEMMA Greatest ==
  ASSUME NEW b \in Nat, NEW S, S \subseteq 0..b, S # {}
  PROVE  Max(S) \in S /\ \A y \in S : y <= Max(S)
<1> DEFINE D == {b - x : x \in S}
<1>1. D \subseteq Nat /\ D # {}
  <2>1. ASSUME NEW x \in S PROVE b - x \in Nat
    <3>1. x \in 0..b
      OBVIOUS
    <3> QED
      BY <3>1
  <2> QED
    BY <2>1
<1>2. PICK d \in D : \A e \in D : d <= e
  BY <1>1, Least
<1>3. PICK x \in S : d = b - x
  OBVIOUS
<1>4. ASSUME NEW y \in S PROVE x >= y
  <2>1. b - y \in D /\ b - x <= b - y
    BY <1>2, <1>3
  <2> QED
    BY <2>1
<1>5. Max(S) \in S /\ \A y \in S : Max(S) >= y
  BY <1>4 DEF Max
<1> QED
  BY <1>5

LEMMA NewestIs ==
  ASSUME NEW names, names \subseteq Name, names # {}
  PROVE  Newest(names) \in names /\ \A m \in names : m.second <= Newest(names).second
<1>0. MaxSecond \in Nat /\ MaxCommits \in Nat
  BY InterposeAssumption
<1> DEFINE seconds == {m.second : m \in names}
<1>1. seconds \subseteq 0..MaxSecond /\ seconds # {}
  BY DEF Name
<1>2. PICK s \in seconds : \A u \in seconds : u <= s
  BY <1>0, <1>1, Greatest
<1> DEFINE late == {m \in names : m.second = s}
           shorts == {m.short : m \in late}
<1>3. shorts \subseteq 0..MaxCommits /\ shorts # {}
  BY DEF Name
<1>4. PICK h \in shorts : \A u \in shorts : u <= h
  BY <1>0, <1>3, Greatest
<1>5. PICK n \in late : n.short = h
  OBVIOUS
<1>6. ASSUME NEW m \in names
      PROVE  m.second < n.second \/ (m.second = n.second /\ m.short <= n.short)
  <2>1. m.second <= s /\ m.second \in Nat /\ n.second = s /\ s \in Nat
    BY <1>0, <1>1, <1>2 DEF Name
  <2>2. CASE m.second = s
    BY <1>4, <1>5, <2>1, <2>2
  <2>3. CASE m.second # s
    BY <2>1, <2>3
  <2> QED
    BY <2>2, <2>3
<1>7. /\ Newest(names) \in names
      /\ \A m \in names :
           m.second < Newest(names).second
           \/ (m.second = Newest(names).second /\ m.short <= Newest(names).short)
  <2>1. n \in names
    OBVIOUS
  <2> QED
    BY <1>6, <2>1, Zenon DEF Newest
<1> QED
  BY <1>0, <1>7 DEF Name

----------------------------------------------------------------------------
(* What a step does to the repository. *)

(* Commits and snapshots stay, and so does what is noted of the calls.     *)
Grows ==
  /\ DOMAIN commits \subseteq DOMAIN commits'
  /\ \A n \in DOMAIN commits : commits'[n] = commits[n]
  /\ DOMAIN refs \subseteq DOMAIN refs'
  /\ \A n \in DOMAIN refs : refs'[n] = refs[n]
  /\ troubled \subseteq troubled' /\ sawMarks \subseteq sawMarks' /\ others \subseteq others'

(* What the calls in progress note when files are written.                 *)
Witnessed(d) ==
  Open(d) => \A f \in Files :
    /\ work'[f] = "marked" /\ work'[f] # work[f] => <<d, f>> \in sawMarks'
    /\ work'[f] # work[f] => <<d, f>> \in others'

LEMMA BranchMade ==
  ASSUME Repository, NEW c \in Calls, call[c] \in CallRec,
         call[c].short # 0 => call[c].short \in DOMAIN commits,
         MakeSnapshot(c), UNCHANGED <<commits, head, now>>
  PROVE  /\ Repository'
         /\ SnapName(c) \in DOMAIN refs'
         /\ DOMAIN refs \subseteq DOMAIN refs'
         /\ \A n \in DOMAIN refs : refs'[n] = refs[n]
<1> USE DEF Past
<1> DEFINE s == SnapName(c)
<1>1. s \in Name /\ s.short = call[c].short
  BY DEF SnapName, SnapshotName, Name, CallRec
<1> HIDE DEF s
<1>2. /\ DOMAIN refs' = DOMAIN refs \cup {s}
      /\ \A n \in DOMAIN refs : refs'[n] = refs[n]
      /\ s \notin DOMAIN refs => refs'[s] = head
      /\ refs' = [n \in DOMAIN refs \cup {s} |-> IF n \in DOMAIN refs THEN refs[n] ELSE head]
      /\ work' = work
  BY DEF MakeSnapshot, s
<1>3. head \in DOMAIN commits /\ Graph'
  BY DEF Repository, Graph, Past
<1>4. refs' \in [DOMAIN refs' -> DOMAIN commits'] /\ DOMAIN refs' \subseteq Name
  BY <1>1, <1>2, <1>3 DEF Repository
<1>5. ASSUME NEW n \in DOMAIN refs'
      PROVE  /\ n.short # 0 => n.short \in DOMAIN commits'
             /\ n.short # 0 => commits'[head'].past \cap commits'[n.short].past \subseteq commits'[refs'[n]].past
  <2>1. CASE n \in DOMAIN refs
    BY <1>2, <2>1 DEF Repository, Kept, Past
  <2>2. CASE n \notin DOMAIN refs
    <3>1. n = s /\ refs'[n] = head
      BY <1>2, <2>2
    <3> QED
      BY <1>1, <3>1 DEF Past
  <2> QED
    BY <2>1, <2>2
<1> QED
  BY <1>2, <1>3, <1>4, <1>5 DEF Repository, Kept, s

LEMMA Committing ==
  ASSUME Repository, NEW c, Commit(c), UNCHANGED now
  PROVE  /\ Repository'
         /\ DOMAIN commits \subseteq DOMAIN commits'
         /\ \A n \in DOMAIN commits : commits'[n] = commits[n]
<1> USE DEF Past
<1> DEFINE n == Len(commits) + 1
           new == [tree |-> work, past |-> Past(head) \cup {n}]
<1>1. /\ commits \in Seq([tree : [Files -> Contents], past : SUBSET Nat])
      /\ Len(commits) \in Nat /\ n \in Nat /\ n <= MaxCommits
      /\ DOMAIN commits = 1..Len(commits) /\ head \in DOMAIN commits
      /\ MaxCommits \in Nat
  BY InterposeAssumption DEF Commit, Repository, Graph
<1>2. new \in [tree : [Files -> Contents], past : SUBSET Nat]
  BY <1>1 DEF Repository, Graph, Past
<1>3. /\ commits' = Append(commits, new) /\ head' = n
      /\ work' = work /\ refs' = refs
  BY DEF Commit, Past
<1> HIDE DEF new
<1>4. /\ commits' \in Seq([tree : [Files -> Contents], past : SUBSET Nat])
      /\ Len(commits') = n /\ DOMAIN commits' = (DOMAIN commits) \cup {n}
      /\ commits'[n] = new
      /\ \A m \in DOMAIN commits : commits'[m] = commits[m]
      /\ n \notin DOMAIN commits
  BY <1>1, <1>2, <1>3
<1>5. \A m \in DOMAIN commits : commits'[m].past = Past(m) /\ n \notin Past(m) /\ Past(m) \subseteq DOMAIN commits
  <2> TAKE m \in DOMAIN commits
  <2>1. Past(m) \subseteq 1..m /\ m \in 1..Len(commits)
    BY <1>1 DEF Repository, Graph
  <2>2. Past(m) \subseteq DOMAIN commits /\ n \notin Past(m)
    BY <1>1, <2>1
  <2> QED
    BY <1>4, <2>2 DEF Past
<1>6. commits'[n].past = Past(head) \cup {n}
  BY <1>4 DEF Past, new
<1>7. Graph'
  <2>1. ASSUME NEW k \in DOMAIN commits'
        PROVE  /\ k \in commits'[k].past /\ commits'[k].past \subseteq 1..k
               /\ \A m \in commits'[k].past : commits'[m].past \subseteq commits'[k].past
    <3>1. CASE k \in DOMAIN commits
      BY <1>5, <3>1 DEF Repository, Graph
    <3>2. CASE k = n
      <4>1. Past(head) \subseteq 1..head /\ head \in 1..Len(commits)
        BY <1>1 DEF Repository, Graph
      <4>2. commits'[k].past \subseteq 1..k
        BY <1>1, <1>6, <3>2, <4>1
      <4>3. \A m \in Past(head) : commits'[m].past \subseteq Past(head)
        BY <1>1, <1>5 DEF Repository, Graph
      <4> QED
        BY <1>6, <3>2, <4>2, <4>3
    <3> QED
      BY <1>4, <3>1, <3>2
  <2> QED
    BY <1>1, <1>3, <1>4, <2>1 DEF Graph
<1>8. Kept'
  <2> SUFFICES ASSUME NEW r \in DOMAIN refs', r.short # 0
               PROVE  /\ r.short \in DOMAIN commits'
                      /\ commits'[head'].past \cap commits'[r.short].past \subseteq commits'[refs[r]].past
    BY <1>3 DEF Kept
  <2>1. /\ r.short \in DOMAIN commits /\ refs[r] \in DOMAIN commits
        /\ Past(head) \cap Past(r.short) \subseteq Past(refs[r])
    BY <1>3 DEF Repository, Kept
  <2>2. commits'[head'].past = Past(head) \cup {n}
    BY <1>3, <1>6 DEF Past
  <2> QED
    BY <1>4, <1>5, <2>1, <2>2
<1> QED
  BY <1>3, <1>4, <1>7, <1>8 DEF Repository

LEMMA Element ==
  ASSUME NEW S, NEW q \in Seq(S), NEW i \in 1..Len(q)
  PROVE  q[i] \in S
  OBVIOUS

LEMMA Resetting ==
  ASSUME Repository, NEW c, Reset(c), UNCHANGED now
  PROVE  /\ Repository'
         /\ UNCHANGED <<commits, refs>>
         /\ head' \in Past(head) /\ head' = Max(Past(head) \ {head})
<1> USE DEF Past
<1> DEFINE parent == Max(Past(head) \ {head})
<1>1. /\ head \in Nat /\ Past(head) \subseteq 1..head /\ head \in Past(head)
      /\ head \in DOMAIN commits /\ DOMAIN commits = 1..Len(commits) /\ Len(commits) \in Nat
  BY DEF Repository, Graph
<1>2. Past(head) \ {head} \subseteq 0..head /\ Past(head) \ {head} # {}
  BY <1>1 DEF Reset, Past
<1>3. parent \in Past(head)
  BY <1>1, <1>2, Greatest
<1>4. /\ head' = parent /\ work' = commits[parent].tree
      /\ UNCHANGED <<commits, refs>>
  BY DEF Reset, Past
<1> HIDE DEF parent
<1>5. parent \in DOMAIN commits
  BY <1>1, <1>3
<1>6. work' \in [Files -> Contents]
  <2>1. commits[parent] \in [tree : [Files -> Contents], past : SUBSET Nat]
    <3>1. commits \in Seq([tree : [Files -> Contents], past : SUBSET Nat])
      BY DEF Repository, Graph
    <3>2. parent \in 1..Len(commits)
      BY <1>1, <1>5
    <3> QED
      BY <3>1, <3>2, Element
  <2> QED
    BY <1>4, <2>1
<1>7. Past(parent) \subseteq Past(head)
  BY <1>1, <1>3 DEF Repository, Graph
<1>8. \A n : commits'[n].past = Past(n)
  BY <1>4 DEF Past
<1>9. Graph'
  BY <1>4, <1>5, <1>8 DEF Repository, Graph
<1>10. Kept'
  <2>1. commits'[head'].past = Past(parent)
    BY <1>4 DEF Past
  <2> QED
    BY <1>4, <1>7, <1>8, <2>1 DEF Repository, Kept
<1> QED
  BY <1>3, <1>4, <1>6, <1>9, <1>10 DEF Repository, parent

(* A step that writes files of the working tree, or only lets time pass.   *)
LEMMA WorkWritten ==
  ASSUME Repository, UNCHANGED <<commits, head, refs>>,
         work' \in [Files -> Contents], now' \in 0..MaxSecond
  PROVE  Repository'
  BY DEF Repository, Graph, Kept, Past

----------------------------------------------------------------------------
(* Steps of others. *)

LEMMA Names ==
  /\ "main" \notin Files /\ "main" \in Threads /\ Files \subseteq Threads
  /\ Threads = Files \cup {"main"}
  /\ Hosts \cap Guests = {} /\ Calls = Hosts \cup Guests
  BY InterposeAssumption DEF Threads, Calls

Own(d) ==
  /\ call'[d] = call[d] /\ thread'[d] = thread[d] /\ owed'[d] = owed[d]
  /\ d \in Guests => conn'[d] = conn[d]

(* What a goroutine has been told stays true while the world grows.        *)
LEMMA SoundStays ==
  ASSUME Repository, Grows, NEW d \in Calls, Searches(d), Stages(d), Own(d),
         Shapes, Open(d), Witnessed(d), NEW t \in Threads, NEW r, Sound(d, t, r)
  PROVE  Sound(d, t, r)'
<1> DEFINE f == call[d].job.file
<1>1. /\ Loc(d, t)' = Loc(d, t) /\ SnapName(d)' = SnapName(d)
      /\ call'[d] = call[d] /\ owed'[d] = owed[d]
  BY DEF Own, Loc, SnapName
<1>2. troubled \subseteq troubled' /\ sawMarks \subseteq sawMarks' /\ others \subseteq others'
      /\ DOMAIN refs \subseteq DOMAIN refs' /\ DOMAIN commits \subseteq DOMAIN commits'
  BY DEF Grows
<1>3. ASSUME Loc(d, t) = "show"
      PROVE  Shown(Newest(call[d].left[t]), t)' = Shown(Newest(call[d].left[t]), t)
  <2> DEFINE n == Newest(call[d].left[t])
  <2>1. t \in Files
    BY <1>3, Names DEF Stages
  <2>2. n \in DOMAIN refs
    BY <1>3, <2>1, NewestIs DEF Searches, Repository
  <2>3. refs[n] \in DOMAIN commits
    BY <2>2 DEF Repository
  <2>4. commits'[refs'[n]] = commits[refs[n]]
    BY <2>2, <2>3 DEF Grows
  <2>5. Newest(call[d].left[t])' = n
    BY <1>1
  <2> HIDE DEF n
  <2>6. Shown(n, t) = Shown(Newest(call[d].left[t]), t)
    BY DEF n
  <2>7. Shown(Newest(call[d].left[t]), t)' = Shown(n, t)
    BY <2>4, <2>5 DEF Shown, Committed
  <2> QED
    BY <2>6, <2>7
<1>4. ASSUME Loc(d, t) = "checkout", <<d, f>> \notin others'
      PROVE  work'[f] = work[f]
  <2>1. f \in Files
    BY <1>4, Names DEF Stages, Searches, Jobs
  <2> QED
    BY <1>4, <2>1 DEF Witnessed
<1> HIDE DEF f
<1> QED
  BY <1>1, <1>2, <1>3, <1>4 DEF Sound, SoundIn, World, f

(* A step of somebody else leaves what is known of a call true.            *)
LEMMA Frame ==
  ASSUME IInv, NEW d \in Calls, Own(d), Grows, Witnessed(d), Repository'
  PROVE  CallInv(d)'
<1>0. /\ Repository /\ Shapes /\ CallInv(d)
      /\ Stages(d) /\ Searches(d) /\ Connection(d) /\ Snapshotted(d) /\ Marks(d)
  BY DEF IInv, CallInv, Progress
<1>1. /\ \A t : Loc(d, t)' = Loc(d, t) /\ thread'[d][t] = thread[d][t]
      /\ SnapName(d)' = SnapName(d) /\ Open(d)' = Open(d) /\ Jobs(d)' = Jobs(d)
      /\ Alone(d)' = Alone(d)
      /\ call'[d] = call[d] /\ owed'[d] = owed[d]
      /\ d \in Guests => conn'[d] = conn[d]
  BY DEF Own, Loc, SnapName, Open, Jobs, Alone
<1>2. /\ troubled \subseteq troubled' /\ sawMarks \subseteq sawMarks' /\ others \subseteq others'
      /\ DOMAIN refs \subseteq DOMAIN refs' /\ DOMAIN commits \subseteq DOMAIN commits'
  BY DEF Grows
<1>3. Stages(d)'
  BY <1>0, <1>1 DEF Stages
<1>4. Searches(d)'
  BY <1>0, <1>1, <1>2 DEF Searches
<1>5. Snapshotted(d)'
  BY <1>0, <1>1, <1>2 DEF Snapshotted
<1>6. Marks(d)'
  BY <1>0, <1>1, <1>2 DEF Marks, Witnessed
<1>7. Connection(d)'
  <2>1. ASSUME d \in Guests, conn[d].broken, OneFile \/ call[d].kind # "commit"
        PROVE  d \in troubled'
    BY <1>0, <1>2, <2>1 DEF Connection
  <2>2. ASSUME d \in Guests, ~conn[d].broken, Alone(d)
        PROVE  Matched(d)'
    <3>1. Matched(d)
      BY <1>0, <2>2 DEF Connection
    <3>2. CASE /\ \A t \in Threads : thread[d][t].ph # "waiting"
               /\ conn[d].asks = <<>> /\ conn[d].answers = <<>>
      BY <1>1, <2>2, <3>2 DEF Matched
    <3>3. ASSUME NEW t \in Threads, thread[d][t].ph = "waiting",
                 conn[d].asks = <<[id |-> thread[d][t].id, for |-> t]>>,
                 conn[d].answers = <<>>
          PROVE  Matched(d)'
      BY <1>1, <2>2, <3>3 DEF Matched
    <3>4. ASSUME NEW t \in Threads, thread[d][t].ph = "waiting",
                 NEW r \in {conn[d].answers[1].r},
                 conn[d].asks = <<>>,
                 conn[d].answers = <<[id |-> thread[d][t].id, r |-> r]>>,
                 Sound(d, t, r)
          PROVE  Matched(d)'
      <4>1. Open(d)
        BY <1>0, <3>4, Names DEF Stages, Operations, ReadOnly, Writing
      <4>2. Sound(d, t, r)'
        BY <1>0, <3>4, <4>1, SoundStays
      <4> QED
        BY <1>1, <2>2, <3>4, <4>2 DEF Matched
    <3> QED
      BY <3>1, <3>2, <3>3, <3>4 DEF Matched
  <2> QED
    BY <1>1, <2>1, <2>2 DEF Connection
<1>8. OnlyMarked(d) => OnlyMarked(d)'
  BY <1>1, <1>2 DEF OnlyMarked
<1>9. Repaired(d) => Repaired(d)'
  <2> SUFFICES ASSUME Repaired(d), NEW f \in Files,
                      d \notin troubled', <<d, f>> \notin others', owed[d][f] # {}
               PROVE  /\ Loc(d, f) # "rest" =>
                           work'[f] = "marked" /\ CleanOf(Held(d, f)') = owed[d][f]
                      /\ \A j \in Jobs(d) : j.file = f => Committed(j.ref, f)' \in owed[d][f]
                      /\ Loc(d, f) = "rest" =>
                           work'[f] \in owed[d][f] \/ \E j \in Jobs(d) : j.file = f
    BY <1>1 DEF Repaired
  <2>1. Open(d)
    BY <1>0 DEF Stages
  <2>2. work'[f] = work[f]
    BY <2>1 DEF Witnessed
  <2>3. ASSUME NEW n \in DOMAIN refs PROVE Committed(n, f)' = Committed(n, f)
    BY <1>0, <2>3 DEF Grows, Committed, Repository
  <2>4. Held(d, f)' = Held(d, f)
    <3>1. call[d].left[f] \subseteq DOMAIN refs
      BY <1>0 DEF Searches
    <3>2. [n \in call[d].left[f] |-> Committed(n, f)'] = [n \in call[d].left[f] |-> Committed(n, f)]
      BY <2>3, <3>1
    <3> QED
      BY <1>1, <3>2 DEF Held
  <2>5. \A j \in Jobs(d) : j.ref \in DOMAIN refs
    BY <1>0 DEF Searches
  <2>6. d \notin troubled /\ <<d, f>> \notin others
    BY <1>2
  <2>7. /\ Loc(d, f) # "rest" => work[f] = "marked" /\ CleanOf(Held(d, f)) = owed[d][f]
        /\ \A j \in Jobs(d) : j.file = f => Committed(j.ref, f) \in owed[d][f]
        /\ Loc(d, f) = "rest" => work[f] \in owed[d][f] \/ \E j \in Jobs(d) : j.file = f
    BY <2>6 DEF Repaired
  <2> QED
    BY <2>2, <2>3, <2>4, <2>5, <2>7
<1> QED
  BY <1>0, <1>3, <1>4, <1>5, <1>6, <1>7, <1>8, <1>9 DEF CallInv, Progress

----------------------------------------------------------------------------
(* Operations *)

(* What the call finds in the repository.                                  *)
LEMMA ShownType ==
  ASSUME Repository, NEW n \in DOMAIN refs, NEW f \in Files
  PROVE  /\ Committed(n, f) \in Contents
         /\ Shown(n, f) = IF Committed(n, f) = "none" THEN Exit ELSE Ok(Committed(n, f))
<1>1. refs[n] \in 1..Len(commits)
  BY DEF Repository, Graph
<1>2. commits \in Seq([tree : [Files -> Contents], past : SUBSET Nat])
  BY DEF Repository, Graph
<1>3. commits[refs[n]] \in [tree : [Files -> Contents], past : SUBSET Nat]
  BY <1>1, <1>2, Element
<1> QED
  BY <1>3 DEF Committed, Shown

(* Where a call may be carrying out an operation.                          *)
LEMMA Working ==
  ASSUME IInv, NEW c \in Calls, NEW t \in Threads, Loc(c, t) \in Operations
  PROVE  /\ Open(c)
         /\ Loc(c, t) \in {"read", "show"} => t \in Files
         /\ Loc(c, t) \notin {"read", "show"} => t = "main"
         /\ Loc(c, t) = "checkout" =>
              /\ call[c].job.file \in Files /\ call[c].job.ref \in DOMAIN refs
              /\ call[c].job \in Jobs(c)
         /\ Loc(c, t) = "show" =>
              Newest(call[c].left[t]) \in call[c].left[t] /\ Newest(call[c].left[t]) \in DOMAIN refs
<1>1. Repository /\ Stages(c) /\ Searches(c)
  BY DEF IInv, CallInv, Progress
<1>2. \A f \in Files : Loc(c, f) # "rest" => Loc(c, "main") \in {"gather", "checkout"}
  BY <1>1 DEF Stages
<1>3. Open(c)
  BY <1>1, <1>2, Names DEF Stages, Operations, ReadOnly, Writing
<1>4. Loc(c, t) \in {"read", "show"} => t \in Files
  BY <1>1, Names DEF Stages
<1>5. Loc(c, t) \notin {"read", "show"} => t = "main"
  BY <1>1, Names DEF Stages, Operations, ReadOnly, Writing
<1>6. Loc(c, t) = "checkout" => call[c].job \in Jobs(c)
  BY <1>5 DEF Jobs
<1>7. Loc(c, t) = "show" => Newest(call[c].left[t]) \in call[c].left[t]
  BY <1>1, <1>4, NewestIs DEF Searches, Repository
<1> QED
  BY <1>1, <1>3, <1>4, <1>5, <1>6, <1>7 DEF Searches

LEMMA Performed ==
  ASSUME IInv, NEW c \in Calls, NEW t \in Threads, NEW r, Perform(c, t, r),
         UNCHANGED now
  PROVE  /\ Repository' /\ Grows
         /\ \A d \in Calls \ {c} : Witnessed(d)
         /\ \A f \in Files : Open(c) /\ work'[f] = "marked" /\ work'[f] # work[f] => <<c, f>> \in sawMarks'
         /\ commits' = commits
         /\ \A f \in Files : <<c, f>> \in others' => <<c, f>> \in others
         /\ Loc(c, t) # "checkout" => UNCHANGED <<work, sawMarks, others>>
         /\ Loc(c, t) # "snap" => UNCHANGED refs
         /\ \A f \in Files : work'[f] # work[f] => f = call[c].job.file
         /\ troubled' = troubled \/ troubled' = troubled \cup {c}
<1>0. Repository /\ Shapes /\ call[c] \in CallRec /\ Snapshotted(c)
  BY DEF IInv, Shapes, CallInv, Progress
<1>1. CASE UNCHANGED <<repo, sawMarks, others>> /\ (troubled' = troubled \/ troubled' = troubled \cup {c})
  <2>1. Repository'
    BY <1>0, <1>1, WorkWritten DEF repo, Repository
  <2> QED
    BY <1>1, <2>1 DEF repo, Grows, Witnessed
<1>2. CASE /\ Loc(c, t) = "snap" /\ MakeSnapshot(c) /\ UNCHANGED <<commits, head, faults, troubled>>
  <2>1. /\ Repository' /\ DOMAIN refs \subseteq DOMAIN refs'
        /\ \A n \in DOMAIN refs : refs'[n] = refs[n]
    BY <1>0, <1>2, BranchMade DEF Snapshotted
  <2> QED
    BY <1>2, <2>1 DEF MakeSnapshot, Grows, Witnessed
<1>3. CASE /\ Loc(c, t) = "checkout" /\ r = Output(c, t) /\ CheckOut(c, r)
           /\ UNCHANGED <<commits, head, faults, troubled>>
  <2> DEFINE f == call[c].job.file
             n == call[c].job.ref
  <2>1. f \in Files /\ n \in DOMAIN refs
    BY <1>3, Working DEF Operations, Writing
  <2>2. r = IF Committed(n, f) = "none" THEN Exit ELSE Ok(Committed(n, f))
    BY <1>0, <1>3, <2>1, ShownType DEF Output
  <2>3. Committed(n, f) \in Contents
    BY <1>0, <2>1, ShownType
  <2>4. work' \in [Files -> Contents]
    BY <1>0, <1>3, <2>1, <2>2, <2>3 DEF CheckOut, Ok, Exit, Repository
  <2>5. Repository'
    BY <1>0, <1>3, <2>4, WorkWritten DEF CheckOut, Repository
  <2>6. /\ sawMarks' = sawMarks \cup
             {<<d, g>> : d \in {e \in Calls : Open(e)}, g \in {g \in Files : work'[g] = "marked"}}
        /\ others' = others \cup
             {<<d, g>> : d \in {e \in Calls : Open(e)} \ {c}, g \in {g \in Files : work'[g] # work[g]}}
        /\ refs' = refs
    BY <1>3 DEF CheckOut, Noted
  <2>7. Grows
    BY <1>3, <2>6 DEF Grows
  <2>8. \A d \in Calls \ {c} : Witnessed(d)
    BY <2>6 DEF Witnessed
  <2>9. \A g \in Files : <<c, g>> \in others' => <<c, g>> \in others
    BY <2>6
  <2>10. \A g \in Files : Open(c) /\ work'[g] = "marked" => <<c, g>> \in sawMarks'
    BY <2>6
  <2>11. \A g \in Files : work'[g] # work[g] => g = f
    BY <1>0, <1>3 DEF CheckOut, Repository
  <2> QED
    BY <1>3, <2>5, <2>6, <2>7, <2>8, <2>9, <2>10, <2>11
<1> QED
  BY <1>1, <1>2, <1>3 DEF Perform, repo

(* Whoever carries out an operation can rely on its result.                *)
LEMMA PerformedSound ==
  ASSUME IInv, NEW c \in Calls, NEW t \in Threads, NEW r, Perform(c, t, r),
         UNCHANGED now,
         Loc(c, t) \in {"read", "show", "checkout"} => Orderly(c)
  PROVE  SoundIn(World', c, t, r)
<1>0. /\ Repository /\ Shapes /\ Stages(c) /\ Searches(c) /\ Snapshotted(c) /\ Marks(c)
      /\ call[c] \in CallRec
      /\ "none" \notin Versions /\ Orderly(c) => Repaired(c)
  BY DEF IInv, Shapes, CallInv, Progress
<1>1. /\ Grows /\ commits' = commits
      /\ Loc(c, t) # "checkout" => UNCHANGED <<work, sawMarks, others>>
      /\ Loc(c, t) # "snap" => UNCHANGED refs
      /\ \A f \in Files : <<c, f>> \in others' => <<c, f>> \in others
  BY Performed
<1>2. World' = [work |-> work', refs |-> DOMAIN refs', commits |-> DOMAIN commits',
                troubled |-> troubled', sawMarks |-> sawMarks', others |-> others']
  BY DEF World
<1>3. CASE r \in Failures(c, t) /\ troubled' = troubled \cup {c}
  <2>1. r.how # "ok" /\ c \in troubled'
    BY <1>3 DEF Failures, Exit, Err
  <2> QED
    BY <1>2, <2>1 DEF SoundIn
<1>4. CASE r = Output(c, t) /\ Loc(c, t) \in Operations /\ troubled' = troubled
           /\ (Loc(c, t) = "checkout" => CheckOut(c, r))
           /\ (Loc(c, t) = "snap" => MakeSnapshot(c))
  <2>1. CASE Loc(c, t) \in {"root", "head", "bare", "files", "confirm"}
    BY <1>2, <1>4, <2>1 DEF SoundIn, Output, Ok
  <2>2. CASE Loc(c, t) = "refs"
    <3>1. r = Ok(DOMAIN refs)
      BY <1>4, <2>2 DEF Output
    <3> QED
      BY <1>1, <1>2, <2>2, <3>1 DEF SoundIn, Ok
  <2>3. CASE Loc(c, t) = "read"
    <3>1. t \in Files /\ Open(c)
      BY <1>4, <2>3, Working
    <3>2. r = IF work[t] = "none" THEN Err ELSE Ok(work[t])
      BY <1>4, <2>3 DEF Output
    <3>3. r.how = "ok" /\ r.val = "marked" => <<c, t>> \in sawMarks'
      BY <1>0, <1>1, <2>3, <3>1, <3>2 DEF Ok, Err, Marks
    <3>4. /\ c \notin troubled' /\ <<c, t>> \notin others' /\ owed[c][t] # {} /\ "none" \notin Versions
          => r.how = "ok" /\ r.val = "marked"
      <4> SUFFICES ASSUME c \notin troubled', <<c, t>> \notin others', owed[c][t] # {}, "none" \notin Versions
                   PROVE  r.how = "ok" /\ r.val = "marked"
        OBVIOUS
      <4>1. Repaired(c) /\ Loc(c, t) # "rest"
        BY <1>0, <2>3
      <4>2. c \notin troubled /\ <<c, t>> \notin others
        BY <1>1, <1>4, <2>3
      <4>3. work[t] = "marked"
        BY <3>1, <4>1, <4>2 DEF Repaired
      <4> QED
        BY <3>2, <4>3 DEF Ok
    <3> QED
      BY <1>2, <2>3, <3>3, <3>4 DEF SoundIn
  <2>4. CASE Loc(c, t) = "show"
    <3>1. r = Shown(Newest(call[c].left[t]), t)
      BY <1>4, <2>4 DEF Output
    <3> QED
      BY <1>2, <2>4, <3>1 DEF SoundIn
  <2>5. CASE Loc(c, t) = "checkout"
    <3> DEFINE f == call[c].job.file
               n == call[c].job.ref
    <3>1. f \in Files /\ n \in DOMAIN refs /\ call[c].job \in Jobs(c)
      BY <1>4, <2>5, Working
    <3>2. r = Shown(n, f)
      BY <1>4, <2>5 DEF Output
    <3>3. ASSUME c \notin troubled', <<c, f>> \notin others', owed[c][f] # {}, "none" \notin Versions
          PROVE  work'[f] \in owed[c][f]
      <4>1. Committed(n, f) \in owed[c][f]
        <5>1. <<c, f>> \notin others /\ c \notin troubled
          BY <1>1, <1>4, <3>3 DEF Grows
        <5>2. Repaired(c)
          BY <1>0, <2>5, <3>3
        <5> HIDE DEF f
        <5>3. call[c].job.file = f
          BY DEF f
        <5> QED
          BY <3>1, <3>3, <5>1, <5>2, <5>3 DEF Repaired
      <4>2. Committed(n, f) # "none" /\ r = Ok(Committed(n, f))
        BY <1>0, <3>1, <3>2, <3>3, ShownType DEF Contents
      <4>3. work'[f] = Committed(n, f)
        BY <1>0, <1>4, <2>5, <3>1, <4>2 DEF CheckOut, Ok, Exit, Repository
      <4> QED
        BY <4>1, <4>3
    <3> HIDE DEF f
    <3> QED
      BY <1>2, <2>5, <3>3 DEF SoundIn, f
  <2>6. CASE Loc(c, t) = "short"
    <3>1. r = Ok(head) /\ head \in DOMAIN commits
      BY <1>0, <1>4, <2>6 DEF Output, Repository, Graph
    <3> QED
      BY <1>1, <1>2, <2>6, <3>1 DEF SoundIn, Ok
  <2>7. CASE Loc(c, t) = "snap"
    <3>1. r.how # "err"
      BY <1>4, <2>7 DEF Output, Ok, Exit
    <3>2. SnapName(c) \in DOMAIN refs'
      BY <1>4, <2>7 DEF MakeSnapshot
    <3> QED
      BY <1>2, <2>7, <3>1, <3>2 DEF SoundIn
  <2> QED
    BY <1>4, <2>1, <2>2, <2>3, <2>4, <2>5, <2>6, <2>7 DEF Operations, ReadOnly, Writing
<1> QED
  BY <1>3, <1>4 DEF Perform, Operations, Writing, ReadOnly

----------------------------------------------------------------------------
(* Going on with a result *)

(* A goroutine of c goes on with a result that it can rely on.             *)
Heard(c, t, r) ==
  /\ Continue(c, t, r)
  /\ Repository' /\ Grows
  /\ UNCHANGED <<commits, now>>
  /\ Loc(c, t) # "snap" => UNCHANGED refs
  /\ \A f \in Files : work'[f] # work[f] => Loc(c, t) = "checkout" /\ f = call[c].job.file
  /\ \A f \in Files : work'[f] = "marked" /\ work'[f] # work[f] => <<c, f>> \in sawMarks'
  /\ \A f \in Files : <<c, f>> \in others' => <<c, f>> \in others
  /\ Alone(c) \/ c \in Hosts => SoundIn(World', c, t, r)

LEMMA GoneTo ==
  ASSUME Shapes, NEW c \in Calls, NEW t \in Threads, NEW l \in Locs,
         thread' = [thread EXCEPT ![c][t] = At(l)]
  PROVE  /\ thread' \in [Calls -> [Threads -> ThreadRec]]
         /\ Loc(c, t)' = l /\ thread'[c][t].ph = "ready"
         /\ \A u \in Threads \ {t} : thread'[c][u] = thread[c][u] /\ Loc(c, u)' = Loc(c, u)
         /\ \A d \in Calls \ {c} : thread'[d] = thread[d]
<1>1. At(l) \in ThreadRec /\ At(l).loc = l /\ At(l).ph = "ready"
  BY DEF At, ThreadRec
<1> QED
  BY <1>1 DEF Shapes, Loc

(* The main goroutine goes on while there are no others.                   *)
LEMMA Plain ==
  ASSUME IInv, NEW c \in Calls, NEW r, Heard(c, "main", r),
         Loc(c, "main") \notin {"gather", "checkout"},
         NEW l \in Locs, Loc(c, "main")' = l, thread'[c]["main"].ph = "ready",
         \A f \in Files : Loc(c, f)' = "rest" /\ thread'[c][f].ph = "ready",
         call'[c] = [call[c] EXCEPT !.short = call'[c].short, !.second = call'[c].second],
         owed'[c] = owed[c],
         l \notin {"read", "show", "rest", "gather", "checkout", "root", "confirm"},
         l \in InRepair => call[c].kind = "commit",
         l \in InSnapshot => call[c].kind = "reset",
         Snapshotted(c)', Loc(c, "main") # "pass"
  PROVE  Progress(c)'
<1>0. /\ Repository /\ Shapes /\ Stages(c) /\ Searches(c) /\ Marks(c)
      /\ call[c] \in CallRec
      /\ Orderly(c) => OnlyMarked(c)
  BY DEF IInv, Shapes, CallInv, Progress
<1>1. /\ call'[c].outcome = call[c].outcome /\ call'[c].kind = call[c].kind
      /\ call'[c].found = call[c].found /\ call'[c].job = call[c].job
      /\ call'[c].left = call[c].left
  BY <1>0 DEF CallRec
<1>2. Open(c) /\ Open(c)'
  BY <1>0, <1>1 DEF Stages, Heard, Continue, Open
<1>3. /\ call[c].found = {} /\ \A f \in Files : Loc(c, f) = "rest" /\ owed[c][f] = {}
  BY <1>0 DEF Stages
<1>4. Stages(c)'
  BY <1>0, <1>1, <1>2, <1>3, Names DEF Stages, Threads
<1>5. Jobs(c)' = {}
  BY <1>1, <1>3 DEF Jobs
<1>6. Searches(c)'
  BY <1>0, <1>1, <1>5 DEF Searches, Heard, Grows
<1>7. Marks(c)'
  BY <1>0, <1>2 DEF Marks, Heard, Grows
<1>8. Orderly(c)' => OnlyMarked(c)'
  BY <1>0, <1>1 DEF OnlyMarked, Heard, Grows, Orderly
<1>9. Repaired(c)'
  BY <1>3 DEF Repaired
<1> QED
  BY <1>4, <1>6, <1>7, <1>8, <1>9 DEF Progress

(* What going on leaves as it was.                                         *)
Steady(c, t) ==
  /\ call' \in [Calls -> CallRec]
  /\ thread' \in [Calls -> [Threads -> ThreadRec]]
  /\ owed' \in [Calls -> [Files -> SUBSET Contents]]
  /\ \A d \in Calls \ {c} : call'[d] = call[d] /\ thread'[d] = thread[d] /\ owed'[d] = owed[d]
  /\ call'[c].outcome = call[c].outcome /\ call'[c].kind = call[c].kind
  /\ call'[c].where = call[c].where
  /\ thread'[c][t].ph = "ready"
  /\ \A u \in Threads : thread'[c][u] = thread[c][u] \/ thread'[c][u].ph = "ready"

LEMMA HeardPlainly ==
  ASSUME IInv, NEW c \in Calls, NEW r, Heard(c, "main", r),
         Loc(c, "main") \in {"root", "bare", "files", "head", "snap", "confirm"}
  PROVE  Progress(c)' /\ Steady(c, "main")
<1>0. /\ Repository /\ Shapes /\ Stages(c) /\ Searches(c) /\ Snapshotted(c)
      /\ call[c] \in CallRec /\ "main" \in Threads /\ "main" \notin Files
      /\ Continue(c, "main", r) /\ Grows
  BY Names DEF IInv, Shapes, CallInv, Progress, Heard
<1>1. Alone(c) /\ Open(c)
  <2>1. Loc(c, "main") \in Operations \ {"checkout"}
    BY DEF Operations, ReadOnly, Writing
  <2> QED
    BY <1>0, <2>1, Working DEF Alone
<1>2. SoundIn(World', c, "main", r)
  BY <1>1 DEF Heard
<1>3. World'.troubled = troubled' /\ World'.refs = DOMAIN refs'
  BY DEF World
<1>4. \A f \in Files : Loc(c, f) = "rest" /\ thread[c][f].ph = "ready"
  BY <1>0, Names DEF Stages, Operations, ReadOnly, Writing
<1>5. Same /\ \E l \in Locs \ {"read", "show", "rest", "gather", "checkout", "root", "confirm"} :
        /\ Goto(c, l)
        /\ l \in InRepair => call[c].kind = "commit"
        /\ l \in InSnapshot => call[c].kind = "reset"
        /\ l = "pass" /\ call[c].kind = "reset" /\ call[c].where = "repo" =>
             \/ Loc(c, "main") = "root" /\ r.how # "ok"
             \/ Loc(c, "main") = "head" /\ r.how = "err"
             \/ Loc(c, "main") = "snap"
        /\ l # "snap"
  <2> DEFINE main == Loc(c, "main")
             Leads(l) == /\ Goto(c, l) /\ Same
                         /\ l \in Locs \ {"read", "show", "rest", "gather", "checkout", "root", "confirm"}
                         /\ l \in InRepair => call[c].kind = "commit"
                         /\ l \in InSnapshot => call[c].kind = "reset"
                         /\ l = "pass" /\ call[c].kind = "reset" /\ call[c].where = "repo" =>
                              \/ main = "root" /\ r.how # "ok"
                              \/ main = "head" /\ r.how = "err"
                              \/ main = "snap"
                         /\ l # "snap"
  <2>0. \A l \in {"pass", "refuse", "bare", "files", "refs", "head", "short"} : l \in Locs
    BY DEF Locs, Operations, ReadOnly
  <2>1. CASE main = "root"
    <3>1. Goto(c, IF r.how # "ok" \/ call[c].where = "disabled" THEN "pass"
                  ELSE IF call[c].kind = "commit" THEN "bare" ELSE "head") /\ Same
      BY <1>0, <2>1 DEF Continue, AfterRoot, NeedsRestore
    <3>2. call[c].kind \in {"commit", "reset"}
      BY <1>0, <2>1 DEF Stages
    <3>3. CASE r.how # "ok" \/ call[c].where = "disabled"
      <4>1. Leads("pass")
        BY <2>0, <2>1, <3>1, <3>3 DEF InRepair, InSnapshot
      <4> QED
        BY <4>1
    <3>4. CASE ~(r.how # "ok" \/ call[c].where = "disabled") /\ call[c].kind = "commit"
      <4>1. Leads("bare")
        BY <2>0, <3>1, <3>4 DEF InRepair, InSnapshot
      <4> QED
        BY <4>1
    <3>5. CASE ~(r.how # "ok" \/ call[c].where = "disabled") /\ call[c].kind = "reset"
      <4>1. Leads("head")
        BY <2>0, <3>1, <3>5 DEF InRepair, InSnapshot
      <4> QED
        BY <4>1
    <3> QED
      BY <3>2, <3>3, <3>4, <3>5
  <2>2. CASE main \in {"bare", "files"}
    <3>1. call[c].kind = "commit"
      BY <1>0, <2>2 DEF Stages, InRepair
    <3>2. Leads("pass") \/ Leads("files") \/ Leads("refs")
      BY <1>0, <2>0, <2>2, <3>1 DEF Continue, AfterBare, AfterFiles, InRepair, InSnapshot
    <3> QED
      BY <3>2
  <2>4. CASE main = "head"
    <3>1. Goto(c, IF r = Err THEN "pass" ELSE "short") /\ Same
      BY <1>0, <2>4 DEF Continue, AfterHead
    <3>2. call[c].kind = "reset"
      BY <1>0, <2>4 DEF Stages, InSnapshot
    <3>3. CASE r = Err
      <4>1. r.how = "err"
        BY <3>3 DEF Err
      <4>2. Leads("pass")
        BY <2>0, <2>4, <3>1, <3>3, <4>1 DEF InRepair, InSnapshot
      <4> QED
        BY <4>2
    <3>4. CASE r # Err
      <4>1. Leads("short")
        BY <2>0, <3>1, <3>2, <3>4 DEF InRepair, InSnapshot
      <4> QED
        BY <4>1
    <3> QED
      BY <3>3, <3>4
  <2>5. CASE main \in {"snap", "confirm"}
    <3>1. Same /\ (Goto(c, "refuse") \/ Goto(c, "pass"))
      BY <1>0, <2>5 DEF Continue, AfterSnap, AfterConfirm
    <3>2. main = "confirm" => call[c].kind # "reset"
      BY <1>0 DEF Stages
    <3>3. Leads("refuse") \/ Leads("pass")
      BY <2>0, <2>5, <3>1, <3>2 DEF InRepair, InSnapshot
    <3> QED
      BY <3>3
  <2> QED
    BY <2>1, <2>2, <2>4, <2>5
<1>6. PICK l \in Locs \ {"read", "show", "rest", "gather", "checkout", "root", "confirm"} :
        /\ Goto(c, l)
        /\ l \in InRepair => call[c].kind = "commit"
        /\ l \in InSnapshot => call[c].kind = "reset"
        /\ l = "pass" /\ call[c].kind = "reset" /\ call[c].where = "repo" =>
             \/ Loc(c, "main") = "root" /\ r.how # "ok"
             \/ Loc(c, "main") = "head" /\ r.how = "err"
             \/ Loc(c, "main") = "snap"
        /\ l # "snap"
  BY <1>5
<1>7. call' = call /\ owed' = owed
  BY <1>5 DEF Same
<1>8. /\ thread' \in [Calls -> [Threads -> ThreadRec]]
      /\ Loc(c, "main")' = l /\ thread'[c]["main"].ph = "ready"
      /\ \A u \in Threads \ {"main"} : thread'[c][u] = thread[c][u] /\ Loc(c, u)' = Loc(c, u)
      /\ \A d \in Calls \ {c} : thread'[d] = thread[d]
  BY <1>0, <1>6, GoneTo DEF Goto
<1>9. \A f \in Files : Loc(c, f)' = "rest" /\ thread'[c][f].ph = "ready"
  BY <1>4, <1>8, Names
<1>10. Snapshotted(c)'
  <2>1. SnapName(c)' = SnapName(c) /\ Open(c)' = Open(c)
    BY <1>7 DEF SnapName, Open
  <2>2. /\ troubled \subseteq troubled' /\ DOMAIN refs \subseteq DOMAIN refs'
        /\ DOMAIN commits \subseteq DOMAIN commits'
    BY <1>0 DEF Grows
  <2>3. ASSUME call[c].kind = "reset", call[c].where = "repo", c \notin troubled', l = "pass"
        PROVE  call[c].short # 0 /\ SnapName(c) \in DOMAIN refs'
    <3>1. Loc(c, "main") = "snap"
      BY <1>2, <1>3, <1>6, <2>3 DEF SoundIn
    <3>2. SnapName(c) \in DOMAIN refs'
      BY <1>2, <1>3, <2>3, <3>1 DEF SoundIn
    <3>3. call[c].short # 0
      BY <1>0, <1>1, <2>2, <2>3, <3>1 DEF Snapshotted
    <3> QED
      BY <3>2, <3>3
  <2>4. call[c].short # 0 => call[c].short \in DOMAIN commits'
    BY <1>0, <2>2 DEF Snapshotted
  <2> QED
    BY <1>6, <1>7, <1>8, <2>1, <2>3, <2>4 DEF Snapshotted
<1>11. Progress(c)'
  <2>1. call'[c] = [call[c] EXCEPT !.short = call'[c].short, !.second = call'[c].second]
    BY <1>0, <1>7 DEF CallRec
  <2> QED
    BY <1>6, <1>7, <1>8, <1>9, <1>10, <2>1, Plain
<1> QED
  BY <1>0, <1>7, <1>8, <1>11 DEF Steady, Shapes

LEMMA HeardShort ==
  ASSUME IInv, NEW c \in Calls, NEW r, Heard(c, "main", r), Loc(c, "main") = "short"
  PROVE  Progress(c)' /\ Steady(c, "main")
<1>0. /\ Repository /\ Shapes /\ Stages(c) /\ Snapshotted(c)
      /\ call[c] \in CallRec /\ "main" \in Threads /\ "main" \notin Files
      /\ Continue(c, "main", r) /\ Grows /\ now \in 0..MaxSecond /\ MaxCommits \in Nat
  BY Names, InterposeAssumption DEF IInv, Shapes, CallInv, Progress, Heard, Repository
<1>1. SoundIn(World', c, "main", r) /\ Open(c)
  <2>1. Loc(c, "main") \in Operations \ {"checkout"}
    BY DEF Operations, ReadOnly, Writing
  <2> QED
    BY <1>0, <2>1, Working DEF Alone, Heard
<1>2. /\ c \notin troubled' => r.how = "ok"
      /\ r.how = "ok" => r.val \in DOMAIN commits
  BY <1>1 DEF SoundIn, World, Heard
<1> DEFINE h == IF r.how = "ok" THEN r.val ELSE 0
           l == IF r = Err THEN "refuse" ELSE "snap"
<1>3. /\ call' = [call EXCEPT ![c].short = h, ![c].second = now]
      /\ owed' = owed /\ thread' = [thread EXCEPT ![c]["main"] = At(l)]
  BY <1>0 DEF Continue, AfterShort, Goto
<1>4. /\ DOMAIN commits \subseteq 1..MaxCommits
      /\ h \in 0..MaxCommits /\ (h # 0 => h \in DOMAIN commits')
      /\ r.how = "ok" => h # 0
  <2>1. DOMAIN commits \subseteq 1..MaxCommits
    BY <1>0 DEF Repository, Graph
  <2> QED
    BY <1>0, <1>2, <2>1 DEF Heard
<1>5. l \in Locs /\ l \in {"refuse", "snap"}
  BY DEF Locs, Operations, Writing
<1> HIDE DEF h, l
<1>6. /\ call'[c] = [call[c] EXCEPT !.short = h, !.second = now]
      /\ \A d \in Calls \ {c} : call'[d] = call[d]
      /\ call' \in [Calls -> CallRec]
      /\ call'[c].short = h /\ call'[c].second = now
      /\ call'[c].outcome = call[c].outcome /\ call'[c].kind = call[c].kind
      /\ call'[c].where = call[c].where
  BY <1>0, <1>3, <1>4 DEF Shapes, CallRec
<1>7. /\ thread' \in [Calls -> [Threads -> ThreadRec]]
      /\ Loc(c, "main")' = l /\ thread'[c]["main"].ph = "ready"
      /\ \A u \in Threads \ {"main"} : thread'[c][u] = thread[c][u] /\ Loc(c, u)' = Loc(c, u)
      /\ \A d \in Calls \ {c} : thread'[d] = thread[d]
  BY <1>0, <1>3, <1>5, GoneTo
<1>8. \A f \in Files : Loc(c, f) = "rest" /\ thread[c][f].ph = "ready"
  BY <1>0, Names DEF Stages, Operations, ReadOnly, Writing
<1>9. \A f \in Files : Loc(c, f)' = "rest" /\ thread'[c][f].ph = "ready"
  BY <1>7, <1>8, Names
<1>10. Snapshotted(c)'
  BY <1>2, <1>4, <1>5, <1>6, <1>7 DEF Snapshotted
<1>11. Progress(c)'
  <2>1. call[c].kind = "reset"
    BY <1>0 DEF Stages, InSnapshot
  <2>2. call'[c] = [call[c] EXCEPT !.short = call'[c].short, !.second = call'[c].second]
    BY <1>6
  <2>3. l \notin InRepair
    BY <1>5 DEF InRepair
  <2> QED
    BY <1>3, <1>5, <1>7, <1>9, <1>10, <2>1, <2>2, <2>3, Plain
<1> QED
  BY <1>0, <1>3, <1>6, <1>7, <1>11 DEF Steady, Shapes

(* What a repair owes is a matter of what the snapshots have.              *)
LEMMA LatestIs ==
  ASSUME NEW names, NEW f
  PROVE  CleanOf([n \in names |-> Committed(n, f)]) = LatestClean(names, f)
<1> DEFINE versions == [n \in names |-> Committed(n, f)]
           clean == {n \in names : Committed(n, f) \notin {"marked", "none"}}
           last == Max({n.second : n \in clean})
           late == {m \in clean : m.second = last}
<1>1. DOMAIN versions = names /\ \A n \in names : versions[n] = Committed(n, f)
  OBVIOUS
<1>2. {n \in DOMAIN versions : versions[n] \notin {"marked", "none"}} = clean
  BY <1>1
<1>3. late \subseteq names
  OBVIOUS
<1>4. {versions[n] : n \in late} = {Committed(n, f) : n \in late}
  BY <1>1, <1>3
<1>5. LatestClean(names, f) = {Committed(n, f) : n \in late}
  BY DEF LatestClean
<1>6. CleanOf(versions) = {versions[n] : n \in late}
  BY <1>2 DEF CleanOf
<1> QED
  BY <1>4, <1>5, <1>6

LEMMA HeardRefs ==
  ASSUME IInv, NEW c \in Calls, NEW r, Heard(c, "main", r), Loc(c, "main") = "refs"
  PROVE  Progress(c)' /\ Steady(c, "main")
<1>0. /\ Repository /\ Shapes /\ Stages(c) /\ Searches(c) /\ Snapshotted(c) /\ Marks(c)
      /\ Orderly(c) => OnlyMarked(c)
      /\ call[c] \in CallRec /\ "main" \in Threads /\ "main" \notin Files
      /\ Continue(c, "main", r) /\ Grows /\ UNCHANGED <<commits, refs, work>>
  <2>1. Repository
    BY DEF IInv
  <2>2. work \in [Files -> Contents] /\ work' \in [Files -> Contents]
    BY <2>1 DEF Repository, Heard
  <2>3. \A f \in Files : work'[f] = work[f]
    BY DEF Heard
  <2>4. work' = work
    BY <2>2, <2>3
  <2>5. UNCHANGED <<commits, refs>> /\ Continue(c, "main", r) /\ Grows
    BY DEF Heard
  <2> QED
    BY <2>4, <2>5, Names DEF IInv, Shapes, CallInv, Progress
<1>1. SoundIn(World', c, "main", r) /\ Open(c)
  <2>1. Loc(c, "main") \in Operations \ {"checkout"}
    BY DEF Operations, ReadOnly, Writing
  <2> QED
    BY <1>0, <2>1, Working DEF Alone, Heard
<1>2. r.how = "ok" => r.val \subseteq DOMAIN refs
  BY <1>0, <1>1 DEF SoundIn, World
<1>3. /\ call[c].kind = "commit" /\ call[c].found = {}
      /\ \A f \in Files : Loc(c, f) = "rest" /\ owed[c][f] = {}
  BY <1>0 DEF Stages, InRepair
<1> DEFINE none == r.how # "ok" \/ r.val = {}
           Due(f) == IF work[f] # "marked" \/ \A n \in r.val : Committed(n, f) \in {"marked", "none"}
                     THEN {} ELSE LatestClean(r.val, f)
<1>4. /\ thread' = [thread EXCEPT ![c] =
           [t \in Threads |->
              IF t = "main" THEN At(IF none THEN "pass" ELSE "gather")
              ELSE At(IF none THEN "rest" ELSE "read")]]
      /\ call' = IF none THEN call ELSE [call EXCEPT ![c].left = [f \in Files |-> r.val]]
      /\ owed' = IF none THEN owed ELSE [owed EXCEPT ![c] = [f \in Files |-> Due(f)]]
  BY <1>0 DEF Continue, AfterRefs
<1>5. \A l \in {"pass", "gather", "rest", "read"} :
        At(l) \in ThreadRec /\ At(l).loc = l /\ At(l).ph = "ready"
  BY DEF At, ThreadRec, Locs, Operations, ReadOnly
<1>6. /\ thread' \in [Calls -> [Threads -> ThreadRec]]
      /\ Loc(c, "main")' = (IF none THEN "pass" ELSE "gather")
      /\ \A f \in Files : Loc(c, f)' = IF none THEN "rest" ELSE "read"
      /\ \A t \in Threads : thread'[c][t].ph = "ready"
      /\ \A d \in Calls \ {c} : thread'[d] = thread[d]
  <2>1. thread'[c] = [t \in Threads |->
              IF t = "main" THEN At(IF none THEN "pass" ELSE "gather")
              ELSE At(IF none THEN "rest" ELSE "read")]
    BY <1>0, <1>4 DEF Shapes
  <2>2. thread'[c] \in [Threads -> ThreadRec]
    BY <1>5, <2>1
  <2> QED
    BY <1>0, <1>4, <1>5, <2>1, <2>2, Names DEF Shapes, Loc
<1>7. CASE none
  <2>1. call' = call /\ owed' = owed
    BY <1>4, <1>7
  <2>2. Snapshotted(c)'
    BY <1>0, <1>3, <2>1 DEF Snapshotted, Grows
  <2>3. call'[c] = [call[c] EXCEPT !.short = call'[c].short, !.second = call'[c].second]
    BY <1>0, <2>1 DEF CallRec
  <2>4. Loc(c, "main")' = "pass" /\ "pass" \in Locs /\ "pass" \notin InSnapshot
    BY <1>6, <1>7 DEF Locs, InSnapshot
  <2>5. \A f \in Files : Loc(c, f)' = "rest" /\ thread'[c][f].ph = "ready"
    BY <1>6, <1>7, Names
  <2>6. Progress(c)'
    BY <1>0, <1>3, <1>6, <2>1, <2>2, <2>3, <2>4, <2>5, Plain
  <2> QED
    BY <1>0, <1>6, <2>1, <2>6 DEF Steady, Shapes
<1>8. CASE ~none
  <2>1. r.val # {} /\ r.val \subseteq DOMAIN refs /\ DOMAIN refs \subseteq Name
    BY <1>0, <1>2, <1>8 DEF Repository
  <2> DEFINE new == [call[c] EXCEPT !.left = [f \in Files |-> r.val]]
  <2>2. new \in CallRec
    BY <1>0, <2>1 DEF CallRec
  <2>3. /\ call'[c] = new /\ call' \in [Calls -> CallRec]
        /\ \A d \in Calls \ {c} : call'[d] = call[d]
    BY <1>0, <1>4, <1>8, <2>2 DEF Shapes
  <2>4. /\ call'[c].outcome = call[c].outcome /\ call'[c].kind = call[c].kind
        /\ call'[c].where = call[c].where /\ call'[c].short = call[c].short
        /\ call'[c].second = call[c].second
        /\ call'[c].found = call[c].found /\ call'[c].job = call[c].job
        /\ \A f \in Files : call'[c].left[f] = r.val
    BY <1>0, <2>3 DEF CallRec
  <2>5. \A f \in Files : LatestClean(r.val, f) \subseteq Contents
    <3> TAKE f \in Files
    <3>1. \A n \in r.val : Committed(n, f) \in Contents
      BY <1>0, <2>1, ShownType
    <3> QED
      BY <3>1 DEF LatestClean
  <2>6. /\ owed' \in [Calls -> [Files -> SUBSET Contents]]
        /\ \A f \in Files : owed'[c][f] = Due(f)
        /\ \A d \in Calls \ {c} : owed'[d] = owed[d]
    <3>1. [f \in Files |-> Due(f)] \in [Files -> SUBSET Contents]
      BY <2>5
    <3> HIDE DEF Due
    <3> QED
      BY <1>0, <1>4, <1>8, <3>1 DEF Shapes
  <2>7. /\ Loc(c, "main")' = "gather" /\ \A f \in Files : Loc(c, f)' = "read"
    BY <1>6, <1>8
  <2>8. Stages(c)'
    BY <1>0, <1>1, <1>3, <1>6, <2>4, <2>7, Names DEF Stages, Open, InRepair, InSnapshot
  <2>9. Jobs(c)' = {}
    BY <1>3, <2>4, <2>7 DEF Jobs
  <2>10. Searches(c)'
    BY <1>0, <2>1, <2>4, <2>9 DEF Searches
  <2>11. Snapshotted(c)'
    BY <1>0, <1>3, <2>4 DEF Snapshotted
  <2>12. Marks(c)'
    BY <1>0, <1>1 DEF Marks, Grows
  <2>13. Orderly(c) => OnlyMarked(c)'
    BY <1>0, <2>4, <2>7 DEF OnlyMarked, Grows
  <2>14. Repaired(c)'
    <3> SUFFICES ASSUME NEW f \in Files, owed'[c][f] # {}
                 PROVE  work'[f] = "marked" /\ CleanOf(Held(c, f)') = owed'[c][f]
      BY <2>7, <2>9 DEF Repaired
    <3>1. work[f] = "marked" /\ owed'[c][f] = LatestClean(r.val, f)
      BY <2>6
    <3>2. Held(c, f)' = [n \in r.val |-> Committed(n, f)]
      BY <1>0, <2>4 DEF Held, Committed
    <3> QED
      BY <1>0, <3>1, <3>2, LatestIs
  <2>15. Orderly(c)' = Orderly(c)
    BY DEF Orderly
  <2>16. Progress(c)'
    BY <2>8, <2>10, <2>11, <2>12, <2>13, <2>14, <2>15 DEF Progress
  <2>17. Steady(c, "main")
    BY <1>0, <1>6, <2>3, <2>4, <2>6, Zenon DEF Steady
  <2> QED
    BY <2>16, <2>17
<1> QED
  BY <1>7, <1>8

LEMMA HeardRead ==
  ASSUME IInv, NEW c \in Calls, NEW f \in Files, NEW r, Heard(c, f, r), Loc(c, f) = "read"
  PROVE  Progress(c)' /\ Steady(c, f)
<1>0. /\ Repository /\ Shapes /\ Stages(c) /\ Searches(c) /\ Snapshotted(c) /\ Marks(c)
      /\ Orderly(c) => OnlyMarked(c) /\ ("none" \notin Versions => Repaired(c))
      /\ call[c] \in CallRec /\ f \in Threads /\ f # "main"
  BY Names DEF IInv, Shapes, CallInv, Progress
<1>1. /\ Continue(c, f, r) /\ Grows /\ UNCHANGED <<commits, refs>>
      /\ \A g \in Files : work'[g] = work[g]
      /\ \A g \in Files : <<c, g>> \in others' => <<c, g>> \in others
      /\ Orderly(c) => SoundIn(World', c, f, r)
  BY DEF Heard, Orderly, Alone
<1> DEFINE l == IF r.how = "ok" /\ r.val = "marked" THEN "show" ELSE "rest"
<1>2. call' = call /\ owed' = owed /\ thread' = [thread EXCEPT ![c][f] = At(l)]
  BY <1>1 DEF Continue, AfterRead, Same
<1>3. l \in Locs /\ l \in {"show", "rest"}
  BY DEF Locs, Operations, ReadOnly
<1> HIDE DEF l
<1>4. /\ thread' \in [Calls -> [Threads -> ThreadRec]]
      /\ Loc(c, f)' = l /\ thread'[c][f].ph = "ready"
      /\ \A u \in Threads \ {f} : thread'[c][u] = thread[c][u] /\ Loc(c, u)' = Loc(c, u)
      /\ \A d \in Calls \ {c} : thread'[d] = thread[d]
  BY <1>0, <1>2, <1>3, GoneTo
<1>5. Loc(c, "main")' = Loc(c, "main") /\ thread'[c]["main"] = thread[c]["main"]
  BY <1>0, <1>4, Names
<1>6. /\ Loc(c, "main") \in {"gather", "checkout"} /\ Open(c) /\ Open(c)'
      /\ Jobs(c)' = Jobs(c) /\ SnapName(c)' = SnapName(c) /\ Orderly(c)' = Orderly(c)
  BY <1>0, <1>2, <1>5 DEF Stages, Open, Jobs, SnapName, Orderly
<1>7. Stages(c)'
  <2>1. \A g \in Files : Loc(c, g)' \in {"rest", "read", "show"}
    BY <1>0, <1>3, <1>4, Names DEF Stages
  <2>2. \A t \in Threads : thread'[c][t].ph # "ready" => Loc(c, t)' \in Operations /\ c \in Guests
    BY <1>0, <1>4 DEF Stages
  <2> QED
    BY <1>0, <1>2, <1>5, <1>6, <2>1, <2>2 DEF Stages
<1>8. Searches(c)'
  <2>1. \A g \in Files : Loc(c, g)' \in {"read", "show"} => call[c].left[g] # {}
    BY <1>0, <1>4, Names DEF Searches
  <2>2. \A j \in Jobs(c) : j.file # f
    BY <1>0 DEF Searches
  <2>3. \A j \in Jobs(c) : Loc(c, j.file)' = "rest"
    BY <1>0, <1>4, <2>2, Names DEF Searches
  <2> QED
    BY <1>0, <1>1, <1>2, <1>6, <2>1, <2>3 DEF Searches
<1>9. Snapshotted(c)'
  BY <1>0, <1>1, <1>2, <1>5, <1>6 DEF Snapshotted, Grows
<1>10. Marks(c)'
  BY <1>0, <1>1, <1>6 DEF Marks, Grows
<1>11. Orderly(c) => OnlyMarked(c)'
  <2> SUFFICES ASSUME Orderly(c) PROVE OnlyMarked(c)'
    OBVIOUS
  <2>1. l = "show" => <<c, f>> \in sawMarks'
    BY <1>1 DEF SoundIn, World, l
  <2>2. \A g \in Files : Loc(c, g)' = "show" => <<c, g>> \in sawMarks'
    BY <1>0, <1>1, <1>4, <2>1, Names DEF OnlyMarked, Grows
  <2> QED
    BY <1>0, <1>1, <1>2, <2>2 DEF OnlyMarked, Grows
<1>12. Orderly(c) /\ "none" \notin Versions => Repaired(c)'
  <2> SUFFICES ASSUME Orderly(c), "none" \notin Versions, NEW g \in Files,
                      c \notin troubled', <<c, g>> \notin others', owed[c][g] # {}
               PROVE  /\ Loc(c, g)' # "rest" =>
                           work'[g] = "marked" /\ CleanOf(Held(c, g)') = owed[c][g]
                      /\ \A j \in Jobs(c) : j.file = g => Committed(j.ref, g)' \in owed[c][g]
                      /\ Loc(c, g)' = "rest" =>
                           work'[g] \in owed[c][g] \/ \E j \in Jobs(c) : j.file = g
    BY <1>2, <1>6 DEF Repaired
  <2>1. c \notin troubled /\ (<<c, g>> \in others => <<c, g>> \in others')
    BY <1>1 DEF Grows
  <2>2. <<c, g>> \notin others
    BY <2>1
  <2>3. /\ Loc(c, g) # "rest" => work[g] = "marked" /\ CleanOf(Held(c, g)) = owed[c][g]
        /\ \A j \in Jobs(c) : j.file = g => Committed(j.ref, g) \in owed[c][g]
        /\ Loc(c, g) = "rest" => work[g] \in owed[c][g] \/ \E j \in Jobs(c) : j.file = g
    BY <1>0, <2>1, <2>2 DEF Repaired
  <2>4. Loc(c, g)' = "rest" <=> Loc(c, g) = "rest"
    <3>1. CASE g = f
      <4>1. r.how = "ok" /\ r.val = "marked"
        BY <1>1, <3>1 DEF SoundIn, World
      <4> QED
        BY <1>4, <3>1, <4>1 DEF l
    <3>2. CASE g # f
      BY <1>4, <3>2, Names
    <3> QED
      BY <3>1, <3>2
  <2>5. Held(c, g)' = Held(c, g) /\ \A j : Committed(j.ref, g)' = Committed(j.ref, g)
    BY <1>1, <1>2 DEF Held, Committed
  <2> QED
    BY <1>1, <2>3, <2>4, <2>5
<1> QED
  <2>1. Progress(c)'
    BY <1>6, <1>7, <1>8, <1>9, <1>10, <1>11, <1>12 DEF Progress
  <2>2. Steady(c, f)
    BY <1>0, <1>2, <1>4 DEF Steady, Shapes
  <2> QED
    BY <2>1, <2>2

(* The newest snapshot decides if it is clean, and counts for nothing if   *)
(* it holds markers.                                                       *)
LEMMA NewestDecides ==
  ASSUME Repository, NEW names, names \subseteq DOMAIN refs, names # {}, NEW f
  PROVE  LET n == Newest(names) IN
         /\ Committed(n, f) \notin {"marked", "none"} => Committed(n, f) \in LatestClean(names, f)
         /\ Committed(n, f) = "marked" => LatestClean(names \ {n}, f) = LatestClean(names, f)
         /\ LatestClean({}, f) = {}
<1> DEFINE n == Newest(names)
           clean == {m \in names : Committed(m, f) \notin {"marked", "none"}}
           seconds == {m.second : m \in clean}
<1>1. names \subseteq Name
  BY DEF Repository
<1>2. n \in names /\ \A m \in names : m.second <= n.second
  BY <1>1, NewestIs
<1> HIDE DEF n
<1>3. LatestClean(names, f) = {Committed(m, f) : m \in {k \in clean : k.second = Max(seconds)}}
  BY DEF LatestClean
<1>4. ASSUME Committed(n, f) \notin {"marked", "none"}
      PROVE  Committed(n, f) \in LatestClean(names, f)
  <2>1. n \in clean /\ n.second \in seconds /\ seconds \subseteq 0..MaxSecond /\ MaxSecond \in Nat
    BY <1>1, <1>2, <1>4, InterposeAssumption DEF Name
  <2>2. Max(seconds) \in seconds /\ \A y \in seconds : y <= Max(seconds)
    BY <2>1, Greatest
  <2>3. Max(seconds) <= n.second /\ n.second <= Max(seconds)
    BY <1>2, <2>1, <2>2
  <2>4. Max(seconds) \in Nat /\ n.second \in Nat
    BY <2>1, <2>2
  <2>5. n.second = Max(seconds)
    BY <2>3, <2>4
  <2> QED
    BY <1>3, <2>1, <2>5
<1>5. ASSUME Committed(n, f) = "marked"
      PROVE  LatestClean(names \ {n}, f) = LatestClean(names, f)
  <2>1. {m \in names \ {n} : Committed(m, f) \notin {"marked", "none"}} = clean
    BY <1>5
  <2> QED
    BY <1>3, <2>1 DEF LatestClean
<1>6. LatestClean({}, f) = {}
  BY DEF LatestClean
<1> QED
  BY <1>4, <1>5, <1>6 DEF n

LEMMA HeardShow ==
  ASSUME IInv, NEW c \in Calls, NEW f \in Files, NEW r, Heard(c, f, r), Loc(c, f) = "show"
  PROVE  Progress(c)' /\ Steady(c, f)
<1>0. /\ Repository /\ Shapes /\ Stages(c) /\ Searches(c) /\ Snapshotted(c) /\ Marks(c)
      /\ Orderly(c) => OnlyMarked(c) /\ ("none" \notin Versions => Repaired(c))
      /\ call[c] \in CallRec /\ f \in Threads /\ f # "main"
  BY Names DEF IInv, Shapes, CallInv, Progress
<1>1. /\ Continue(c, f, r) /\ Grows /\ UNCHANGED <<commits, refs>>
      /\ \A g \in Files : work'[g] = work[g]
      /\ \A g \in Files : <<c, g>> \in others' => <<c, g>> \in others
      /\ Orderly(c) => SoundIn(World', c, f, r)
  BY DEF Heard, Orderly, Alone
<1> DEFINE names == call[c].left[f]
           n == Newest(names)
           left == names \ {n}
           clean == r # Err /\ r.val # "marked"
           l == IF clean \/ left = {} THEN "rest" ELSE "show"
           new == [file |-> f, ref |-> n]
           Lefts == [call[c].left EXCEPT ![f] = left]
<1>2. /\ call' = IF clean THEN [call EXCEPT ![c].found = @ \cup {new}]
                 ELSE [call EXCEPT ![c].left[f] = left]
      /\ owed' = owed /\ thread' = [thread EXCEPT ![c][f] = At(l)]
  BY <1>1 DEF Continue, AfterShow
<1>3. l \in Locs /\ l \in {"show", "rest"}
  BY DEF Locs, Operations, ReadOnly
<1>4. n \in names /\ n \in DOMAIN refs /\ n \in Name /\ names \subseteq DOMAIN refs
  <2>1. names \subseteq DOMAIN refs /\ names # {}
    BY <1>0 DEF Searches
  <2>2. DOMAIN refs \subseteq Name
    BY <1>0 DEF Repository
  <2>3. n \in names
    BY <2>1, <2>2, NewestIs
  <2> QED
    BY <2>1, <2>2, <2>3
<1>5. n = Newest(call[c].left[f]) /\ names = call[c].left[f] /\ left = names \ {n} /\ (clean \/ left = {} <=> l = "rest")
  BY <1>3
<1> HIDE DEF l, n, names, left, clean
<1>6. /\ thread' \in [Calls -> [Threads -> ThreadRec]]
      /\ Loc(c, f)' = l /\ thread'[c][f].ph = "ready"
      /\ \A u \in Threads \ {f} : thread'[c][u] = thread[c][u] /\ Loc(c, u)' = Loc(c, u)
      /\ \A d \in Calls \ {c} : thread'[d] = thread[d]
  BY <1>0, <1>2, <1>3, GoneTo
<1>7. new \in Job /\ new.file = f /\ new.ref = n
  BY <1>0, <1>4 DEF Job
<1>8. Lefts \in [Files -> SUBSET Name] /\ Lefts[f] = left /\ \A g \in Files \ {f} : Lefts[g] = call[c].left[g]
  BY <1>0, <1>4, <1>5 DEF CallRec
<1>9. /\ call'[c] = IF clean THEN [call[c] EXCEPT !.found = call[c].found \cup {new}]
                    ELSE [call[c] EXCEPT !.left = Lefts]
      /\ \A d \in Calls \ {c} : call'[d] = call[d]
      /\ call' \in [Calls -> CallRec]
  <2>1. CASE clean
    BY <1>0, <1>2, <1>7, <2>1 DEF Shapes, CallRec
  <2>2. CASE ~clean
    BY <1>0, <1>2, <1>8, <2>2 DEF Shapes, CallRec
  <2> QED
    BY <2>1, <2>2
<1>10. /\ call'[c].outcome = call[c].outcome /\ call'[c].kind = call[c].kind
       /\ call'[c].where = call[c].where /\ call'[c].short = call[c].short
       /\ call'[c].second = call[c].second /\ call'[c].job = call[c].job
       /\ call'[c].found = IF clean THEN call[c].found \cup {new} ELSE call[c].found
       /\ call'[c].left = IF clean THEN call[c].left ELSE Lefts
  BY <1>0, <1>9 DEF CallRec
<1> HIDE DEF new, Lefts
<1>11. Loc(c, "main")' = Loc(c, "main") /\ thread'[c]["main"] = thread[c]["main"]
  BY <1>0, <1>6, Names
<1>12. /\ Loc(c, "main") \in {"gather", "checkout"} /\ Open(c) /\ Open(c)'
       /\ SnapName(c)' = SnapName(c) /\ Orderly(c)' = Orderly(c)
       /\ Jobs(c)' = IF clean THEN Jobs(c) \cup {new} ELSE Jobs(c)
       /\ \A j \in Jobs(c) : j.file # f
  BY <1>0, <1>10, <1>11 DEF Stages, Open, Jobs, SnapName, Orderly, Searches
<1>13. Stages(c)'
  <2>1. \A g \in Files : Loc(c, g)' \in {"rest", "read", "show"}
    BY <1>0, <1>3, <1>6, Names DEF Stages
  <2>2. \A t \in Threads : thread'[c][t].ph # "ready" => Loc(c, t)' \in Operations /\ c \in Guests
    BY <1>0, <1>6 DEF Stages
  <2> QED
    BY <1>0, <1>2, <1>10, <1>11, <1>12, <2>1, <2>2 DEF Stages
<1>14. Searches(c)'
  <2>1. ASSUME NEW g \in Files
        PROVE  /\ call'[c].left[g] \subseteq DOMAIN refs
               /\ Loc(c, g)' \in {"read", "show"} => call'[c].left[g] # {}
    <3>1. CASE g = f
      BY <1>3, <1>4, <1>5, <1>6, <1>8, <1>10, <3>1
    <3>2. CASE g # f
      BY <1>0, <1>6, <1>8, <1>10, <3>2, Names DEF Searches
    <3> QED
      BY <3>1, <3>2
  <2>2. ASSUME NEW j \in Jobs(c)'
        PROVE  j.file \in Files /\ j.ref \in DOMAIN refs /\ Loc(c, j.file)' = "rest"
    <3>1. CASE j \in Jobs(c)
      BY <1>0, <1>6, <1>12, <3>1, Names DEF Searches
    <3>2. CASE j = new /\ clean
      BY <1>4, <1>5, <1>6, <1>7, <3>2
    <3> QED
      BY <1>12, <2>2, <3>1, <3>2
  <2> QED
    BY <1>1, <2>1, <2>2 DEF Searches
<1>15. Snapshotted(c)'
  BY <1>0, <1>1, <1>10, <1>11, <1>12 DEF Snapshotted, Grows
<1>16. Marks(c)'
  BY <1>0, <1>1, <1>12 DEF Marks, Grows
<1>17. Orderly(c) => OnlyMarked(c)'
  <2> SUFFICES ASSUME Orderly(c) PROVE OnlyMarked(c)'
    OBVIOUS
  <2>1. <<c, f>> \in sawMarks
    BY <1>0 DEF OnlyMarked
  <2>2. \A g \in Files : Loc(c, g)' = "show" => <<c, g>> \in sawMarks'
    BY <1>0, <1>1, <1>6, <2>1, Names DEF OnlyMarked, Grows
  <2>3. \A j \in call'[c].found \cup {call'[c].job} : j = NoJob \/ <<c, j.file>> \in sawMarks'
    BY <1>0, <1>1, <1>7, <1>10, <2>1 DEF OnlyMarked, Grows
  <2> QED
    BY <2>2, <2>3 DEF OnlyMarked
<1>18. Orderly(c) /\ "none" \notin Versions => Repaired(c)'
  <2> SUFFICES ASSUME Orderly(c), "none" \notin Versions, NEW g \in Files,
                      c \notin troubled', <<c, g>> \notin others', owed[c][g] # {}
               PROVE  /\ Loc(c, g)' # "rest" =>
                           work'[g] = "marked" /\ CleanOf(Held(c, g)') = owed[c][g]
                      /\ \A j \in Jobs(c)' : j.file = g => Committed(j.ref, g)' \in owed[c][g]
                      /\ Loc(c, g)' = "rest" =>
                           work'[g] \in owed[c][g] \/ \E j \in Jobs(c)' : j.file = g
    BY <1>2 DEF Repaired
  <2>1. c \notin troubled /\ <<c, g>> \notin others
    BY <1>1 DEF Grows
  <2>2. /\ Loc(c, g) # "rest" => work[g] = "marked" /\ CleanOf(Held(c, g)) = owed[c][g]
        /\ \A j \in Jobs(c) : j.file = g => Committed(j.ref, g) \in owed[c][g]
        /\ Loc(c, g) = "rest" => work[g] \in owed[c][g] \/ \E j \in Jobs(c) : j.file = g
    BY <1>0, <2>1 DEF Repaired
  <2>3. /\ \A j : Committed(j.ref, g)' = Committed(j.ref, g)
        /\ Held(c, g)' = [m \in call'[c].left[g] |-> Committed(m, g)]
    BY <1>1 DEF Held, Committed
  <2>4. CASE g # f
    <3>1. Held(c, g)' = Held(c, g) /\ Loc(c, g)' = Loc(c, g)
      BY <1>6, <1>8, <1>10, <2>3, <2>4, Names DEF Held
    <3>2. \A j : j.file = g => (j \in Jobs(c)' <=> j \in Jobs(c))
      BY <1>7, <1>12, <2>4
    <3> QED
      BY <1>1, <2>2, <2>3, <3>1, <3>2
  <2>5. CASE g = f
    <3>1. LatestClean(names, f) = owed[c][f] /\ work[f] = "marked"
      <4>1. CleanOf(Held(c, f)) = owed[c][f] /\ work[f] = "marked"
        BY <2>2, <2>5
      <4>2. Held(c, f) = [m \in names |-> Committed(m, f)]
        BY <1>5 DEF Held
      <4> QED
        BY <4>1, <4>2, LatestIs
    <3>2. r = Shown(n, f)
      BY <1>1, <1>5 DEF SoundIn, World
    <3>3. r = Ok(Committed(n, f)) /\ Committed(n, f) # "none"
      <4>1. /\ Committed(n, f) \in Contents
            /\ Shown(n, f) = IF Committed(n, f) = "none" THEN Exit ELSE Ok(Committed(n, f))
        BY <1>0, <1>4, ShownType
      <4>2. Committed(n, f) # "none"
        BY <4>1 DEF Contents
      <4> QED
        BY <3>2, <4>1, <4>2
    <3>4. /\ Committed(n, f) \notin {"marked", "none"} => Committed(n, f) \in LatestClean(names, f)
          /\ Committed(n, f) = "marked" => LatestClean(left, f) = LatestClean(names, f)
          /\ LatestClean({}, f) = {}
      BY <1>0, <1>4, <1>5, NewestDecides
    <3>5. clean <=> Committed(n, f) # "marked"
      BY <3>3 DEF clean, Ok, Err
    <3>6. CASE clean
      <4>1. /\ Loc(c, f)' = "rest"
            /\ new \in Jobs(c)'
            /\ Committed(new.ref, f) \in owed[c][f]
        BY <1>5, <1>6, <1>7, <1>12, <3>1, <3>3, <3>4, <3>5, <3>6
      <4>2. \A j \in Jobs(c)' : j.file = f => j = new
        BY <1>12, <3>6
      <4> QED
        BY <1>7, <2>3, <2>5, <4>1, <4>2
    <3>7. CASE ~clean
      <4>1. LatestClean(left, f) = owed[c][f] /\ left # {}
        BY <2>5, <3>1, <3>4, <3>5, <3>7
      <4>2. Loc(c, f)' # "rest" /\ call'[c].left[f] = left
        BY <1>5, <1>6, <1>8, <1>10, <3>7, <4>1
      <4>3. CleanOf(Held(c, f)') = owed[c][f]
        <5>1. Held(c, f)' = [m \in left |-> Committed(m, f)]
          BY <2>3, <2>5, <4>2
        <5> QED
          BY <4>1, <5>1, LatestIs
      <4>4. \A j \in Jobs(c)' : j.file # f
        BY <1>12, <3>7
      <4> QED
        BY <1>1, <2>5, <3>1, <4>2, <4>3, <4>4
    <3> QED
      BY <3>6, <3>7
  <2> QED
    BY <2>4, <2>5
<1> QED
  <2>1. Progress(c)'
    BY <1>12, <1>13, <1>14, <1>15, <1>16, <1>17, <1>18 DEF Progress
  <2>2. Steady(c, f)
    BY <1>0, <1>2, <1>6, <1>9, <1>10 DEF Steady, Shapes
  <2> QED
    BY <2>1, <2>2

LEMMA HeardCheckOut ==
  ASSUME IInv, NEW c \in Calls, NEW r, Heard(c, "main", r), Loc(c, "main") = "checkout"
  PROVE  Progress(c)' /\ Steady(c, "main")
<1>0. /\ Repository /\ Shapes /\ Stages(c) /\ Searches(c) /\ Snapshotted(c) /\ Marks(c)
      /\ Orderly(c) => OnlyMarked(c) /\ ("none" \notin Versions => Repaired(c))
      /\ call[c] \in CallRec /\ "main" \in Threads /\ "main" \notin Files
  BY Names DEF IInv, Shapes, CallInv, Progress
<1>1. /\ Continue(c, "main", r) /\ Grows /\ UNCHANGED <<commits, refs>>
      /\ \A f \in Files : work'[f] # work[f] => f = call[c].job.file
      /\ \A f \in Files : work'[f] = "marked" /\ work'[f] # work[f] => <<c, f>> \in sawMarks'
      /\ \A f \in Files : <<c, f>> \in others' => <<c, f>> \in others
      /\ Orderly(c) => SoundIn(World', c, "main", r)
  BY DEF Heard, Orderly, Alone
<1>2. call' = call /\ owed' = owed /\ thread' = [thread EXCEPT ![c]["main"] = At("gather")]
  BY <1>1 DEF Continue, AfterCheckOut, Same, Goto
<1>3. "gather" \in Locs
  BY DEF Locs
<1>4. /\ thread' \in [Calls -> [Threads -> ThreadRec]]
      /\ Loc(c, "main")' = "gather" /\ thread'[c]["main"].ph = "ready"
      /\ \A u \in Threads \ {"main"} : thread'[c][u] = thread[c][u] /\ Loc(c, u)' = Loc(c, u)
      /\ \A d \in Calls \ {c} : thread'[d] = thread[d]
  BY <1>0, <1>2, <1>3, GoneTo
<1>5. \A f \in Files : Loc(c, f)' = Loc(c, f) /\ thread'[c][f] = thread[c][f]
  BY <1>0, <1>4, Names
<1>6. /\ Open(c) /\ Open(c)' /\ SnapName(c)' = SnapName(c) /\ Orderly(c)' = Orderly(c)
      /\ Jobs(c)' = call[c].found /\ Jobs(c) = call[c].found \cup {call[c].job}
  BY <1>0, <1>2, <1>4 DEF Stages, Open, Jobs, SnapName, Orderly
<1>7. Stages(c)'
  BY <1>0, <1>2, <1>4, <1>5, <1>6, Names DEF Stages, InRepair, InSnapshot
<1>8. Searches(c)'
  BY <1>0, <1>1, <1>2, <1>5, <1>6 DEF Searches
<1>9. Snapshotted(c)'
  BY <1>0, <1>1, <1>2, <1>4, <1>6 DEF Snapshotted, Grows
<1>10. Marks(c)'
  BY <1>0, <1>1, <1>6 DEF Marks, Grows
<1>11. OnlyMarked(c) => OnlyMarked(c)'
  BY <1>1, <1>2, <1>5 DEF OnlyMarked, Grows
<1>12. Orderly(c) /\ "none" \notin Versions => Repaired(c)'
  <2> SUFFICES ASSUME Orderly(c), "none" \notin Versions, NEW f \in Files,
                      c \notin troubled', <<c, f>> \notin others', owed[c][f] # {}
               PROVE  /\ Loc(c, f) # "rest" =>
                           work'[f] = "marked" /\ CleanOf(Held(c, f)') = owed[c][f]
                      /\ \A j \in Jobs(c)' : j.file = f => Committed(j.ref, f)' \in owed[c][f]
                      /\ Loc(c, f) = "rest" =>
                           work'[f] \in owed[c][f] \/ \E j \in Jobs(c)' : j.file = f
    BY <1>2, <1>5 DEF Repaired
  <2>1. c \notin troubled /\ <<c, f>> \notin others
    BY <1>1 DEF Grows
  <2>2. /\ Loc(c, f) # "rest" => work[f] = "marked" /\ CleanOf(Held(c, f)) = owed[c][f]
        /\ \A j \in Jobs(c) : j.file = f => Committed(j.ref, f) \in owed[c][f]
        /\ Loc(c, f) = "rest" => work[f] \in owed[c][f] \/ \E j \in Jobs(c) : j.file = f
    BY <1>0, <2>1 DEF Repaired
  <2>3. /\ \A j : Committed(j.ref, f)' = Committed(j.ref, f)
        /\ Held(c, f)' = Held(c, f)
    BY <1>1, <1>2 DEF Held, Committed
  <2>4. CASE f = call[c].job.file
    <3>1. Loc(c, f) = "rest"
      BY <1>0, <1>6, <2>4 DEF Searches
    <3>2. work'[f] \in owed[c][f]
      BY <1>1, <2>4 DEF SoundIn, World
    <3> QED
      BY <1>6, <2>2, <2>3, <3>1, <3>2
  <2>5. CASE f # call[c].job.file
    BY <1>1, <1>6, <2>2, <2>3, <2>5
  <2> QED
    BY <2>4, <2>5
<1> QED
  <2>1. Progress(c)'
    BY <1>0, <1>6, <1>7, <1>8, <1>9, <1>10, <1>11, <1>12 DEF Progress
  <2>2. Steady(c, "main")
    BY <1>0, <1>2, <1>4 DEF Steady, Shapes
  <2> QED
    BY <2>1, <2>2

(* Going on with a result one can rely on.                                 *)
LEMMA Continued ==
  ASSUME IInv, NEW c \in Calls, NEW t \in Threads, NEW r, Heard(c, t, r)
  PROVE  Progress(c)' /\ Steady(c, t)
<1>1. Loc(c, t) \in Operations
  BY DEF Heard, Continue, Operations, ReadOnly, Writing
<1>2. CASE Loc(c, t) \in {"read", "show"}
  BY <1>1, <1>2, Working, HeardRead, HeardShow
<1>3. CASE Loc(c, t) \notin {"read", "show"}
  <2>1. t = "main"
    BY <1>1, <1>3, Working
  <2> QED
    BY <1>1, <1>3, <2>1, HeardPlainly, HeardRefs, HeardShort, HeardCheckOut
       DEF Operations, ReadOnly, Writing
<1> QED
  BY <1>2, <1>3

----------------------------------------------------------------------------
(* Steps *)

(* What was lost stays so: the calls that lost it have ended.              *)
LEMMA LostStays ==
  ASSUME IInv, NEW c \in Calls, \A d \in Calls \ {c} : call'[d] = call[d],
         call[c].outcome # "ran" \/ call'[c] = call[c], Grows
  PROVE  \A p \in lost :
           /\ p[1] \in Calls /\ call'[p[1]].outcome = "ran"
           /\ p[1] \notin troubled' /\ call'[p[1]].where = "repo" =>
                /\ call'[p[1]].short # 0
                /\ p[2] \notin commits'[call'[p[1]].short].past
<1> TAKE p \in lost
<1>1. /\ p[1] \in Calls /\ call[p[1]].outcome = "ran"
      /\ p[1] \notin troubled /\ call[p[1]].where = "repo" =>
           call[p[1]].short # 0 /\ p[2] \notin commits[call[p[1]].short].past
  BY DEF IInv, Lost, Past
<1>2. call'[p[1]] = call[p[1]]
  BY <1>1
<1>3. call[p[1]].short # 0 => commits'[call[p[1]].short] = commits[call[p[1]].short]
  BY <1>1 DEF IInv, CallInv, Progress, Snapshotted, Grows
<1> QED
  BY <1>1, <1>2, <1>3 DEF Grows

(* A step of one call.                                                     *)
LEMMA StepOf ==
  ASSUME IInv, NEW c \in Calls, Repository', Grows, Shapes', CallInv(c)', UNCHANGED lost,
         \A d \in Calls \ {c} : Own(d) /\ Witnessed(d),
         call[c].outcome # "ran" \/ call'[c] = call[c]
  PROVE  IInv'
<1>1. \A d \in Calls \ {c} : CallInv(d)'
  BY Frame
<1>2. Lost'
  BY LostStays DEF Own, Lost, Past
<1> QED
  BY <1>1, <1>2 DEF IInv

LEMMA HostStepKeeps ==
  ASSUME IInv, NEW c \in Hosts, NEW t \in Threads, HostStep(c, t)
  PROVE  IInv'
<1>0. c \in Calls /\ c \notin Guests /\ Loc(c, t) \in Operations
  BY Names DEF HostStep
<1>1. PICK r : Perform(c, t, r) /\ Continue(c, t, r)
  BY DEF HostStep
<1>2. UNCHANGED <<now, conn, lost>>
  BY DEF HostStep
<1>3. /\ Repository' /\ Grows
      /\ \A d \in Calls \ {c} : Witnessed(d)
      /\ \A f \in Files : Open(c) /\ work'[f] = "marked" /\ work'[f] # work[f] => <<c, f>> \in sawMarks'
      /\ commits' = commits
      /\ \A f \in Files : <<c, f>> \in others' => <<c, f>> \in others
      /\ Loc(c, t) # "checkout" => UNCHANGED work
      /\ Loc(c, t) # "snap" => UNCHANGED refs
      /\ \A f \in Files : work'[f] # work[f] => f = call[c].job.file
  BY <1>0, <1>1, <1>2, Performed
<1>4. SoundIn(World', c, t, r)
  BY <1>0, <1>1, <1>2, PerformedSound DEF Orderly
<1>5. Open(c)
  BY <1>0, Working
<1>6. Heard(c, t, r)
  BY <1>1, <1>2, <1>3, <1>4, <1>5 DEF Heard
<1>7. Progress(c)' /\ Steady(c, t)
  BY <1>0, <1>6, Continued
<1>8. Shapes'
  BY <1>2, <1>7 DEF IInv, Shapes, Steady
<1>9. CallInv(c)'
  BY <1>0, <1>7 DEF CallInv, Connection
<1>10. \A d \in Calls \ {c} : Own(d)
  BY <1>2, <1>7 DEF Steady, Own
<1> QED
  BY <1>0, <1>2, <1>3, <1>5, <1>8, <1>9, <1>10, StepOf DEF Open

(* Only one goroutine of such a call can be using the connection.          *)
LEMMA Single ==
  ASSUME IInv, NEW c \in Calls, Alone(c) \/ call[c].kind # "commit",
         NEW t \in Threads, NEW u \in Threads,
         Loc(c, t) \in Operations, Loc(c, u) \in Operations
  PROVE  t = u
<1>1. Stages(c) /\ Searches(c)
  BY DEF IInv, CallInv, Progress
<1>2. ASSUME NEW f \in Files, Loc(c, f) \in Operations
      PROVE  Loc(c, "main") \in {"gather", "checkout"} /\ OneFile /\ Loc(c, "main") \notin Operations
  <2>1. Loc(c, f) # "rest"
    BY <1>2 DEF Operations, ReadOnly, Writing
  <2>2. Loc(c, "main") \in {"gather", "checkout"}
    BY <1>1, <2>1 DEF Stages
  <2>3. OneFile
    BY <1>1, <2>2 DEF Alone, Stages, InRepair, Operations, ReadOnly, Writing
  <2>4. Loc(c, "main") # "checkout"
    <3> SUFFICES ASSUME Loc(c, "main") = "checkout" PROVE FALSE
      OBVIOUS
    <3>1. call[c].job.file \in Files /\ Loc(c, call[c].job.file) = "rest"
      BY <1>1 DEF Searches, Jobs
    <3>2. call[c].job.file = f
      BY <2>3, <3>1 DEF OneFile
    <3> QED
      BY <2>1, <3>1, <3>2
  <2> QED
    BY <2>2, <2>3, <2>4 DEF Operations, ReadOnly, Writing
<1> QED
  BY <1>2, Names DEF OneFile

(* While a goroutine is waiting for the guest.                             *)
LEMMA Waits ==
  ASSUME IInv, NEW c \in Calls, Open(c), Repository', Grows, commits' = commits,
         call'[c] = call[c], owed'[c] = owed[c],
         \A t \in Threads :
           /\ Loc(c, t)' = Loc(c, t)
           /\ thread'[c][t].ph # "ready" => Loc(c, t) \in Operations /\ c \in Guests,
         \A f \in Files : work'[f] # work[f] => Loc(c, "main") = "checkout" /\ f = call[c].job.file,
         \A f \in Files : work'[f] = "marked" /\ work'[f] # work[f] => <<c, f>> \in sawMarks',
         \A f \in Files : <<c, f>> \in others' => <<c, f>> \in others
  PROVE  Progress(c)'
<1>0. /\ Repository /\ Stages(c) /\ Searches(c) /\ Snapshotted(c) /\ Marks(c)
      /\ Orderly(c) => OnlyMarked(c) /\ ("none" \notin Versions => Repaired(c))
  BY DEF IInv, CallInv, Progress
<1>1. /\ Loc(c, "main")' = Loc(c, "main") /\ \A f \in Files : Loc(c, f)' = Loc(c, f)
  BY Names
<1>2. /\ Open(c)' /\ SnapName(c)' = SnapName(c) /\ Orderly(c)' = Orderly(c) /\ Jobs(c)' = Jobs(c)
  BY <1>1 DEF Open, Jobs, SnapName, Orderly
<1>3. Stages(c)'
  BY <1>0, <1>1, <1>2 DEF Stages
<1>4. Searches(c)'
  BY <1>0, <1>1, <1>2 DEF Searches, Grows
<1>5. Snapshotted(c)'
  BY <1>0, <1>1, <1>2 DEF Snapshotted, Grows
<1>6. Marks(c)'
  BY <1>0, <1>2 DEF Marks, Grows
<1>7. OnlyMarked(c) => OnlyMarked(c)'
  BY <1>1 DEF OnlyMarked, Grows
<1>8. Repaired(c) => Repaired(c)'
  <2> SUFFICES ASSUME Repaired(c), NEW f \in Files,
                      c \notin troubled', <<c, f>> \notin others', owed[c][f] # {}
               PROVE  /\ Loc(c, f) # "rest" =>
                           work'[f] = "marked" /\ CleanOf(Held(c, f)') = owed[c][f]
                      /\ \A j \in Jobs(c) : j.file = f => Committed(j.ref, f)' \in owed[c][f]
                      /\ Loc(c, f) = "rest" =>
                           work'[f] \in owed[c][f] \/ \E j \in Jobs(c) : j.file = f
    BY <1>1, <1>2 DEF Repaired
  <2>1. c \notin troubled /\ <<c, f>> \notin others
    BY DEF Grows
  <2>2. /\ Loc(c, f) # "rest" => work[f] = "marked" /\ CleanOf(Held(c, f)) = owed[c][f]
        /\ \A j \in Jobs(c) : j.file = f => Committed(j.ref, f) \in owed[c][f]
        /\ Loc(c, f) = "rest" => work[f] \in owed[c][f] \/ \E j \in Jobs(c) : j.file = f
    BY <2>1 DEF Repaired
  <2>3. \A n \in DOMAIN refs : Committed(n, f)' = Committed(n, f)
    BY DEF Committed, Grows
  <2>4. Held(c, f)' = Held(c, f)
    <3>1. call[c].left[f] \subseteq DOMAIN refs
      BY <1>0 DEF Searches
    <3>2. [n \in call[c].left[f] |-> Committed(n, f)'] = [n \in call[c].left[f] |-> Committed(n, f)]
      BY <2>3, <3>1
    <3> QED
      BY <3>2 DEF Held
  <2>5. \A j \in Jobs(c) : j.ref \in DOMAIN refs
    BY <1>0 DEF Searches
  <2>6. CASE work'[f] = work[f]
    BY <2>2, <2>3, <2>4, <2>5, <2>6
  <2>7. CASE work'[f] # work[f]
    <3>1. call[c].job \in Jobs(c) /\ call[c].job.file = f /\ Loc(c, f) = "rest"
      BY <1>0, <2>7 DEF Jobs, Searches
    <3> QED
      BY <2>2, <2>3, <2>5, <3>1
  <2> QED
    BY <2>6, <2>7
<1> QED
  BY <1>0, <1>2, <1>3, <1>4, <1>5, <1>6, <1>7, <1>8 DEF Progress

(* What only the call's own variables change.                              *)
LEMMA Quiet ==
  ASSUME IInv, UNCHANGED <<repo, now, troubled, sawMarks, others>>
  PROVE  Repository' /\ Grows /\ (\A d \in Calls : Witnessed(d)) /\ World' = World
<1>1. Repository'
  BY WorkWritten DEF IInv, Repository, repo
<1> QED
  BY <1>1 DEF Grows, Witnessed, World, repo

LEMMA TornConn ==
  /\ Torn \in ConnRec(Torn.answers) /\ Torn.asks = <<>> /\ Torn.answers = <<>>
  /\ Torn.broken
  /\ NoConn \in ConnRec(NoConn.answers) /\ NoConn.asks = <<>> /\ NoConn.answers = <<>>
  /\ ~NoConn.broken
<1>1. NoConn \in ConnRec(<<>>) /\ NoConn.asks = <<>> /\ NoConn.answers = <<>>
  BY DEF NoConn, ConnRec
<1>2. ~NoConn.broken
  BY DEF NoConn
<1>3. Torn \in ConnRec(<<>>) /\ Torn.asks = <<>> /\ Torn.answers = <<>>
  BY <1>1 DEF Torn, ConnRec
<1>4. Torn.broken
  BY <1>1 DEF Torn, ConnRec
<1> QED
  BY <1>1, <1>2, <1>3, <1>4

LEMMA NumberKeeps ==
  ASSUME IInv, NEW c \in Guests, NEW t \in Threads, Number(c, t)
  PROVE  IInv'
<1>0. /\ c \in Calls /\ Shapes /\ Stages(c) /\ Connection(c)
      /\ Loc(c, t) \in Operations /\ thread[c][t].ph = "ready" /\ ~conn[c].broken
      /\ UNCHANGED <<repo, now, call, conn, troubled, lost, sawMarks, others, owed>>
  BY Names DEF Number, Broken, Still, history, IInv, CallInv, Progress
<1> DEFINE new == [thread[c][t] EXCEPT !.ph = "numbered", !.id = conn[c].next + 1]
<1>1. thread[c][t] \in ThreadRec /\ conn[c].next \in Nat
  BY <1>0 DEF Shapes, ConnRec
<1>2. new \in ThreadRec /\ new.loc = thread[c][t].loc /\ new.ph = "numbered"
  <2>1. conn[c].next + 1 \in Nat
    BY <1>1
  <2> DEFINE i == conn[c].next + 1
  <2> HIDE DEF i
  <2>2. i \in Nat
    BY <2>1 DEF i
  <2>3. /\ [thread[c][t] EXCEPT !.ph = "numbered", !.id = i] \in ThreadRec
        /\ [thread[c][t] EXCEPT !.ph = "numbered", !.id = i].loc = thread[c][t].loc
        /\ [thread[c][t] EXCEPT !.ph = "numbered", !.id = i].ph = "numbered"
    BY <1>1, <2>2 DEF ThreadRec
  <2> QED
    BY <2>3 DEF i
<1>3. thread' = [thread EXCEPT ![c][t] = new]
  BY DEF Number
<1> HIDE DEF new
<1>4. /\ thread' \in [Calls -> [Threads -> ThreadRec]] /\ thread'[c][t] = new
      /\ \A u \in Threads \ {t} : thread'[c][u] = thread[c][u]
      /\ \A d \in Calls \ {c} : thread'[d] = thread[d]
  BY <1>0, <1>2, <1>3 DEF Shapes
<1>5. \A u \in Threads : Loc(c, u)' = Loc(c, u)
  BY <1>2, <1>4 DEF Loc
<1>6. Repository' /\ Grows /\ (\A d \in Calls : Witnessed(d)) /\ World' = World
  BY <1>0, Quiet
<1>7. Open(c)
  BY <1>0, Working
<1>8. \A u \in Threads : thread'[c][u].ph # "ready" => Loc(c, u) \in Operations /\ c \in Guests
  BY <1>0, <1>4 DEF Stages
<1>9. Progress(c)'
  BY <1>0, <1>5, <1>6, <1>7, <1>8, Waits DEF repo
<1>10. Alone(c)' = Alone(c)
  BY <1>5, Names DEF Alone
<1>11. Matched(c) => Matched(c)'
  <2>1. \A u \in Threads : thread'[c][u].ph = "waiting" <=> thread[c][u].ph = "waiting"
    BY <1>0, <1>2, <1>4
  <2>2. \A u \in Threads : thread'[c][u].ph = "waiting" => thread'[c][u] = thread[c][u]
    BY <1>2, <1>4
  <2>3. ASSUME NEW u \in Threads, NEW r, Sound(c, u, r) PROVE Sound(c, u, r)'
    BY <1>0, <1>5, <1>6, <2>3 DEF Sound, SoundIn, Shown, Committed, SnapName, repo
  <2> QED
    BY <1>0, <2>1, <2>2, <2>3 DEF Matched
<1>12. CallInv(c)'
  BY <1>0, <1>9, <1>10, <1>11 DEF CallInv, Connection
<1>13. Shapes'
  BY <1>0, <1>4 DEF Shapes
<1> QED
  BY <1>0, <1>4, <1>6, <1>7, <1>12, <1>13, StepOf DEF Own, Open

LEMMA SendKeeps ==
  ASSUME IInv, NEW c \in Guests, NEW t \in Threads, Send(c, t)
  PROVE  IInv'
<1> DEFINE ask == [id |-> thread[c][t].id, for |-> t]
           sent == [conn[c] EXCEPT !.next = thread[c][t].id, !.asks = Append(@, ask)]
<1>0. /\ c \in Calls /\ Shapes /\ Stages(c) /\ Connection(c)
      /\ thread[c][t].ph = "numbered" /\ ~conn[c].broken
      /\ UNCHANGED <<repo, now, call, troubled, lost, sawMarks, others, owed>>
      /\ thread' = [thread EXCEPT ![c][t].ph = "waiting"]
  BY Names DEF Send, Broken, Still, history, IInv, CallInv, Progress
<1>1. PICK k \in {sent} \cup TornBy(c, t, "numbered") : conn' = [conn EXCEPT ![c] = k]
  BY DEF Send
<1>2. thread[c][t] \in ThreadRec /\ ask \in Ask
  BY <1>0 DEF Shapes, ThreadRec, Ask
<1> DEFINE new == [thread[c][t] EXCEPT !.ph = "waiting"]
<1>3. /\ new \in ThreadRec /\ new.loc = thread[c][t].loc /\ new.ph = "waiting"
      /\ new.id = thread[c][t].id
  BY <1>2 DEF ThreadRec
<1>4. thread' = [thread EXCEPT ![c][t] = new]
  BY <1>0
<1> HIDE DEF new
<1>5. /\ thread' \in [Calls -> [Threads -> ThreadRec]] /\ thread'[c][t] = new
      /\ \A u \in Threads \ {t} : thread'[c][u] = thread[c][u]
      /\ \A d \in Calls \ {c} : thread'[d] = thread[d]
  <2>1. thread \in [Calls -> [Threads -> ThreadRec]] /\ c \in Calls
    BY <1>0 DEF Shapes
  <2> QED
    BY <1>3, <1>4, <2>1
<1>6. \A u \in Threads : Loc(c, u)' = Loc(c, u)
  BY <1>3, <1>5 DEF Loc
<1>7. Repository' /\ Grows /\ (\A d \in Calls : Witnessed(d)) /\ World' = World
  BY <1>0, Quiet
<1>8. Loc(c, t) \in Operations /\ Open(c)
  <2>1. Loc(c, t) \in Operations
    BY <1>0 DEF Stages
  <2> QED
    BY <1>0, <2>1, Working
<1>9. \A u \in Threads : thread'[c][u].ph # "ready" => Loc(c, u) \in Operations /\ c \in Guests
  BY <1>0, <1>5, <1>8 DEF Stages
<1>10. Progress(c)'
  BY <1>0, <1>6, <1>7, <1>8, <1>9, Waits DEF repo
<1>11. Alone(c)' = Alone(c)
  BY <1>6, Names DEF Alone
<1>12. conn' = [d \in Guests |-> conn'[d]] /\ conn'[c] = k /\ \A d \in Guests \ {c} : conn'[d] = conn[d]
  BY <1>0, <1>1 DEF Shapes
<1>13. Alone(c) \/ call[c].kind # "commit" =>
         /\ k = sent
         /\ \A u \in Threads \ {t} : thread[c][u].ph = "ready"
  <2> SUFFICES ASSUME Alone(c) \/ call[c].kind # "commit"
               PROVE  k = sent /\ \A u \in Threads \ {t} : thread[c][u].ph = "ready"
    OBVIOUS
  <2>1. \A u \in Threads \ {t} : thread[c][u].ph = "ready"
    BY <1>0, <1>8, Single DEF Stages
  <2>2. TornBy(c, t, "numbered") = {}
    BY <2>1 DEF TornBy
  <2> QED
    BY <1>1, <2>1, <2>2
<1>14. k = sent \/ k = Torn
  BY <1>1 DEF TornBy
<1>15. /\ sent.asks = Append(conn[c].asks, ask) /\ sent.answers = conn[c].answers
       /\ sent \in ConnRec(sent.answers) /\ sent.broken = conn[c].broken
  <2>1. conn[c] \in ConnRec(conn[c].answers)
    BY <1>0 DEF Shapes
  <2> DEFINE a == Append(conn[c].asks, ask)
             i == thread[c][t].id
  <2>2. i \in Nat /\ a \in Seq(Ask)
    BY <1>2, <2>1 DEF ThreadRec, ConnRec
  <2> HIDE DEF a, i
  <2> DEFINE s == [conn[c] EXCEPT !.next = i, !.asks = a]
  <2>3. s.asks = a /\ s.answers = conn[c].answers /\ s \in ConnRec(conn[c].answers)
    BY <2>1, <2>2 DEF ConnRec
  <2>4. s.broken = conn[c].broken
    BY <2>1 DEF ConnRec
  <2> QED
    BY <2>3, <2>4 DEF a, i
<1> HIDE DEF ask, sent
<1>16. k \in ConnRec(k.answers)
  BY <1>14, <1>15, TornConn
<1>17. Shapes'
  BY <1>0, <1>5, <1>12, <1>16 DEF Shapes
<1>18. k = sent /\ Matched(c) /\ Alone(c) => Matched(c)'
  <2> SUFFICES ASSUME k = sent, Matched(c), Alone(c) PROVE Matched(c)'
    OBVIOUS
  <2>1. \A u \in Threads : thread[c][u].ph # "waiting"
    BY <1>0, <1>13
  <2>2. conn[c].asks = <<>> /\ conn[c].answers = <<>>
    BY <2>1 DEF Matched
  <2>3. conn'[c].asks = <<ask>> /\ conn'[c].answers = <<>>
    BY <1>12, <1>15, <2>2
  <2>4. ask = [id |-> thread'[c][t].id, for |-> t] /\ thread'[c][t].ph = "waiting"
    BY <1>3, <1>5 DEF ask
  <2> QED
    BY <2>3, <2>4 DEF Matched
<1>19. k = sent => k.broken = FALSE
  BY <1>0, <1>15
<1>20. CallInv(c)'
  <2>1. conn'[c].broken /\ (OneFile \/ call[c].kind # "commit") => c \in troubled'
    BY <1>12, <1>13, <1>19 DEF Alone
  <2>2. ~conn'[c].broken /\ Alone(c)' => Matched(c)'
    BY <1>0, <1>11, <1>13, <1>18 DEF Connection
  <2>3. Connection(c)'
    BY <1>0, <2>1, <2>2 DEF Connection
  <2> QED
    BY <1>10, <2>3 DEF CallInv
<1> QED
  BY <1>0, <1>5, <1>7, <1>8, <1>12, <1>17, <1>20, StepOf DEF Own, Open

LEMMA ServeKeeps ==
  ASSUME IInv, NEW c \in Guests, Serve(c)
  PROVE  IInv'
<1> DEFINE ask == Head(conn[c].asks)
           t == ask.for
<1>0. /\ c \in Calls /\ Repository /\ Shapes /\ Stages(c) /\ Searches(c) /\ Connection(c)
      /\ conn[c].asks # <<>> /\ ~conn[c].broken
      /\ UNCHANGED <<now, call, thread, lost, owed>>
  BY Names DEF Serve, Broken, IInv, CallInv, Progress
<1>1. conn[c] \in ConnRec(conn[c].answers) /\ conn[c].asks \in Seq(Ask)
  BY <1>0 DEF Shapes, ConnRec
<1>2. ask \in Ask /\ t \in Threads /\ Tail(conn[c].asks) \in Seq(Ask)
  <2>1. ask \in Ask /\ Tail(conn[c].asks) \in Seq(Ask)
    BY <1>0, <1>1
  <2> QED
    BY <2>1 DEF Ask
<1>3. PICK r :
        /\ Perform(c, t, r)
        /\ conn' = [conn EXCEPT ![c].asks = Tail(@), ![c].answers = Append(@, [id |-> ask.id, r |-> r])]
  BY DEF Serve
<1> DEFINE asks == Tail(conn[c].asks)
           answers == Append(conn[c].answers, [id |-> ask.id, r |-> r])
           k == [conn[c] EXCEPT !.asks = asks, !.answers = answers]
<1>4. /\ conn' = [d \in Guests |-> conn'[d]] /\ conn'[c] = k
      /\ \A d \in Guests \ {c} : conn'[d] = conn[d]
  BY <1>0, <1>3 DEF Shapes
<1> HIDE DEF asks, answers
<1>5. k \in ConnRec(answers) /\ k.asks = asks /\ k.answers = answers /\ k.broken = conn[c].broken
  <2>1. asks \in Seq(Ask)
    BY <1>2 DEF asks
  <2> QED
    BY <1>1, <2>1 DEF ConnRec
<1> HIDE DEF k
<1>6. /\ Repository' /\ Grows
      /\ \A d \in Calls \ {c} : Witnessed(d)
      /\ \A f \in Files : Open(c) /\ work'[f] = "marked" /\ work'[f] # work[f] => <<c, f>> \in sawMarks'
      /\ commits' = commits
      /\ \A f \in Files : <<c, f>> \in others' => <<c, f>> \in others
      /\ Loc(c, t) # "checkout" => UNCHANGED work
      /\ Loc(c, t) # "snap" => UNCHANGED refs
      /\ \A f \in Files : work'[f] # work[f] => f = call[c].job.file
  <2> HIDE DEF t
  <2> QED
    BY <1>0, <1>2, <1>3, Performed
<1>7. Open(c) /\ Open(c)'
  BY <1>0, <1>1, TornConn DEF Stages, Open
<1>8. \A u \in Threads : Loc(c, u)' = Loc(c, u) /\ thread'[c][u] = thread[c][u]
  BY <1>0 DEF Loc
<1>9. Loc(c, t) = "checkout" => Loc(c, "main") = "checkout"
  BY <1>0, <1>2, Names DEF Stages
<1>10. \A u \in Threads : thread[c][u].ph # "ready" => Loc(c, u) \in Operations /\ c \in Guests
  BY <1>0 DEF Stages
<1>11. Progress(c)'
  <2> HIDE DEF t
  <2> QED
    BY <1>0, <1>6, <1>7, <1>8, <1>9, <1>10, Waits
<1>12. Alone(c)' = Alone(c)
  BY <1>8, Names DEF Alone
<1>13. ASSUME Alone(c)
       PROVE  Matched(c)'
  <2>1. PICK u \in Threads :
          /\ thread[c][u].ph = "waiting"
          /\ conn[c].asks = <<[id |-> thread[c][u].id, for |-> u]>> /\ conn[c].answers = <<>>
    BY <1>0, <1>13 DEF Connection, Matched
  <2>2. ask = [id |-> thread[c][u].id, for |-> u] /\ asks = <<>>
    BY <2>1 DEF asks
  <2>3. t = u /\ answers = <<[id |-> thread[c][u].id, r |-> r]>>
    BY <2>1, <2>2 DEF answers
  <2> HIDE DEF t, ask
  <2>4. Loc(c, t) \in Operations
    BY <1>10, <2>1, <2>3
  <2>5. Loc(c, t) \in {"read", "show", "checkout"} => Orderly(c)
    BY <1>0, <1>2, <1>13, <2>4, Names DEF Alone, Orderly, Stages, Operations, ReadOnly, Writing
  <2>6. SoundIn(World', c, u, r) /\ (Loc(c, u) # "snap" => UNCHANGED refs)
    BY <1>0, <1>2, <1>3, <1>6, <2>3, <2>5, PerformedSound
  <2>7. Sound(c, u, r)'
    <3>1. Loc(c, u) = "show" => Shown(Newest(call[c].left[u]), u)' = Shown(Newest(call[c].left[u]), u)
      BY <1>0, <1>6, <2>6 DEF Shown, Committed
    <3>2. SnapName(c)' = SnapName(c) /\ Loc(c, u)' = Loc(c, u)
      BY <1>0, <1>8 DEF SnapName
    <3> QED
      BY <1>0, <2>6, <3>1, <3>2 DEF Sound, SoundIn
  <2>8. conn'[c].asks = <<>> /\ conn'[c].answers = <<[id |-> thread'[c][u].id, r |-> r]>>
    BY <1>4, <1>5, <1>8, <2>2, <2>3
  <2>9. conn'[c].answers[1].r = r
    BY <2>8
  <2> QED
    BY <1>8, <2>1, <2>3, <2>7, <2>8, <2>9 DEF Matched
<1>14. CallInv(c)'
  <2>1. Connection(c)'
    BY <1>0, <1>4, <1>5, <1>6, <1>12, <1>13 DEF Connection, Grows
  <2> QED
    BY <1>11, <2>1 DEF CallInv
<1>15. Shapes'
  BY <1>0, <1>4, <1>5 DEF Shapes
<1> QED
  BY <1>0, <1>4, <1>6, <1>14, <1>15, StepOf DEF Own

(* Going on does not leave one goroutine alone with the connection.        *)
LEMMA AloneBefore ==
  ASSUME IInv, NEW c \in Calls, NEW t \in Threads, NEW r, Continue(c, t, r), Alone(c)'
  PROVE  Alone(c)
<1>0. /\ Stages(c) /\ Loc(c, t) \in Operations
      /\ thread \in [Calls -> [Threads -> ThreadRec]] /\ "main" \in Threads /\ "main" \notin Files
  BY Names DEF IInv, Shapes, CallInv, Progress, Continue, Operations, ReadOnly, Writing
<1>1. SUFFICES ASSUME ~OneFile PROVE Loc(c, "main") \in Operations \ {"checkout"}
  BY DEF Alone
<1>2. Loc(c, "main")' \in Operations \ {"checkout"}
  BY <1>1 DEF Alone
<1>3. CASE Loc(c, t) \in {"read", "show"}
  <2>1. t \in Files /\ Loc(c, "main") \in {"gather", "checkout"}
    BY <1>0, <1>3, Names DEF Stages
  <2>2. \E l : thread' = [thread EXCEPT ![c][t] = At(l)]
    <3>1. AfterRead(c, t, r) \/ AfterShow(c, t, r)
      BY <1>3 DEF Continue
    <3> QED
      BY <3>1 DEF AfterRead, AfterShow
  <2>3. thread'[c]["main"] = thread[c]["main"]
    BY <1>0, <2>1, <2>2
  <2> QED
    BY <1>2, <2>1, <2>3 DEF Loc, Operations, ReadOnly, Writing
<1>4. CASE Loc(c, t) \notin {"read", "show"}
  <2>1. t = "main"
    BY <1>0, <1>4, Working
  <2>2. ASSUME Loc(c, "main") = "checkout" PROVE FALSE
    <3>1. thread' = [thread EXCEPT ![c]["main"] = At("gather")]
      BY <2>1, <2>2 DEF Continue, AfterCheckOut, Goto
    <3>2. Loc(c, "main")' = "gather"
      BY <1>0, <3>1 DEF Loc, At
    <3> QED
      BY <1>2, <3>2 DEF Operations, ReadOnly, Writing
  <2> QED
    BY <1>0, <2>1, <2>2
<1> QED
  BY <1>3, <1>4

LEMMA ReceiveKeeps ==
  ASSUME IInv, NEW c \in Guests, NEW t \in Threads, Receive(c, t)
  PROVE  IInv'
<1> DEFINE answer == Head(conn[c].answers)
           answers == Tail(conn[c].answers)
           read == [conn[c] EXCEPT !.answers = answers]
<1>0. /\ c \in Calls /\ c \notin Hosts /\ Repository /\ Shapes /\ Stages(c) /\ Connection(c)
      /\ thread[c][t].ph = "waiting" /\ conn[c].answers # <<>> /\ ~conn[c].broken
      /\ UNCHANGED <<repo, now, troubled, lost, sawMarks, others>>
  BY Names DEF Receive, Broken, IInv, CallInv, Progress
<1>1. PICK k \in {read} \cup TornBy(c, t, "waiting") :
        /\ Continue(c, t, IF k = read /\ answer.id = thread[c][t].id THEN answer.r ELSE Err)
        /\ conn' = [conn EXCEPT ![c] = k]
  BY DEF Receive
<1> DEFINE r == IF k = read /\ answer.id = thread[c][t].id THEN answer.r ELSE Err
<1>2. Loc(c, t) \in Operations /\ Open(c)
  <2>1. Loc(c, t) \in Operations
    BY <1>0 DEF Stages
  <2> QED
    BY <1>0, <2>1, Working
<1> HIDE DEF answer, answers
<1>3. read \in ConnRec(answers) /\ read.answers = answers /\ read.asks = conn[c].asks /\ read.broken = conn[c].broken
  BY <1>0 DEF Shapes, ConnRec
<1>4. Alone(c) \/ call[c].kind # "commit" =>
        /\ k = read
        /\ \A u \in Threads \ {t} : thread[c][u].ph = "ready"
  <2> SUFFICES ASSUME Alone(c) \/ call[c].kind # "commit"
               PROVE  k = read /\ \A u \in Threads \ {t} : thread[c][u].ph = "ready"
    OBVIOUS
  <2>1. \A u \in Threads \ {t} : thread[c][u].ph = "ready"
    BY <1>0, <1>2, Single DEF Stages
  <2>2. TornBy(c, t, "waiting") = {}
    BY <2>1 DEF TornBy
  <2> QED
    BY <1>1, <2>1, <2>2
<1>5. k = read \/ k = Torn
  BY <1>1 DEF TornBy
<1> HIDE DEF read
<1>6. k \in ConnRec(k.answers)
  BY <1>3, <1>5, TornConn
<1>7. Repository' /\ Grows /\ (\A d \in Calls : Witnessed(d)) /\ World' = World
  BY <1>0, Quiet
<1>8. ASSUME Alone(c)
      PROVE  Sound(c, t, r) /\ conn[c].asks = <<>> /\ answers = <<>>
  <2>1. PICK u, x :
          /\ u \in Threads
          /\ thread[c][u].ph = "waiting"
          /\ conn[c].asks = <<>>
          /\ conn[c].answers = <<[id |-> thread[c][u].id, r |-> x]>>
          /\ Sound(c, u, x)
    BY <1>0, <1>8 DEF Connection, Matched
  <2>2. u = t
    BY <1>4, <1>8, <2>1
  <2>3. answer = [id |-> thread[c][t].id, r |-> x] /\ answers = <<>>
    BY <2>1, <2>2 DEF answer, answers
  <2>4. answer.id = thread[c][t].id /\ answer.r = x /\ k = read
    BY <1>4, <1>8, <2>3
  <2> QED
    BY <2>1, <2>2, <2>3, <2>4
<1> HIDE DEF r
<1>9. Heard(c, t, r)
  <2>1. Continue(c, t, r)
    BY <1>1 DEF r
  <2>2. Alone(c) \/ c \in Hosts => SoundIn(World', c, t, r)
    BY <1>0, <1>7, <1>8 DEF Sound
  <2> QED
    BY <1>0, <1>7, <2>1, <2>2 DEF Heard, repo
<1>10. Progress(c)' /\ Steady(c, t)
  BY <1>0, <1>9, Continued
<1>11. /\ conn' = [d \in Guests |-> conn'[d]] /\ conn'[c] = k
       /\ \A d \in Guests \ {c} : conn'[d] = conn[d]
  BY <1>0, <1>1 DEF Shapes
<1>12. Connection(c)'
  <2>1. conn'[c].broken /\ (OneFile \/ call'[c].kind # "commit") => c \in troubled'
    <3>1. call'[c].kind = call[c].kind
      BY <1>10 DEF Steady
    <3> QED
      BY <1>0, <1>3, <1>4, <1>11, <3>1 DEF Alone
  <2>2. ASSUME Alone(c)' PROVE Matched(c)'
    <3>1. Alone(c)
      BY <1>0, <1>9, <2>2, AloneBefore DEF Heard
    <3>2. conn'[c].asks = <<>> /\ conn'[c].answers = <<>>
      BY <1>3, <1>4, <1>8, <1>11, <3>1
    <3>3. \A u \in Threads : thread'[c][u].ph # "waiting"
      BY <1>4, <1>10, <3>1 DEF Steady
    <3> QED
      BY <3>2, <3>3 DEF Matched
  <2> QED
    BY <2>1, <2>2 DEF Connection
<1>13. Shapes'
  BY <1>0, <1>6, <1>10, <1>11 DEF Shapes, Steady
<1>14. \A d \in Calls \ {c} : Own(d)
  BY <1>10, <1>11 DEF Own, Steady
<1>15. CallInv(c)'
  BY <1>10, <1>12 DEF CallInv
<1> QED
  BY <1>0, <1>2, <1>7, <1>13, <1>14, <1>15, StepOf DEF Open

LEMMA FailBrokenKeeps ==
  ASSUME IInv, NEW c \in Guests, NEW t \in Threads, FailBroken(c, t)
  PROVE  IInv'
<1>0. /\ c \in Calls /\ c \notin Hosts /\ Repository /\ Shapes /\ Stages(c) /\ Connection(c)
      /\ conn[c].broken /\ Loc(c, t) \in Operations /\ Continue(c, t, Err)
      /\ UNCHANGED <<repo, now, conn, troubled, lost, sawMarks, others>>
  BY Names DEF FailBroken, Broken, IInv, CallInv, Progress
<1>1. Open(c) /\ (Loc(c, t) \notin {"read", "show"} => t = "main") /\ (Loc(c, t) \in {"read", "show"} => t \in Files)
  BY <1>0, Working
<1>2. Repository' /\ Grows /\ (\A d \in Calls : Witnessed(d)) /\ World' = World
  BY <1>0, Quiet
<1>3. ASSUME Alone(c)
      PROVE  SoundIn(World', c, t, Err)
  <2>1. OneFile \/ call[c].kind # "commit" => c \in troubled
    BY <1>0 DEF Connection
  <2>2. Loc(c, t) \in {"read", "show", "checkout"} => OneFile
    BY <1>0, <1>1, <1>3 DEF Alone, Stages, Operations, ReadOnly, Writing
  <2>3. Loc(c, t) \in {"short", "snap"} => call[c].kind = "reset"
    BY <1>0, <1>1 DEF Stages, InSnapshot
  <2>4. World'.troubled = troubled
    BY <1>2 DEF World
  <2>5. Err.how = "err"
    BY DEF Err
  <2> QED
    BY <2>1, <2>2, <2>3, <2>4, <2>5 DEF SoundIn
<1>4. Heard(c, t, Err)
  BY <1>0, <1>2, <1>3 DEF Heard, repo
<1>5. Progress(c)' /\ Steady(c, t)
  BY <1>0, <1>4, Continued
<1>6. Connection(c)'
  <2>1. call'[c].kind = call[c].kind
    BY <1>5 DEF Steady
  <2> QED
    BY <1>0, <2>1 DEF Connection
<1>7. Shapes'
  BY <1>0, <1>5 DEF Shapes, Steady
<1>8. \A d \in Calls \ {c} : Own(d)
  BY <1>0, <1>5 DEF Own, Steady
<1>9. CallInv(c)'
  BY <1>5, <1>6 DEF CallInv
<1> QED
  BY <1>0, <1>1, <1>2, <1>7, <1>8, <1>9, StepOf DEF Open

LEMMA BreakKeeps ==
  ASSUME IInv, NEW c \in Guests, Break(c)
  PROVE  IInv'
<1>0. /\ c \in Calls /\ c \notin Hosts /\ Repository /\ Shapes /\ Stages(c) /\ Connection(c)
      /\ Open(c) /\ conn' = [conn EXCEPT ![c] = Torn] /\ troubled' = troubled \cup {c}
      /\ UNCHANGED <<repo, now, call, thread, lost, sawMarks, others, owed>>
  BY Names DEF Break, Broken, IInv, CallInv, Progress
<1>1. Repository'
  BY <1>0, WorkWritten DEF Repository, repo
<1>2. Grows /\ \A d \in Calls : Witnessed(d)
  BY <1>0 DEF Grows, Witnessed, repo
<1>3. Progress(c)'
  <2>1. \A t \in Threads : thread[c][t].ph # "ready" => Loc(c, t) \in Operations /\ c \in Guests
    BY <1>0 DEF Stages
  <2>2. \A t \in Threads : Loc(c, t)' = Loc(c, t)
    BY <1>0 DEF Loc
  <2> QED
    BY <1>0, <1>1, <1>2, <2>1, <2>2, Waits DEF repo
<1>4. conn'[c] = Torn /\ \A d \in Guests \ {c} : conn'[d] = conn[d]
  BY <1>0 DEF Shapes
<1>5. Connection(c)'
  BY <1>0, <1>4, TornConn DEF Connection
<1>6. Shapes'
  BY <1>0, <1>4, TornConn DEF Shapes
<1>7. CallInv(c)'
  BY <1>3, <1>5 DEF CallInv
<1> QED
  BY <1>0, <1>1, <1>2, <1>4, <1>6, <1>7, StepOf DEF Own, Open

(* A step of the main goroutine that changes nothing outside the call.     *)
LEMMA TakeKeeps ==
  ASSUME IInv, NEW c \in Calls, Take(c)
  PROVE  IInv'
<1>0. /\ Repository /\ Shapes /\ Stages(c) /\ Searches(c) /\ Snapshotted(c) /\ Marks(c) /\ Connection(c)
      /\ Orderly(c) => OnlyMarked(c) /\ ("none" \notin Versions => Repaired(c))
      /\ call[c] \in CallRec /\ "main" \in Threads /\ "main" \notin Files
      /\ Loc(c, "main") = "gather"
      /\ UNCHANGED <<repo, now, conn, troubled, lost, sawMarks, others, owed>>
  BY Names DEF IInv, Shapes, CallInv, Progress, Take, history
<1>1. PICK j \in call[c].found : call' = [call EXCEPT ![c].job = j, ![c].found = @ \ {j}]
  BY DEF Take
<1>2. thread' = [thread EXCEPT ![c]["main"] = At("checkout")] /\ "checkout" \in Locs
  BY DEF Take, Goto, Locs, Operations, Writing
<1>3. /\ thread' \in [Calls -> [Threads -> ThreadRec]]
      /\ Loc(c, "main")' = "checkout" /\ thread'[c]["main"].ph = "ready"
      /\ \A u \in Threads \ {"main"} : thread'[c][u] = thread[c][u] /\ Loc(c, u)' = Loc(c, u)
      /\ \A d \in Calls \ {c} : thread'[d] = thread[d]
  BY <1>0, <1>2, GoneTo
<1> DEFINE found == call[c].found \ {j}
<1>4. j \in Job /\ found \subseteq Job
  BY <1>0 DEF CallRec
<1> HIDE DEF found
<1>5. /\ call'[c] = [call[c] EXCEPT !.job = j, !.found = found]
      /\ \A d \in Calls \ {c} : call'[d] = call[d]
      /\ call' \in [Calls -> CallRec]
      /\ call'[c].job = j /\ call'[c].found = found
      /\ call'[c].outcome = call[c].outcome /\ call'[c].kind = call[c].kind
      /\ call'[c].where = call[c].where /\ call'[c].short = call[c].short
      /\ call'[c].second = call[c].second /\ call'[c].left = call[c].left
  <2>1. call'[c] = [call[c] EXCEPT !.job = j, !.found = found] /\ \A d \in Calls \ {c} : call'[d] = call[d]
    BY <1>0, <1>1 DEF Shapes, found
  <2>2. [call[c] EXCEPT !.job = j, !.found = found] \in CallRec
    BY <1>0, <1>4 DEF CallRec
  <2>3. call' = [d \in Calls |-> call'[d]]
    BY <1>0, <1>1 DEF Shapes
  <2>4. call' \in [Calls -> CallRec]
    BY <1>0, <2>1, <2>2, <2>3 DEF Shapes
  <2> QED
    BY <1>0, <2>1, <2>4 DEF CallRec
<1>6. \A f \in Files : Loc(c, f)' = Loc(c, f) /\ thread'[c][f] = thread[c][f]
  BY <1>0, <1>3, Names
<1>7. /\ Open(c) /\ Open(c)' /\ SnapName(c)' = SnapName(c) /\ Orderly(c)' = Orderly(c)
      /\ Jobs(c)' = Jobs(c)
  BY <1>0, <1>1, <1>3, <1>5 DEF Stages, Open, Jobs, SnapName, Orderly, found
<1>8. Repository' /\ Grows /\ (\A d \in Calls : Witnessed(d)) /\ World' = World
  BY <1>0, Quiet
<1>9. Stages(c)'
  BY <1>0, <1>3, <1>5, <1>6, <1>7, Names DEF Stages, InRepair, InSnapshot
<1>10. Searches(c)'
  BY <1>0, <1>5, <1>6, <1>7 DEF Searches, repo
<1>11. Snapshotted(c)'
  BY <1>0, <1>3, <1>5, <1>7 DEF Snapshotted, repo
<1>12. Marks(c)'
  BY <1>0, <1>7 DEF Marks, repo
<1>13. OnlyMarked(c) => OnlyMarked(c)'
  BY <1>0, <1>1, <1>5, <1>6 DEF OnlyMarked, found
<1>14. Repaired(c) => Repaired(c)'
  <2>1. \A n, f : Committed(n, f)' = Committed(n, f)
    BY <1>0 DEF Committed, repo
  <2>2. \A f : Held(c, f)' = Held(c, f)
    BY <1>5, <2>1 DEF Held
  <2> QED
    BY <1>0, <1>6, <1>7, <2>1, <2>2 DEF Repaired, repo
<1>15. Connection(c)'
  <2> SUFFICES ASSUME c \in Guests PROVE Connection(c)'
    BY DEF Connection
  <2>1. Alone(c)' => Alone(c)
    BY <1>3 DEF Alone
  <2>2. thread[c]["main"].ph = "ready"
    BY <1>0 DEF Stages, Operations, ReadOnly, Writing
  <2>3. ASSUME NEW t \in Threads
        PROVE  /\ thread'[c][t].ph = "waiting" <=> thread[c][t].ph = "waiting"
               /\ thread[c][t].ph = "waiting" => thread'[c][t] = thread[c][t] /\ t # "main"
    BY <1>3, <2>2
  <2>4. ASSUME NEW t \in Threads, t # "main", NEW r, Sound(c, t, r)
        PROVE  Sound(c, t, r)'
    <3>1. Loc(c, t)' = Loc(c, t) /\ Loc(c, t) \in {"rest", "read", "show"}
      BY <1>0, <1>3, <2>4, Names DEF Stages
    <3>2. Shown(Newest(call[c].left[t]), t)' = Shown(Newest(call[c].left[t]), t)
      BY <1>0, <1>5 DEF Shown, Committed, repo
    <3> QED
      BY <1>0, <1>5, <1>8, <2>4, <3>1, <3>2 DEF Sound, SoundIn
  <2>5. Matched(c) => Matched(c)'
    BY <1>0, <2>3, <2>4 DEF Matched
  <2> QED
    BY <1>0, <1>5, <2>1, <2>5 DEF Connection
<1>16. CallInv(c)'
  BY <1>0, <1>7, <1>9, <1>10, <1>11, <1>12, <1>13, <1>14, <1>15 DEF CallInv, Progress
<1>17. Shapes'
  BY <1>0, <1>3, <1>5 DEF Shapes
<1> QED
  BY <1>0, <1>3, <1>5, <1>7, <1>8, <1>16, <1>17, StepOf DEF Own, Open

LEMMA GatheredKeeps ==
  ASSUME IInv, NEW c \in Calls, Gathered(c)
  PROVE  IInv'
<1>0. /\ Repository /\ Shapes /\ Stages(c) /\ Searches(c) /\ Snapshotted(c) /\ Marks(c) /\ Connection(c)
      /\ Orderly(c) => OnlyMarked(c) /\ ("none" \notin Versions => Repaired(c))
      /\ call[c] \in CallRec /\ "main" \in Threads /\ "main" \notin Files
      /\ Loc(c, "main") = "gather" /\ call[c].found = {} /\ \A f \in Files : Loc(c, f) = "rest"
      /\ UNCHANGED <<repo, now, conn, call, troubled, lost, sawMarks, others, owed>>
  BY Names DEF IInv, Shapes, CallInv, Progress, Gathered, history
<1>1. thread' = [thread EXCEPT ![c]["main"] = At("pass")] /\ "pass" \in Locs
  BY DEF Gathered, Goto, Locs
<1>2. /\ thread' \in [Calls -> [Threads -> ThreadRec]]
      /\ Loc(c, "main")' = "pass" /\ thread'[c]["main"].ph = "ready"
      /\ \A u \in Threads \ {"main"} : thread'[c][u] = thread[c][u] /\ Loc(c, u)' = Loc(c, u)
      /\ \A d \in Calls \ {c} : thread'[d] = thread[d]
  BY <1>0, <1>1, GoneTo
<1>3. \A f \in Files : Loc(c, f)' = "rest" /\ thread'[c][f] = thread[c][f]
  BY <1>0, <1>2, Names
<1>4. /\ Open(c) /\ Open(c)' /\ SnapName(c)' = SnapName(c) /\ Orderly(c)' = Orderly(c)
      /\ Jobs(c) = {} /\ Jobs(c)' = {}
  BY <1>0, <1>2 DEF Stages, Open, Jobs, SnapName, Orderly
<1>5. Repository' /\ Grows /\ (\A d \in Calls : Witnessed(d)) /\ World' = World
  BY <1>0, Quiet
<1>6. Stages(c)'
  BY <1>0, <1>2, <1>3, <1>4, Names DEF Stages, InRepair, InSnapshot
<1>7. Searches(c)' /\ Marks(c)' /\ (OnlyMarked(c) => OnlyMarked(c)')
  BY <1>0, <1>3, <1>4 DEF Searches, Marks, OnlyMarked, repo
<1>8. Snapshotted(c)'
  BY <1>0, <1>2, <1>4 DEF Snapshotted, repo, Stages, InRepair
<1>9. Repaired(c) => Repaired(c)'
  BY <1>0, <1>3, <1>4 DEF Repaired, repo
<1>10. \A t \in Threads : thread[c][t].ph = "ready" /\ thread'[c][t].ph = "ready"
  <2>1. \A t \in Threads : thread[c][t].ph = "ready"
    BY <1>0, Names DEF Stages, Operations, ReadOnly, Writing
  <2> QED
    BY <1>2, <2>1
<1>11. Connection(c)'
  <2>1. Alone(c)' => Alone(c)
    BY <1>2 DEF Alone, Operations, ReadOnly, Writing
  <2>2. Matched(c) => Matched(c)'
    BY <1>0, <1>10 DEF Matched
  <2> QED
    BY <1>0, <2>1, <2>2 DEF Connection
<1>12. CallInv(c)'
  BY <1>0, <1>4, <1>6, <1>7, <1>8, <1>9, <1>11 DEF CallInv, Progress
<1>13. Shapes'
  BY <1>0, <1>2 DEF Shapes
<1> QED
  BY <1>0, <1>2, <1>4, <1>5, <1>12, <1>13, StepOf DEF Own, Open

LEMMA NoCallIs ==
  /\ NoCall \in CallRec /\ NoCall.outcome = "none" /\ NoCall.short = 0
  /\ NoCall.found = {} /\ NoCall.job = NoJob /\ \A f \in Files : NoCall.left[f] = {}
<1>1. NoJob \in Job
  BY InterposeAssumption, Names DEF NoJob, Job, SnapshotName, Name
<1>2. 0 \in 0..MaxCommits /\ 0 \in 0..MaxSecond
  BY InterposeAssumption
<1> QED
  BY <1>1, <1>2 DEF NoCall, CallRec, Places

(* A call that has ended.                                                  *)
LEMMA EndedCall ==
  ASSUME IInv, NEW c \in Calls, NEW o \in {"ran", "refused"}, Ended(c, o), Open(c),
         Loc(c, "main") \in {"pass", "refuse"}, DOMAIN commits \subseteq DOMAIN commits'
  PROVE  /\ Shapes' /\ CallInv(c)'
         /\ \A d \in Calls \ {c} : Own(d)
         /\ call'[c].outcome = o /\ call'[c].where = call[c].where
         /\ call'[c].short = call[c].short
<1>0. /\ Shapes /\ Stages(c) /\ Snapshotted(c) /\ call[c] \in CallRec
      /\ "main" \in Threads /\ "main" \notin Files
  BY Names DEF IInv, Shapes, CallInv, Progress
<1> DEFINE new == [NoCall EXCEPT !.outcome = o, !.where = call[c].where, !.short = call[c].short]
<1>1. /\ call' = [call EXCEPT ![c] = new]
      /\ thread' = [thread EXCEPT ![c]["main"] = At("rest")]
      /\ conn' = IF c \in Guests THEN [conn EXCEPT ![c] = NoConn] ELSE conn
      /\ owed' = [owed EXCEPT ![c] = [f \in Files |-> {}]]
  BY DEF Ended
<1>2. NoCall \in CallRec /\ NoCall.found = {} /\ NoCall.job = NoJob /\ \A f \in Files : NoCall.left[f] = {}
  BY NoCallIs
<1>3. /\ new \in CallRec /\ new.outcome = o /\ new.where = call[c].where /\ new.short = call[c].short
      /\ new.found = {} /\ new.job = NoJob /\ \A f \in Files : new.left[f] = {}
  BY <1>0, <1>2 DEF CallRec
<1> HIDE DEF new
<1>4. call' \in [Calls -> CallRec] /\ call'[c] = new /\ \A d \in Calls \ {c} : call'[d] = call[d]
  BY <1>0, <1>1, <1>3 DEF Shapes
<1>5. "rest" \in Locs
  BY DEF Locs
<1>6. /\ thread' \in [Calls -> [Threads -> ThreadRec]]
      /\ Loc(c, "main")' = "rest" /\ thread'[c]["main"].ph = "ready"
      /\ \A u \in Threads \ {"main"} : thread'[c][u] = thread[c][u] /\ Loc(c, u)' = Loc(c, u)
      /\ \A d \in Calls \ {c} : thread'[d] = thread[d]
  BY <1>0, <1>1, <1>5, GoneTo
<1>7. \A f \in Files : Loc(c, f)' = "rest" /\ thread'[c][f].ph = "ready"
  BY <1>0, <1>6, Names DEF Stages, Operations, ReadOnly, Writing
<1>8. /\ owed' \in [Calls -> [Files -> SUBSET Contents]] /\ (\A f \in Files : owed'[c][f] = {})
      /\ \A d \in Calls \ {c} : owed'[d] = owed[d]
  BY <1>0, <1>1 DEF Shapes
<1>9. /\ c \in Guests => conn'[c] = NoConn
      /\ conn' = [d \in Guests |-> conn'[d]]
      /\ \A d \in Guests \ {c} : conn'[d] = conn[d]
  BY <1>0, <1>1 DEF Shapes
<1>10. Shapes'
  <2>1. ASSUME NEW d \in Guests PROVE conn'[d] \in ConnRec(conn'[d].answers)
    <3>1. CASE d = c
      BY <1>9, <3>1, TornConn
    <3>2. CASE d # c
      BY <1>0, <1>9, <3>2 DEF Shapes
    <3> QED BY <3>1, <3>2
  <2> QED BY <1>4, <1>6, <1>8, <1>9, <2>1 DEF Shapes
<1>11. ~Open(c)'
  BY <1>3, <1>4 DEF Open
<1>12. Stages(c)'
  BY <1>3, <1>4, <1>6, <1>7, <1>8, <1>9, <1>11, Names DEF Stages, InRepair, InSnapshot
<1>13. Jobs(c)' = {}
  BY <1>3, <1>4, <1>6 DEF Jobs
<1>14. Searches(c)'
  BY <1>3, <1>4, <1>7, <1>13 DEF Searches
<1>15. Snapshotted(c)' /\ Marks(c)'
  BY <1>0, <1>3, <1>4, <1>11 DEF Snapshotted, Marks
<1>16. OnlyMarked(c)'
  BY <1>3, <1>4, <1>7 DEF OnlyMarked
<1>17. Repaired(c)'
  BY <1>8 DEF Repaired
<1>18. Connection(c)'
  <2>1. c \in Guests => Matched(c)'
    BY <1>6, <1>7, <1>9, Names, TornConn DEF Matched
  <2> QED
    BY <1>9, <2>1, TornConn DEF Connection
<1>19. CallInv(c)'
  BY <1>12, <1>14, <1>15, <1>16, <1>17, <1>18 DEF CallInv, Progress
<1>20. \A d \in Calls \ {c} : Own(d)
  BY <1>4, <1>6, <1>8, <1>9 DEF Own
<1> QED
  BY <1>3, <1>4, <1>10, <1>19, <1>20

LEMMA RunKeeps ==
  ASSUME IInv, NEW c \in Calls, Run(c)
  PROVE  IInv'
<1>0. /\ Repository /\ Shapes /\ Snapshotted(c) /\ call[c] \in CallRec
      /\ Open(c) /\ Loc(c, "main") = "pass" /\ Ended(c, "ran")
      /\ UNCHANGED <<now, troubled>>
  BY DEF IInv, Shapes, CallInv, Progress, Run, Ended
<1>1. CASE call[c].kind = "commit" /\ Commit(c)
  <2>1. /\ Repository' /\ DOMAIN commits \subseteq DOMAIN commits'
        /\ \A n \in DOMAIN commits : commits'[n] = commits[n]
    BY <1>0, <1>1, Committing
  <2>2. UNCHANGED <<work, refs, lost, sawMarks, others>>
    BY <1>1 DEF Commit
  <2>3. Grows /\ \A d \in Calls : Witnessed(d)
    BY <1>0, <2>1, <2>2 DEF Grows, Witnessed
  <2>4. /\ Shapes' /\ CallInv(c)' /\ \A d \in Calls \ {c} : Own(d)
    BY <1>0, <2>1, EndedCall
  <2> QED
    BY <1>0, <2>1, <2>2, <2>3, <2>4, StepOf DEF Open
<1>2. CASE call[c].kind = "reset" /\ Reset(c)
  <2>1. /\ Repository' /\ UNCHANGED <<commits, refs>>
        /\ head' = Max(commits[head].past \ {head})
    BY <1>0, <1>2, Resetting DEF Past
  <2> DEFINE parent == Max(commits[head].past \ {head})
             gone == commits[head].past \ Reachable(parent)
  <2>2. lost' = lost \cup {<<c, n>> : n \in gone} /\ Noted({c})
    BY <1>2 DEF Reset
  <2>3. Grows /\ \A d \in Calls \ {c} : Witnessed(d)
    BY <1>0, <2>1, <2>2 DEF Grows, Witnessed, Noted
  <2>4. /\ Shapes' /\ CallInv(c)' /\ \A d \in Calls \ {c} : Own(d)
        /\ call'[c].outcome = "ran" /\ call'[c].where = call[c].where
        /\ call'[c].short = call[c].short
    BY <1>0, <2>1, EndedCall
  <2>5. \A d \in Calls \ {c} : CallInv(d)'
    BY <2>1, <2>3, <2>4, Frame
  <2>6. ASSUME c \notin troubled, call[c].where = "repo", NEW n \in gone
        PROVE  call[c].short # 0 /\ n \notin commits[call[c].short].past
    <3>1. call[c].short # 0 /\ SnapName(c) \in DOMAIN refs
      BY <1>0, <1>2, <2>6 DEF Snapshotted
    <3>2. SnapName(c).short = call[c].short
      BY DEF SnapName, SnapshotName
    <3>3. commits[head].past \cap commits[call[c].short].past \subseteq commits[refs[SnapName(c)]].past
      BY <1>0, <3>1, <3>2 DEF Repository, Kept, Past
    <3>4. commits[refs[SnapName(c)]].past \subseteq Reachable(parent)
      BY <3>1 DEF Reachable
    <3> QED
      BY <2>6, <3>1, <3>3, <3>4
  <2> HIDE DEF gone
  <2>7. Lost'
    <3> SUFFICES ASSUME NEW p \in lost'
                 PROVE  /\ p[1] \in Calls /\ call'[p[1]].outcome = "ran"
                        /\ p[1] \notin troubled' /\ call'[p[1]].where = "repo" =>
                             /\ call'[p[1]].short # 0
                             /\ p[2] \notin commits'[call'[p[1]].short].past
      BY DEF Lost, Past
    <3>1. CASE p \in lost
      BY <1>0, <2>3, <2>4, <3>1, LostStays DEF Own, Open
    <3>2. CASE p \in {<<c, n>> : n \in gone}
      <4>1. PICK n \in gone : p = <<c, n>>
        BY <3>2
      <4> QED
        BY <1>0, <2>1, <2>4, <2>6, <4>1
    <3> QED
      BY <2>2, <3>1, <3>2
  <2> QED
    BY <2>1, <2>4, <2>5, <2>7 DEF IInv
<1>3. CASE UNCHANGED <<repo, lost, sawMarks, others>>
  <2>1. Repository' /\ Grows /\ \A d \in Calls : Witnessed(d)
    BY <1>0, <1>3, Quiet
  <2>2. /\ Shapes' /\ CallInv(c)' /\ \A d \in Calls \ {c} : Own(d)
    BY <1>0, <1>3, EndedCall DEF repo
  <2> QED
    BY <1>0, <1>3, <2>1, <2>2, StepOf DEF Open
<1> QED
  BY <1>1, <1>2, <1>3 DEF Run

LEMMA RefuseKeeps ==
  ASSUME IInv, NEW c \in Calls, Refuse(c)
  PROVE  IInv'
<1>0. /\ Open(c) /\ Loc(c, "main") \in {"pass", "refuse"} /\ Ended(c, "refused")
      /\ UNCHANGED <<repo, now, troubled, lost, sawMarks, others>>
  BY DEF Refuse, Ended
<1>1. Repository' /\ Grows /\ \A d \in Calls : Witnessed(d)
  BY <1>0, Quiet
<1>2. /\ Shapes' /\ CallInv(c)' /\ \A d \in Calls \ {c} : Own(d)
  BY <1>0, EndedCall DEF repo
<1> QED
  BY <1>0, <1>1, <1>2, StepOf DEF Open

LEMMA EnteredKeeps ==
  ASSUME IInv, NEW c \in Calls, call[c].outcome = "none", NEW kind \in Kinds,
         NEW where \in Places \cup {"unwrapped"}, NEW l \in {"refuse", "pass", "root", "confirm"},
         Entered(c, kind, where, l),
         l = "root" => kind \in {"commit", "reset"}, l = "confirm" => kind = "kill",
         kind = "reset" /\ where = "repo" => l # "pass"
  PROVE  IInv'
<1>0. /\ Repository /\ Shapes /\ Stages(c) /\ Searches(c) /\ Snapshotted(c)
      /\ Orderly(c) => OnlyMarked(c)
      /\ call[c] \in CallRec /\ "main" \in Threads /\ "main" \notin Files
      /\ kind \in {"commit", "reset", "status", "kill"}
      /\ UNCHANGED <<repo, now, conn, troubled, lost, others, owed>>
      /\ sawMarks' = sawMarks \cup {<<c, f>> : f \in {g \in Files : work[g] = "marked"}}
      /\ l \in Locs
  BY InterposeAssumption, Names DEF IInv, Shapes, CallInv, Progress, Entered, Locs, Operations, ReadOnly
<1> DEFINE new == [call[c] EXCEPT !.outcome = "open", !.kind = kind, !.where = where]
<1>1. call' = [call EXCEPT ![c] = new] /\ thread' = [thread EXCEPT ![c]["main"] = At(l)]
  BY DEF Entered
<1>2. /\ new \in CallRec /\ new.outcome = "open" /\ new.kind = kind /\ new.where = where
      /\ new.short = call[c].short /\ new.found = call[c].found /\ new.job = call[c].job
      /\ new.left = call[c].left
  BY <1>0 DEF CallRec
<1> HIDE DEF new
<1>3. call' \in [Calls -> CallRec] /\ call'[c] = new /\ \A d \in Calls \ {c} : call'[d] = call[d]
  BY <1>0, <1>1, <1>2 DEF Shapes
<1>4. /\ thread' \in [Calls -> [Threads -> ThreadRec]]
      /\ Loc(c, "main")' = l /\ thread'[c]["main"].ph = "ready"
      /\ \A u \in Threads \ {"main"} : thread'[c][u] = thread[c][u] /\ Loc(c, u)' = Loc(c, u)
      /\ \A d \in Calls \ {c} : thread'[d] = thread[d]
  BY <1>0, <1>1, GoneTo
<1>5. /\ ~Open(c) /\ Loc(c, "main") = "rest" /\ call[c].found = {} /\ call[c].job = NoJob
      /\ \A f \in Files : Loc(c, f) = "rest" /\ owed[c][f] = {}
      /\ c \in Guests => conn[c] = NoConn
  <2>1. ~Open(c)
    BY DEF Open
  <2> QED
    BY <1>0, <2>1 DEF Stages
<1>6. \A f \in Files : Loc(c, f)' = "rest" /\ thread'[c][f].ph = "ready"
  BY <1>0, <1>4, <1>5, Names DEF Stages, Operations, ReadOnly, Writing
<1>7. Open(c)' /\ Jobs(c)' = {} /\ Orderly(c)' = Orderly(c)
  BY <1>2, <1>3, <1>4, <1>5 DEF Open, Jobs, Orderly
<1>8. Stages(c)'
  BY <1>0, <1>2, <1>3, <1>4, <1>5, <1>6, <1>7, Names DEF Stages, InRepair, InSnapshot
<1>9. Searches(c)'
  BY <1>0, <1>2, <1>3, <1>6, <1>7 DEF Searches, repo
<1>10. Snapshotted(c)'
  BY <1>0, <1>2, <1>3, <1>4 DEF Snapshotted, repo
<1>11. Marks(c)'
  BY <1>0 DEF Marks, repo
<1>12. OnlyMarked(c)' /\ Repaired(c)'
  BY <1>0, <1>2, <1>3, <1>5, <1>6 DEF OnlyMarked, Repaired
<1>13. Connection(c)'
  <2>1. c \in Guests => Matched(c)'
    BY <1>0, <1>4, <1>5, <1>6, Names, TornConn DEF Matched
  <2> QED
    BY <1>0, <1>5, <2>1, TornConn DEF Connection
<1>14. Repository'
  BY <1>0, WorkWritten DEF repo, Repository
<1>15. Grows /\ \A d \in Calls : Witnessed(d)
  BY <1>0 DEF Grows, Witnessed, repo
<1>16. Shapes'
  BY <1>0, <1>3, <1>4 DEF Shapes
<1>17. CallInv(c)'
  BY <1>8, <1>9, <1>10, <1>11, <1>12, <1>13 DEF CallInv, Progress
<1> QED
  BY <1>0, <1>3, <1>4, <1>14, <1>15, <1>16, <1>17, StepOf DEF Own

LEMMA BeginsAt ==
  ASSUME NEW kind \in Kinds, NEW bypass \in BOOLEAN, NEW listed
  PROVE  LET l == Before(Transform([kind |-> kind, bypass |-> bypass]), listed) IN
         /\ l \in {"pass", "root", "confirm"}
         /\ l = "root" => kind \in {"commit", "reset"}
         /\ l = "confirm" => kind = "kill"
         /\ kind = "reset" => l # "pass"
<1> DEFINE args == [kind |-> kind, bypass |-> bypass]
<1>1. StripNoInterpose(args).kind = kind /\ ~StripNoInterpose(args).bypass
  BY DEF StripNoInterpose
<1>2. CASE kind = "kill"
  BY <1>2 DEF Before, Transform
<1>3. CASE kind # "kill"
  <2>1. Transform(args) = StripNoInterpose(args)
    BY <1>3 DEF Transform
  <2> HIDE DEF args
  <2>2. Before(Transform(args), listed) =
          IF kind \in {"commit", "reset"} THEN "root" ELSE "pass"
    BY <1>1, <1>3, <2>1 DEF Before, NeedsRestore, NeedsSnapshot
  <2> QED
    BY <2>2 DEF args
<1> QED
  BY <1>2, <1>3

LEMMA BeginHostKeeps ==
  ASSUME IInv, NEW c \in Calls, BeginHost(c)
  PROVE  IInv'
<1>1. PICK kind \in Kinds, bypass \in BOOLEAN, where \in Places, listed \in Listed :
        Entered(c, kind, where, Before(Transform([kind |-> kind, bypass |-> bypass]), listed))
  BY DEF BeginHost
<1>2. call[c].outcome = "none"
  BY DEF BeginHost
<1> QED
  BY <1>1, <1>2, BeginsAt, EnteredKeeps

LEMMA BeginGuestKeeps ==
  ASSUME IInv, NEW c \in Calls, BeginGuest(c)
  PROVE  IInv'
<1>1. PICK kind \in Kinds, bypass \in BOOLEAN, where \in Places,
           listed \in BOOLEAN, accepted \in BOOLEAN, wrapped \in BOOLEAN :
        Entered(c, kind, IF wrapped THEN where ELSE "unwrapped",
          IF ~accepted THEN "refuse"
          ELSE IF ~wrapped THEN "pass"
          ELSE Before(Transform([kind |-> kind, bypass |-> bypass]), listed))
  BY DEF BeginGuest
<1>2. call[c].outcome = "none"
  BY DEF BeginGuest
<1> DEFINE place == IF wrapped THEN where ELSE "unwrapped"
           l == IF ~accepted THEN "refuse"
                ELSE IF ~wrapped THEN "pass"
                ELSE Before(Transform([kind |-> kind, bypass |-> bypass]), listed)
<1>3. place \in Places \cup {"unwrapped"} /\ (place = "repo" => wrapped)
  BY DEF Places
<1>4. /\ l \in {"refuse", "pass", "root", "confirm"}
      /\ l = "root" => kind \in {"commit", "reset"}
      /\ l = "confirm" => kind = "kill"
      /\ kind = "reset" /\ wrapped => l # "pass"
  BY BeginsAt
<1> HIDE DEF place, l
<1>5. Entered(c, kind, place, l)
  BY <1>1 DEF place, l
<1> QED
  BY <1>2, <1>3, <1>4, <1>5, EnteredKeeps

(* A step that is of no call.                                              *)
LEMMA AllStay ==
  ASSUME IInv, Repository', Grows, UNCHANGED <<call, thread, conn, owed, lost>>,
         \A d \in Calls : Witnessed(d)
  PROVE  IInv'
<1>1. \A d \in Calls : CallInv(d)'
  BY Frame DEF Own
<1>2. Lost'
  <2> SUFFICES ASSUME NEW p \in lost
               PROVE  /\ p[1] \in Calls /\ call'[p[1]].outcome = "ran"
                      /\ p[1] \notin troubled' /\ call'[p[1]].where = "repo" =>
                           /\ call'[p[1]].short # 0
                           /\ p[2] \notin commits'[call'[p[1]].short].past
    BY DEF Lost, Past
  <2>1. p[1] \in Calls
    BY DEF IInv, Lost
  <2> QED
    BY <2>1, LostStays
<1>3. Shapes'
  BY DEF IInv, Shapes
<1> QED
  BY <1>1, <1>2, <1>3 DEF IInv

LEMMA EditKeeps ==
  ASSUME IInv, NEW f \in Files, Edit(f)
  PROVE  IInv'
<1>1. /\ \E v \in Contents : work' = [work EXCEPT ![f] = v]
      /\ UNCHANGED <<commits, head, refs, now, call, thread, conn, troubled, lost, owed>>
      /\ Noted({})
  BY DEF Edit
<1>2. work' \in [Files -> Contents]
  BY <1>1 DEF IInv, Repository
<1>3. Repository'
  BY <1>1, <1>2, WorkWritten DEF IInv, Repository
<1>4. sawMarks \subseteq sawMarks' /\ others \subseteq others'
  BY <1>1 DEF Noted
<1>5. Grows
  BY <1>1, <1>4 DEF Grows
<1>6. ASSUME NEW d \in Calls PROVE Witnessed(d)
  <2> SUFFICES ASSUME Open(d), NEW g \in Files
               PROVE  /\ work'[g] = "marked" => <<d, g>> \in sawMarks'
                      /\ work'[g] # work[g] => <<d, g>> \in others'
    BY DEF Witnessed
  <2> QED
    BY <1>1 DEF Noted
<1> QED
  BY <1>1, <1>3, <1>5, <1>6, AllStay

LEMMA TickKeeps ==
  ASSUME IInv, Tick
  PROVE  IInv'
<1>1. /\ now' \in 0..MaxSecond
      /\ UNCHANGED <<repo, call, thread, conn, troubled, lost, sawMarks, others, owed>>
  BY InterposeAssumption DEF Tick, history, IInv, Repository
<1>2. Repository'
  BY <1>1, WorkWritten DEF repo, IInv, Repository
<1>3. Grows /\ \A d \in Calls : Witnessed(d)
  BY <1>1 DEF Grows, Witnessed, repo
<1> QED
  BY <1>1, <1>2, <1>3, AllStay

LEMMA Stuttering ==
  ASSUME IInv, UNCHANGED vars
  PROVE  IInv'
<1>1. UNCHANGED <<repo, now, call, thread, conn, troubled, lost, sawMarks, others, owed>>
  BY DEF vars, history
<1>2. Repository' /\ Grows /\ \A d \in Calls : Witnessed(d)
  BY <1>1, Quiet
<1> QED
  BY <1>1, <1>2, AllStay

LEMMA NextKeeps ==
  ASSUME IInv, [Next]_vars
  PROVE  IInv'
<1>1. ASSUME NEW c \in Calls, Step(c) PROVE IInv'
  BY <1>1, TakeKeeps, GatheredKeeps, RunKeeps, RefuseKeeps, HostStepKeeps, ServeKeeps,
     NumberKeeps, SendKeeps, ReceiveKeeps, FailBrokenKeeps DEF Step
<1>2. ASSUME NEW c \in Hosts, BeginHost(c) PROVE IInv'
  <2>1. c \in Calls
    BY Names
  <2> QED
    BY <1>2, <2>1, BeginHostKeeps
<1>3. ASSUME NEW c \in Guests, BeginGuest(c) \/ Break(c) PROVE IInv'
  BY <1>3, BeginGuestKeeps, BreakKeeps, Names
<1> QED
  BY <1>1, <1>2, <1>3, EditKeeps, TickKeeps, Stuttering DEF Next

LEMMA FromFunction ==
  ASSUME NEW S, NEW k \in Nat, NEW q \in [1..k -> S]
  PROVE  q \in Seq(S) /\ Len(q) = k
<1>1. q \in Seq(S)
  BY SeqDef
<1>2. DOMAIN q = 1..Len(q) /\ Len(q) \in Nat
  BY <1>1, LenProperties
<1> QED
  BY <1>1, <1>2

LEMMA InitHolds == Init => IInv
<1> SUFFICES ASSUME Init PROVE IInv
  OBVIOUS
<1>0. MaxCommits \in Nat /\ MaxSecond \in Nat
  BY InterposeAssumption
<1>1. PICK trees \in Histories :
        commits = [n \in DOMAIN trees |-> [tree |-> trees[n], past |-> 1..n]]
  BY DEF Init
<1>2. /\ trees \in Seq([Files -> Contents]) /\ trees # <<>>
      /\ Len(trees) \in 1..MaxCommits /\ Len(trees) - 1 <= MaxSecond
  BY InterposeAssumption DEF Contents
<1>3. /\ commits \in Seq([tree : [Files -> Contents], past : SUBSET Nat])
      /\ Len(commits) = Len(trees) /\ DOMAIN commits = 1..Len(trees)
      /\ \A n \in DOMAIN commits :
           commits[n].past = 1..n /\ commits[n].tree \in [Files -> Contents]
  <2>1. DOMAIN trees = 1..Len(trees) /\ Len(trees) \in Nat
    BY <1>2
  <2>2. \A n \in 1..Len(trees) : trees[n] \in [Files -> Contents]
    BY <1>2, Element
  <2>3. \A n \in 1..Len(trees) :
          [tree |-> trees[n], past |-> 1..n] \in [tree : [Files -> Contents], past : SUBSET Nat]
    BY <2>1, <2>2
  <2>4. commits \in [1..Len(trees) -> [tree : [Files -> Contents], past : SUBSET Nat]]
    BY <1>1, <2>1, <2>3
  <2>5. \A n \in 1..Len(trees) : commits[n].past = 1..n /\ commits[n].tree = trees[n]
    BY <1>1, <2>1
  <2>6. commits \in Seq([tree : [Files -> Contents], past : SUBSET Nat]) /\ Len(commits) = Len(trees)
    <3> DEFINE C == [tree : [Files -> Contents], past : SUBSET Nat]
               k == Len(trees)
    <3>1. k \in Nat /\ commits \in [1..k -> C]
      BY <2>1, <2>4
    <3> HIDE DEF C, k
    <3>2. commits \in Seq(C) /\ Len(commits) = k
      BY <3>1, FromFunction
    <3> QED
      BY <3>2 DEF C, k
  <2> QED
    BY <2>2, <2>4, <2>5, <2>6
<1>4. /\ head = Len(trees) /\ head \in DOMAIN commits
      /\ work \in [Files -> Contents] /\ now \in 0..MaxSecond
  BY <1>0, <1>2, <1>3 DEF Init
<1>5. Graph
  <2>1. \A n \in DOMAIN commits :
          /\ n \in Past(n) /\ Past(n) \subseteq 1..n
          /\ \A m \in Past(n) : Past(m) \subseteq Past(n)
    <3> TAKE n \in DOMAIN commits
    <3>1. n \in Nat /\ n >= 1 /\ n <= Len(trees) /\ Past(n) = 1..n
      BY <1>2, <1>3 DEF Past
    <3>2. ASSUME NEW m \in 1..n PROVE Past(m) \subseteq 1..n
      <4>1. m \in DOMAIN commits
        BY <1>2, <1>3, <3>1
      <4>2. Past(m) = 1..m
        BY <1>3, <4>1 DEF Past
      <4> QED
        BY <3>1, <4>2
    <3> QED
      BY <3>1, <3>2
  <2> QED
    BY <1>2, <1>3, <1>4, <2>1 DEF Graph
<1>6. PICK named \in SUBSET DOMAIN commits :
        refs = [n \in {SnapshotName(m - 1, m) : m \in named} |-> n.second + 1]
  BY DEF Init
<1>7. ASSUME NEW n \in DOMAIN refs
      PROVE  n \in Name /\ refs[n] = n.short /\ n.short \in DOMAIN commits
  <2>1. PICK m \in named : n = SnapshotName(m - 1, m)
    BY <1>6
  <2>2. m \in 1..Len(trees) /\ Len(trees) \in Nat
    BY <1>2, <1>3
  <2>3. n.second = m - 1 /\ n.short = m /\ n \in Name
    BY <1>0, <1>2, <2>1, <2>2 DEF SnapshotName, Name
  <2>4. refs[n] = n.second + 1
    BY <1>6
  <2> QED
    BY <1>3, <2>2, <2>3, <2>4
<1>8. Repository
  <2>1. refs \in [DOMAIN refs -> DOMAIN commits] /\ DOMAIN refs \subseteq Name /\ Kept
    <3>1. refs = [n \in DOMAIN refs |-> refs[n]]
      BY <1>6
    <3> QED
      BY <1>7, <3>1 DEF Kept
  <2> QED
    BY <1>4, <1>5, <2>1 DEF Repository
<1>9. /\ \A c \in Calls : call[c] = NoCall /\ \A f \in Files : owed[c][f] = {}
      /\ \A c \in Calls, t \in Threads : thread[c][t] = At("rest") /\ Loc(c, t) = "rest" /\ thread[c][t].ph = "ready"
      /\ \A c \in Guests : conn[c] = NoConn
      /\ lost = {}
  BY DEF Init, Loc, At
<1>10. Shapes
  <2>1. At("rest") \in ThreadRec
    BY DEF At, ThreadRec, Locs
  <2>2. [f \in Files |-> {}] \in [Files -> SUBSET Contents]
    OBVIOUS
  <2>3. [t \in Threads |-> At("rest")] \in [Threads -> ThreadRec]
    BY <2>1
  <2>4. call \in [Calls -> CallRec]
    BY NoCallIs DEF Init
  <2>5. thread \in [Calls -> [Threads -> ThreadRec]] /\ owed \in [Calls -> [Files -> SUBSET Contents]]
    BY <2>2, <2>3 DEF Init
  <2>6. conn = [c \in Guests |-> conn[c]] /\ \A c \in Guests : conn[c] \in ConnRec(conn[c].answers)
    BY TornConn DEF Init
  <2> QED
    BY <2>4, <2>5, <2>6 DEF Shapes
<1>11. ASSUME NEW c \in Calls PROVE CallInv(c)
  <2>1. /\ ~Open(c) /\ Jobs(c) = {} /\ "main" \in Threads
        /\ \A f \in Files : f \in Threads
    BY <1>9, NoCallIs, Names DEF Open, Jobs
  <2>2. Stages(c)
    BY <1>9, <2>1, NoCallIs, Names DEF Stages, InRepair, InSnapshot
  <2>3. Searches(c)
    BY <1>9, <2>1, NoCallIs DEF Searches
  <2>4. Snapshotted(c) /\ Marks(c) /\ OnlyMarked(c) /\ Repaired(c)
    BY <1>9, <2>1, NoCallIs DEF Snapshotted, Marks, OnlyMarked, Repaired
  <2>5. Connection(c)
    <3>1. c \in Guests => Matched(c)
      BY <1>9, TornConn DEF Matched
    <3> QED
      BY <1>9, <3>1, TornConn DEF Connection
  <2> QED
    BY <2>2, <2>3, <2>4, <2>5 DEF CallInv, Progress
<1>12. Lost
  BY <1>9 DEF Lost
<1> QED
  BY <1>8, <1>10, <1>11, <1>12 DEF IInv

(* The invariant holds in every state.                                     *)
THEOREM Invariant == Spec => []IInv
  BY InitHolds, NextKeeps, PTL DEF Spec

----------------------------------------------------------------------------
(* Results *)

(* Every variable of the wrappers keeps its type, through all that happens *)
(* to the repository and the connections.                                  *)
THEOREM TypeCorrect == Spec => []TypeOK
<1>1. IInv => TypeOK
  <2> SUFFICES ASSUME IInv PROVE TypeOK
    OBVIOUS
  <2>1. Repository /\ Shapes
    BY DEF IInv
  <2>2. ASSUME NEW n \in DOMAIN commits
        PROVE  commits[n].tree \in [Files -> Contents] /\ n \in commits[n].past
    <3>1. commits \in Seq([tree : [Files -> Contents], past : SUBSET Nat]) /\ n \in Past(n)
      BY <2>1 DEF Repository, Graph
    <3>2. n \in 1..Len(commits)
      BY <3>1
    <3>3. commits[n] \in [tree : [Files -> Contents], past : SUBSET Nat]
      BY <3>1, <3>2, Element
    <3> QED
      BY <3>1, <3>3 DEF Past
  <2>3. \A c \in Calls : call[c].outcome \in {"none", "open", "ran", "refused"}
    BY <2>1 DEF Shapes, CallRec
  <2>4. \A c \in Calls, t \in Threads : Loc(c, t) \in Locs
    BY <2>1 DEF Shapes, ThreadRec, Loc
  <2> QED
    BY <2>1, <2>2, <2>3, <2>4 DEF TypeOK, Repository, Graph, Locs
<1> QED
  BY <1>1, Invariant, PTL

(* A snapshot branch is never moved: git branch does not overwrite, and    *)
(* nothing else in the wrappers writes a ref.                              *)
THEOREM SnapshotsNeverMove == Spec => SnapshotsStay
<1>1. ASSUME [Next]_vars
      PROVE  \A n \in DOMAIN refs : n \in DOMAIN refs' /\ refs'[n] = refs[n]
  <2>1. CASE UNCHANGED vars
    BY <2>1 DEF vars, repo
  <2>2. ASSUME NEW c, NEW t, NEW r, Perform(c, t, r)
        PROVE  \A n \in DOMAIN refs : n \in DOMAIN refs' /\ refs'[n] = refs[n]
    BY <2>2 DEF Perform, CheckOut, MakeSnapshot, repo
  <2>3. CASE Next
    <3>1. ASSUME NEW c, Run(c) PROVE UNCHANGED refs
      BY <3>1 DEF Run, Commit, Reset, repo
    <3>2. ASSUME NEW c, Take(c) \/ Gathered(c) \/ Refuse(c) \/ BeginHost(c) \/ BeginGuest(c) \/ Break(c)
          PROVE  UNCHANGED refs
      BY <3>2 DEF Take, Gathered, Refuse, BeginHost, BeginGuest, Break, Entered, repo
    <3>3. ASSUME NEW c, NEW t, Number(c, t) \/ Send(c, t) \/ Receive(c, t) \/ FailBroken(c, t)
          PROVE  UNCHANGED refs
      BY <3>3 DEF Number, Send, Receive, FailBroken, Still, repo
    <3>4. ASSUME NEW c, NEW t, HostStep(c, t) PROVE \E r : Perform(c, t, r)
      BY <3>4 DEF HostStep
    <3>5. ASSUME NEW c, Serve(c) PROVE \E t, r : Perform(c, t, r)
      BY <3>5 DEF Serve
    <3>6. ASSUME NEW f, Edit(f) \/ Tick PROVE UNCHANGED refs
      BY <3>6 DEF Edit, Tick, repo
    <3> QED
      BY <2>2, <2>3, <3>1, <3>2, <3>3, <3>4, <3>5, <3>6 DEF Next, Step
  <2> QED
    BY <1>1, <2>1, <2>3
<1> QED
  BY <1>1, PTL DEF Spec, SnapshotsStay

(* What a destructive command discards stays on a snapshot branch, or was  *)
(* not on the branch any more when the snapshot was named: whatever other  *)
(* calls and the user do between the steps of the wrapper.                 *)
THEOREM NothingIsLost == Spec => []NothingLost
<1>1. IInv => NothingLost
  BY DEF IInv, Lost, NothingLost, Past
<1> QED
  BY <1>1, Invariant, PTL

(* The goroutines of a repair restore only files that held markers during  *)
(* the call, if each operation gets its own answer: every call is an       *)
(* interposed command, or there is one file to repair.                     *)
THEOREM MarkedOnly ==
  ASSUME Guests = {} \/ OneFile
  PROVE  Spec => []OnlyMarkedRestored
<1>1. IInv => OnlyMarkedRestored
  <2>1. \A c \in Calls : Orderly(c)
    BY Names DEF Orderly
  <2> QED
    BY <2>1 DEF IInv, CallInv, Progress, OnlyMarked, OnlyMarkedRestored
<1> QED
  BY <1>1, Invariant, PTL

(* A repair none of whose operations failed leaves each file that held     *)
(* markers as the newest clean snapshot has it, if no snapshot lacks the   *)
(* file.                                                                   *)
THEOREM MarkersAreRestored ==
  ASSUME Guests = {} \/ OneFile, "none" \notin Versions
  PROVE  Spec => []MarkersRestored
<1>1. IInv => MarkersRestored
  <2> SUFFICES ASSUME IInv, NEW c \in Calls, NEW f \in Files,
                      Loc(c, "main") = "pass", c \notin troubled,
                      owed[c][f] # {}, <<c, f>> \notin others
               PROVE  work[f] \in owed[c][f]
    BY DEF MarkersRestored
  <2>1. Orderly(c) /\ Stages(c) /\ Repaired(c)
    BY Names DEF Orderly, IInv, CallInv, Progress
  <2>2. Loc(c, f) = "rest" /\ Jobs(c) = {}
    BY <2>1 DEF Stages, Jobs
  <2> QED
    BY <2>1, <2>2 DEF Repaired
<1> QED
  BY <1>1, Invariant, PTL

=============================================================================
