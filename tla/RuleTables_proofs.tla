-------------------------- MODULE RuleTables_proofs --------------------------
(***************************************************************************)
(* Proofs about RuleTables, for boxes with any rules, any address specs, and *)
(* any number of commands, edits, kills and reboots.                         *)
(***************************************************************************)
EXTENDS RuleTables, SequenceTheorems, TLAPS

Jobs ==
    [op : {"none", "list", "create", "delete"}, table : Tables, dst : Specs \cup {""},
     tracker : Nat, bad : BOOLEAN, serial : Nat]

RulesIn(s) == {s[k] : k \in DOMAIN s}

(* The copies of the rule tables there are, and the creates that have, or    *)
(* will have, put a rule into one.                                           *)
Copies == {cfg, live, mem, base} \cup ({page} \ {Closed})
Pending == pc \in {"write", "reload"} /\ job.op = "create"
Made == created \cup (IF Pending THEN {job} ELSE {})
MadeRules(t) == {NewRule(c) : c \in {d \in Made : d.table = t}}

(* All the rules of table t that anything knows of. *)
Known(t) == (UNION {RulesIn(tab[t]) : tab \in Copies}) \cup MadeRules(t)

TypeInv ==
    /\ clock \in Nat
    /\ pc \in {"idle", "start", "write", "reload"}
    /\ job \in Jobs
    /\ calls \in Nat
    /\ created \subseteq Jobs
    /\ Copies \subseteq [Tables -> Seq(Rules)]

(* In one copy of a table a tracker stands once ...                          *)
Unique(rules) == \A i, j \in DOMAIN rules : rules[i].tracker = rules[j].tracker => i = j

UniqueInv == \A tab \in Copies : \A t \in Tables : Unique(tab[t])

(* ... and in all the copies together for one rule, which only the           *)
(* administrator's edits make look different.                                *)
SameRule(r, s) == r.by = s.by /\ (~r.edited /\ ~s.edited => r = s)

KnownInv ==
    \A t \in Tables : \A r, s \in Known(t) :
        r.tracker <= clock /\ (r.tracker = s.tracker => SameRule(r, s))

(* What the command does is decided when the script has read config.xml.     *)
Decided(rules) ==
    /\ job.op \in {"create", "delete"}
    /\ job.op = "create" => \A k \in DOMAIN rules : rules[k].tracker < job.tracker
    /\ job.op = "delete" => Find(rules, job.tracker) # 0

DecidedInv == pc = "write" => Decided(mem[job.table])

(* As long as the administrator keeps out, config.xml is the one the command *)
(* found, or that with its change.                                           *)
Done ==
    /\ Decided(base[job.table])
    /\ cfg = [base EXCEPT ![job.table] = Changed(@, job)]

OutcomeInv ==
    ~raced =>
        /\ pc = "start" => cfg = base
        /\ pc = "write" => cfg = base /\ mem = base
        /\ pc = "reload" => Done
        /\ cfg = base \/ Done

ResultInv ==
    /\ result.status = "completed" => pc = "idle"
    /\ result.status = "completed" /\ job.op # "list" /\ ~raced => live = cfg /\ Done
    /\ result.status = "completed" /\ job.op = "list" /\ ~raced =>
          result.out = [k \in DOMAIN cfg[job.table] |->
              [tracker |-> cfg[job.table][k].tracker, dst |-> Format(cfg[job.table][k].dst)]]

RuleInv == TypeInv /\ UniqueInv /\ KnownInv /\ DecidedInv /\ OutcomeInv /\ ResultInv

----------------------------------------------------------------------------
(* What is left when one rule is taken out. *)
LEMMA RemoveAtFacts ==
    ASSUME NEW s \in Seq(Rules), NEW k \in 1..Len(s)
    PROVE  /\ RemoveAt(s, k) \in Seq(Rules)
           /\ Len(RemoveAt(s, k)) = Len(s) - 1
           /\ \A j \in 1..(Len(s) - 1) : RemoveAt(s, k)[j] = IF j < k THEN s[j] ELSE s[j + 1]
<1> DEFINE a == SubSeq(s, 1, k - 1)
           b == SubSeq(s, k + 1, Len(s))
<1>0. Len(s) \in Nat
    OBVIOUS
<1>1. a \in Seq(Rules) /\ Len(a) = k - 1 /\ \A j \in 1..(k - 1) : a[j] = s[j]
    BY <1>0
<1>2. b \in Seq(Rules) /\ Len(b) = Len(s) - k /\ \A j \in 1..(Len(s) - k) : b[j] = s[k + j]
    BY <1>0
<1> HIDE DEF a, b
<1>3. RemoveAt(s, k) = a \o b
    BY DEF RemoveAt, a, b
<1>4. /\ a \o b \in Seq(Rules) /\ Len(a \o b) = Len(s) - 1
      /\ \A j \in 1..(Len(s) - 1) : (a \o b)[j] = IF j < k THEN a[j] ELSE b[j - (k - 1)]
    <2>1. /\ a \o b \in Seq(Rules)
          /\ Len(a \o b) = Len(a) + Len(b)
          /\ \A j \in 1..(Len(a) + Len(b)) :
                (a \o b)[j] = IF j <= Len(a) THEN a[j] ELSE b[j - Len(a)]
        BY <1>1, <1>2, ConcatProperties
    <2>2. Len(a) + Len(b) = Len(s) - 1 /\ Len(a) = k - 1
        BY <1>0, <1>1, <1>2
    <2>3. \A j \in 1..(Len(s) - 1) : (j <= k - 1) <=> (j < k)
        BY <1>0
    <2> QED
        BY <2>1, <2>2, <2>3
<1>5. \A j \in 1..(Len(s) - 1) : ~(j < k) => j - (k - 1) \in 1..(Len(s) - k) /\ k + (j - (k - 1)) = j + 1
    BY <1>0
<1>6. \A j \in 1..(Len(s) - 1) : j < k => j \in 1..(k - 1)
    BY <1>0
<1>7. ASSUME NEW j \in 1..(Len(s) - 1)
      PROVE  (a \o b)[j] = IF j < k THEN s[j] ELSE s[j + 1]
    BY <1>1, <1>2, <1>4, <1>5, <1>6
<1> QED
    BY <1>3, <1>4, <1>7

(* Find and the position of a tracker that stands once, or not at all. *)
LEMMA FindFacts ==
    ASSUME NEW s \in Seq(Rules), NEW t, Unique(s)
    PROVE  /\ Find(s, t) # 0 => Find(s, t) \in 1..Len(s) /\ s[Find(s, t)].tracker = t
           /\ (\A j \in 1..Len(s) : s[j].tracker # t) => Find(s, t) = 0
<1>1. CASE \A j \in 1..Len(s) : s[j].tracker # t
    BY <1>1 DEF Find, SelectInSeq
<1>2. CASE \E j \in 1..Len(s) : s[j].tracker = t
    <2>1. PICK j \in 1..Len(s) : s[j].tracker = t
        BY <1>2
    <2>2. {i \in 1..Len(s) : s[i].tracker = t} = {j}
        BY <2>1 DEF Unique
    <2>3. Find(s, t) = j
        BY <2>1, <2>2 DEF Find, SelectInSeq, Min
    <2> QED
        BY <2>1, <2>3
<1> QED
    BY <1>1, <1>2

(* Taking a rule out keeps a table well formed. *)
LEMMA RemoveKeeps ==
    ASSUME NEW s \in Seq(Rules), NEW k \in 1..Len(s), Unique(s)
    PROVE  /\ RemoveAt(s, k) \in Seq(Rules)
           /\ Unique(RemoveAt(s, k))
           /\ RulesIn(RemoveAt(s, k)) \subseteq RulesIn(s)
           /\ \A r \in RulesIn(RemoveAt(s, k)) : r.tracker # s[k].tracker
<1> DEFINE q == RemoveAt(s, k)
           P(j) == IF j < k THEN j ELSE j + 1
<1>1. Len(s) \in Nat /\ DOMAIN s = 1..Len(s)
    OBVIOUS
<1>2. q \in Seq(Rules) /\ DOMAIN q = 1..(Len(s) - 1)
    BY <1>1, RemoveAtFacts
<1>3. \A j \in DOMAIN q : P(j) \in DOMAIN s /\ P(j) # k /\ q[j] = s[P(j)]
    <2>1. \A j \in 1..(Len(s) - 1) : q[j] = IF j < k THEN s[j] ELSE s[j + 1]
        BY RemoveAtFacts
    <2> QED
        BY <1>1, <1>2, <2>1
<1>4. \A i, j \in DOMAIN q : P(i) = P(j) => i = j
    BY <1>1, <1>2
<1> HIDE DEF q, P
<1>5. Unique(q)
    BY <1>3, <1>4 DEF Unique
<1>6. RulesIn(q) \subseteq RulesIn(s)
    BY <1>3 DEF RulesIn
<1>7. \A r \in RulesIn(q) : r.tracker # s[k].tracker
    BY <1>1, <1>3 DEF RulesIn, Unique
<1> QED
    BY <1>2, <1>5, <1>6, <1>7 DEF q

(* So does a rule more, when its tracker is a new one. *)
LEMMA AppendKeeps ==
    ASSUME NEW s \in Seq(Rules), NEW r \in Rules, Unique(s),
           \A k \in DOMAIN s : s[k].tracker # r.tracker
    PROVE  /\ Append(s, r) \in Seq(Rules)
           /\ Unique(Append(s, r))
           /\ RulesIn(Append(s, r)) \subseteq RulesIn(s) \cup {r}
           /\ Last(Append(s, r)) = r
<1> DEFINE q == Append(s, r)
<1>1. Len(s) \in Nat /\ DOMAIN s = 1..Len(s)
    OBVIOUS
<1>2. /\ q \in Seq(Rules) /\ Len(q) = Len(s) + 1 /\ DOMAIN q = 1..(Len(s) + 1)
      /\ \A k \in 1..Len(s) : q[k] = s[k]
      /\ q[Len(s) + 1] = r
    OBVIOUS
<1>3. \A k \in DOMAIN q : k \in DOMAIN s \/ k = Len(s) + 1
    BY <1>1, <1>2
<1> HIDE DEF q
<1>5. Unique(q)
    BY <1>1, <1>2, <1>3 DEF Unique
<1>6. RulesIn(q) \subseteq RulesIn(s) \cup {r}
    BY <1>1, <1>2, <1>3 DEF RulesIn
<1>7. Last(q) = r
    BY <1>2 DEF Last
<1> QED
    BY <1>2, <1>5, <1>6, <1>7 DEF q

(* What create.php stores for the destination is an address. *)
LEMMA StoredType ==
    ASSUME NEW c \in Jobs
    PROVE  NewRule(c) \in Rules
<1>1. \A s \in DOMAIN Trim : Parse(s) \in Addresses
    BY SpecAssumption DEF Parse, Addresses
<1>2. c.dst \in DOMAIN Trim /\ OwnIp \in DOMAIN Trim
    BY SpecAssumption DEF Jobs
<1>3. Stored(c.table, c.dst) \in Addresses
    BY <1>1, <1>2 DEF Stored
<1>4. c.tracker \in Nat /\ c.serial \in Nat
    BY DEF Jobs
<1> QED
    BY <1>3, <1>4 DEF NewRule, Rules

(* The change of a command: the table stays well formed, gets or loses the   *)
(* rule the command is about and keeps the others in their order.            *)
LEMMA ChangedFacts ==
    ASSUME NEW rules \in Seq(Rules), Unique(rules), job \in Jobs, Decided(rules)
    PROVE  /\ Changed(rules, job) \in Seq(Rules)
           /\ Unique(Changed(rules, job))
           /\ RulesIn(Changed(rules, job)) \subseteq
                  RulesIn(rules) \cup (IF job.op = "create" THEN {NewRule(job)} ELSE {})
           /\ job.op = "create" => Last(Changed(rules, job)).by = job.serial
           /\ job.op = "delete" => Find(Changed(rules, job), job.tracker) = 0
<1>1. CASE job.op = "create"
    <2>1. NewRule(job) \in Rules /\ NewRule(job).tracker = job.tracker /\ NewRule(job).by = job.serial
        BY StoredType DEF NewRule
    <2>2. \A k \in DOMAIN rules : rules[k].tracker # job.tracker
        <3>1. \A k \in DOMAIN rules : rules[k] \in Rules
            OBVIOUS
        <3>2. \A k \in DOMAIN rules : rules[k].tracker \in Nat
            BY <3>1 DEF Rules
        <3>3. job.tracker \in Nat
            BY DEF Jobs
        <3> QED
            BY <1>1, <3>2, <3>3 DEF Decided
    <2>3. Changed(rules, job) = Append(rules, NewRule(job))
        BY <1>1 DEF Changed, Added
    <2> QED
        BY <1>1, <2>1, <2>2, <2>3, AppendKeeps
<1>2. CASE job.op = "delete"
    <2> DEFINE k == Find(rules, job.tracker)
    <2>1. k \in 1..Len(rules) /\ rules[k].tracker = job.tracker
        BY <1>2, FindFacts DEF Decided
    <2>2. Changed(rules, job) = RemoveAt(rules, k)
        BY <1>2 DEF Changed
    <2> HIDE DEF k
    <2>3. /\ RemoveAt(rules, k) \in Seq(Rules)
          /\ Unique(RemoveAt(rules, k))
          /\ RulesIn(RemoveAt(rules, k)) \subseteq RulesIn(rules)
          /\ \A r \in RulesIn(RemoveAt(rules, k)) : r.tracker # job.tracker
        BY <2>1, RemoveKeeps
    <2>4. Find(RemoveAt(rules, k), job.tracker) = 0
        BY <2>3, FindFacts DEF RulesIn
    <2> QED
        BY <1>2, <2>2, <2>3, <2>4
<1> QED
    BY <1>1, <1>2 DEF Decided

(* A table that is left alone keeps its rules. *)
LEMMA KeptSame ==
    ASSUME NEW t, NEW s
    PROVE  Kept(t, s, s)
BY DEF Kept

(* The others keep their order: nothing is put before or between them, and   *)
(* the rules that move up do so together.                                    *)
LEMMA KeptChanged ==
    ASSUME NEW s \in Seq(Rules), Unique(s), job \in Jobs, Decided(s)
    PROVE  Kept(job.table, s, Changed(s, job)) /\ Kept(job.table, Changed(s, job), s)
<1> DEFINE q == Changed(s, job)
<1>0. Len(s) \in Nat /\ DOMAIN s = 1..Len(s)
    OBVIOUS
<1>1. CASE job.op = "create"
    <2>1. q = Append(s, NewRule(job)) /\ NewRule(job).tracker = job.tracker
        BY <1>1 DEF Changed, Added, NewRule
    <2>2. /\ DOMAIN q = 1..(Len(s) + 1)
          /\ \A k \in DOMAIN s : q[k] = s[k]
          /\ q[Len(s) + 1].tracker = job.tracker
        BY <2>1, StoredType
    <2> HIDE DEF q
    <2>3. \A k \in DOMAIN s : k \in DOMAIN q
        BY <1>0, <2>2
    <2>4. \A k \in DOMAIN q : ~Own(job.table, q[k]) => k \in DOMAIN s
        BY <1>0, <2>2 DEF Own
    <2> QED
        BY <2>2, <2>3, <2>4 DEF Kept, q
<1>2. CASE job.op = "delete"
    <2> DEFINE m == Find(s, job.tracker)
               P(j) == IF j < m THEN j ELSE j + 1
               Q(i) == IF i < m THEN i ELSE i - 1
    <2>1. m \in 1..Len(s) /\ s[m].tracker = job.tracker
        BY <1>2, FindFacts DEF Decided
    <2>2. q = RemoveAt(s, m)
        BY <1>2 DEF Changed
    <2> HIDE DEF q, m
    <2>3. /\ DOMAIN q = 1..(Len(s) - 1)
          /\ \A j \in 1..(Len(s) - 1) : q[j] = IF j < m THEN s[j] ELSE s[j + 1]
        <3>1. /\ q \in Seq(Rules) /\ Len(q) = Len(s) - 1
              /\ \A j \in 1..(Len(s) - 1) : q[j] = IF j < m THEN s[j] ELSE s[j + 1]
            BY <2>1, <2>2, RemoveAtFacts
        <3> QED
            BY <3>1
    <2>4. \A j \in DOMAIN q : P(j) \in DOMAIN s /\ s[P(j)] = q[j]
        BY <1>0, <2>1, <2>3
    <2>5. \A i, j \in DOMAIN q : i < j => P(i) < P(j)
        BY <1>0, <2>1, <2>3
    <2>6. \A i \in DOMAIN s : ~Own(job.table, s[i]) => i # m
        BY <2>1 DEF Own
    <2>7. \A i \in DOMAIN s : i # m => Q(i) \in DOMAIN q /\ q[Q(i)] = s[i]
        <3> TAKE i \in DOMAIN s
        <3>1. CASE i < m
            BY <1>0, <2>1, <2>3, <3>1
        <3>2. CASE i > m
            <4>1. i - 1 \in 1..(Len(s) - 1) /\ ~(i - 1 < m) /\ i - 1 + 1 = i
                BY <1>0, <2>1, <3>2
            <4> QED
                BY <1>0, <2>1, <2>3, <3>2, <4>1
        <3> QED
            BY <1>0, <2>1, <3>1, <3>2
    <2>8. \A i, j \in DOMAIN s : i < j /\ i # m /\ j # m => Q(i) < Q(j)
        BY <1>0, <2>1
    <2> HIDE DEF P, Q
    <2>9. Kept(job.table, s, q)
        BY <2>6, <2>7, <2>8 DEF Kept
    <2>10. Kept(job.table, q, s)
        BY <2>4, <2>5 DEF Kept
    <2> QED
        BY <2>9, <2>10 DEF q
<1> QED
    BY <1>1, <1>2 DEF Decided

----------------------------------------------------------------------------
(* The invariant holds on the box as it comes. *)
LEMMA InitRule == Init => RuleInv
<1> SUFFICES ASSUME Init PROVE RuleInv
    OBVIOUS
<1>1. cfg \in Boxes /\ Copies = {cfg} /\ Made = {} /\ job = NoJob /\ clock = Start
    BY DEF Init, Copies, Made, Pending
<1>2. /\ cfg \in [Tables -> Seq(Rules)]
      /\ \A t \in Tables : Unique(cfg[t])
      /\ \A t \in Tables : \A k \in DOMAIN cfg[t] : cfg[t][k].tracker <= Start
    BY <1>1, BoxAssumption DEF Unique
<1>3. TypeInv
    <2>1. NoJob \in Jobs
        BY DEF NoJob, Jobs, Tables
    <2> QED
        BY <1>1, <1>2, <2>1, BoundAssumption DEF TypeInv, Init
<1>4. UniqueInv
    BY <1>1, <1>2 DEF UniqueInv
<1>5. KnownInv
    <2>1. \A t \in Tables : Known(t) = RulesIn(cfg[t])
        BY <1>1 DEF Known, MadeRules
    <2> QED
        <3> SUFFICES ASSUME NEW t \in Tables, NEW r \in Known(t), NEW s \in Known(t)
                     PROVE  r.tracker <= clock /\ (r.tracker = s.tracker => r = s)
            BY DEF KnownInv, SameRule
        <3>1. PICK i \in DOMAIN cfg[t] : r = cfg[t][i]
            BY <2>1 DEF RulesIn
        <3>2. PICK j \in DOMAIN cfg[t] : s = cfg[t][j]
            BY <2>1 DEF RulesIn
        <3> QED
            BY <1>1, <1>2, <3>1, <3>2 DEF Unique
<1> QED
    BY <1>3, <1>4, <1>5 DEF RuleInv, DecidedInv, OutcomeInv, ResultInv, Init, NoResult

(* Everything known is a rule. *)
LEMMA KnownRules ==
    ASSUME TypeInv, NEW t \in Tables
    PROVE  Known(t) \subseteq Rules
<1>1. \A tab \in Copies : tab[t] \in Seq(Rules)
    BY DEF TypeInv
<1>2. \A s \in Seq(Rules) : RulesIn(s) \subseteq Rules
    BY DEF RulesIn
<1>3. Made \subseteq Jobs
    BY DEF TypeInv, Made
<1>4. MadeRules(t) \subseteq Rules
    BY <1>3, StoredType DEF MadeRules
<1> QED
    BY <1>1, <1>2, <1>4 DEF Known

(* r is the rule that the step makes, and it is made at a new time. *)
Fresh(r, new) == r = new /\ r.tracker = clock' /\ clock' = clock + 1

(* r is a known rule of table t, edited. *)
EditOf(r, t) == r.edited /\ \E q \in Known(t) : q.tracker = r.tracker /\ q.by = r.by

(* A step that brings at most one new rule, and edits old ones. *)
LEMMA KnownStep ==
    ASSUME TypeInv, KnownInv, clock' \in {clock, clock + 1}, NEW fresh,
           \A t \in Tables : \A r \in Known(t)' :
               r \in Known(t) \/ EditOf(r, t) \/ Fresh(r, fresh)
    PROVE  KnownInv'
<1> SUFFICES ASSUME NEW t \in Tables, NEW r \in Known(t)', NEW s \in Known(t)'
             PROVE  r.tracker <= clock' /\ (r.tracker = s.tracker => SameRule(r, s))
    BY DEF KnownInv
<1>1. clock \in Nat /\ clock' \in Nat
    BY DEF TypeInv
<1>2. \A q \in Known(t) : q.tracker \in Nat /\ q.tracker <= clock
    <2>1. \A q \in Rules : q.tracker \in Nat
        BY DEF Rules
    <2>2. Known(t) \subseteq Rules
        BY KnownRules
    <2> QED
        BY <2>1, <2>2 DEF KnownInv
<1> DEFINE Old(q) == \E o \in Known(t) : o.tracker = q.tracker /\ o.by = q.by /\ (~q.edited => q = o)
<1>3. /\ Old(r) \/ Fresh(r, fresh)
      /\ Old(s) \/ Fresh(s, fresh)
    BY DEF EditOf
<1>4. CASE Old(r) /\ Old(s)
    <2>1. PICK o \in Known(t) : o.tracker = r.tracker /\ o.by = r.by /\ (~r.edited => r = o)
        BY <1>4
    <2>2. PICK p \in Known(t) : p.tracker = s.tracker /\ p.by = s.by /\ (~s.edited => s = p)
        BY <1>4
    <2>3. r.tracker <= clock'
        BY <1>1, <1>2, <2>1
    <2>4. o.tracker = p.tracker => SameRule(o, p)
        BY DEF KnownInv
    <2>5. r.tracker = s.tracker => SameRule(r, s)
        BY <2>1, <2>2, <2>4, Zenon DEF SameRule
    <2> QED
        BY <2>3, <2>5
<1>5. CASE Fresh(r, fresh) /\ Fresh(s, fresh)
    BY <1>1, <1>5 DEF Fresh, SameRule
<1>6. CASE (Fresh(r, fresh) /\ Old(s)) \/ (Old(r) /\ Fresh(s, fresh))
    BY <1>1, <1>2, <1>6 DEF Fresh
<1> QED
    BY <1>3, <1>4, <1>5, <1>6

(* A step that only copies tables and ends commands. *)
LEMMA QuietStep ==
    ASSUME RuleInv, clock' \in {clock, clock + 1}, Copies' \subseteq Copies, Made' \subseteq Made
    PROVE  UniqueInv' /\ KnownInv' /\ Copies' \subseteq [Tables -> Seq(Rules)]
<1>1. UniqueInv' /\ Copies' \subseteq [Tables -> Seq(Rules)]
    BY DEF RuleInv, UniqueInv, TypeInv
<1>2. \A t \in Tables : Known(t)' \subseteq Known(t)
    BY DEF Known, MadeRules
<1>3. KnownInv'
    <2>1. \A t \in Tables : \A r \in Known(t)' :
              r \in Known(t) \/ EditOf(r, t) \/ Fresh(r, 0)
        BY <1>2
    <2> QED
        BY <2>1, KnownStep DEF RuleInv
<1> QED
    BY <1>1, <1>3

(* A step that writes config.xml from a copy, with one table changed. *)
LEMMA SaveStep ==
    ASSUME RuleInv, clock' \in {clock, clock + 1}, Made' \subseteq Made,
           Copies' \subseteq Copies \cup {cfg'},
           NEW tab \in Copies, NEW u \in Tables,
           cfg' \in [Tables -> Seq(Rules)], \A t \in Tables \ {u} : cfg'[t] = tab[t],
           Unique(cfg'[u]), NEW fresh,
           \A r \in RulesIn(cfg'[u]) :
               r \in Known(u) \/ EditOf(r, u) \/ Fresh(r, fresh)
    PROVE  UniqueInv' /\ KnownInv' /\ Copies' \subseteq [Tables -> Seq(Rules)]
<1>1. Copies \subseteq [Tables -> Seq(Rules)] /\ \A c \in Copies : \A t \in Tables : Unique(c[t])
    BY DEF RuleInv, TypeInv, UniqueInv
<1>3. \A t \in Tables : Unique(cfg'[t])
    BY <1>1
<1>4. UniqueInv' /\ Copies' \subseteq [Tables -> Seq(Rules)]
    BY <1>1, <1>3 DEF UniqueInv
<1>5. ASSUME NEW t \in Tables, NEW r \in Known(t)'
      PROVE  r \in Known(t) \/ EditOf(r, t) \/ Fresh(r, fresh)
    <2>0. r \in MadeRules(t)' \/ \E c \in Copies' : r \in RulesIn(c[t])
        BY DEF Known
    <2>1. CASE r \in MadeRules(t)'
        <3>1. MadeRules(t)' \subseteq MadeRules(t)
            BY DEF MadeRules
        <3> QED
            BY <2>1, <3>1 DEF Known
    <2>2. ASSUME NEW c \in Copies', r \in RulesIn(c[t])
          PROVE  r \in Known(t) \/ EditOf(r, t) \/ Fresh(r, fresh)
        <3>1. CASE c \in Copies
            BY <2>2, <3>1 DEF Known
        <3>2. CASE c = cfg' /\ t = u
            BY <2>2, <3>2
        <3>3. CASE c = cfg' /\ t # u
            BY <2>2, <3>3 DEF Known
        <3> QED
            BY <3>1, <3>2, <3>3
    <2> QED
        BY <2>0, <2>1, <2>2
<1>6. KnownInv'
    <2>1. \A t \in Tables : \A r \in Known(t)' : r \in Known(t) \/ EditOf(r, t) \/ Fresh(r, fresh)
        BY <1>5
    <2> QED
        BY <2>1, KnownStep DEF RuleInv
<1> QED
    BY <1>4, <1>6

----------------------------------------------------------------------------
(* The types of everything but the tables. *)
LEMMA ScalarStep ==
    ASSUME TypeInv, [Next]_vars
    PROVE  /\ clock' \in {clock, clock + 1}
           /\ pc' \in {"idle", "start", "write", "reload"}
           /\ job' \in Jobs
           /\ calls' \in Nat
           /\ created' \subseteq Jobs
<1> USE DEF TypeInv
<1>1. CASE Call
    <2>1. PICK op \in {"list", "create", "delete"}, t \in Tables, s \in Specs, n \in 0..clock,
               b \in BOOLEAN :
              /\ op # "create" => s = "" /\ ~b
              /\ op # "delete" => n = 0
              /\ job' = [op |-> op, table |-> t, dst |-> s, tracker |-> n, bad |-> b,
                         serial |-> calls']
              /\ IF op = "delete" /\ n = 0
                 THEN Answer("failed", <<>>)
                 ELSE pc' = "start" /\ result' = NoResult
        BY <1>1, Zenon DEF Call
    <2>4. calls' = calls + 1 /\ UNCHANGED <<clock, created>>
        BY <1>1, Zenon DEF Call
    <2>5. pc' \in {"idle", "start"}
        BY <2>1, Zenon DEF Answer
    <2>2. calls' \in Nat /\ n \in Nat
        BY <2>4
    <2>3. job' \in Jobs
        <3>1. op \in {"none", "list", "create", "delete"} /\ s \in Specs \cup {""}
            OBVIOUS
        <3> QED
            BY <2>1, <2>2, <3>1, Zenon DEF Jobs
    <2> QED
        BY <2>2, <2>3, <2>4, <2>5
<1>2. CASE RunCreate
    <2>1. clock' \in Nat /\ clock' = clock + 1 /\ UNCHANGED <<created, calls>>
        BY <1>2 DEF RunCreate, Load, counts
    <2>2. job' = job \/ job' = [job EXCEPT !.tracker = clock']
        BY <1>2 DEF RunCreate, Tracker
    <2>3. job' \in Jobs
        BY <2>1, <2>2 DEF Jobs
    <2>4. pc' \in {"idle", "write"}
        BY <1>2 DEF RunCreate, Answer
    <2> QED
        BY <2>1, <2>3, <2>4
<1>3. CASE RunList \/ RunDelete
    BY <1>3 DEF RunList, RunDelete, Load, Answer, counts
<1>4. CASE Write \/ Reload \/ Kill \/ Reboot
    BY <1>4 DEF Write, Reload, Kill, Reboot, Answer, counts
<1>5. CASE GuiOpen \/ GuiSave \/ GuiApply
    BY <1>5 DEF GuiOpen, GuiSave, GuiApply, counts
<1>6. CASE UNCHANGED vars
    BY <1>6 DEF vars, counts
<1> QED
    BY <1>1, <1>2, <1>3, <1>4, <1>5, <1>6 DEF Next

(* create.php gives its rule a tracker no rule ever had. *)
LEMMA CreateStep ==
    ASSUME RuleInv, RunCreate
    PROVE  UniqueInv' /\ KnownInv' /\ Copies' \subseteq [Tables -> Seq(Rules)]
<1>1. Copies' \subseteq Copies /\ clock' = clock + 1
    BY DEF RunCreate, Load, Copies
<1>2. CASE BadInput(job)
    <2>1. Made' \subseteq Made
        BY <1>2 DEF RunCreate, Load, Answer, Made, Pending
    <2> QED
        BY <1>1, <2>1, QuietStep
<1>3. CASE ~BadInput(job)
    <2>1. Made = created /\ Made' = created \cup {job'} /\ job'.tracker = clock'
        BY <1>3 DEF RunCreate, Load, Made, Pending, Tracker, RuleInv, TypeInv, Jobs
    <2>2. UniqueInv' /\ Copies' \subseteq [Tables -> Seq(Rules)]
        BY <1>1 DEF RuleInv, UniqueInv, TypeInv
    <2>3. ASSUME NEW t \in Tables, NEW r \in Known(t)'
          PROVE  r \in Known(t) \/ EditOf(r, t) \/ Fresh(r, NewRule(job'))
        <3>1. CASE r \in MadeRules(t)'
            BY <1>1, <2>1, <3>1 DEF MadeRules, Known, NewRule, Fresh
        <3>2. CASE \E c \in Copies' : r \in RulesIn(c[t])
            BY <1>1, <3>2 DEF Known
        <3> QED
            BY <2>3, <3>1, <3>2 DEF Known
    <2>4. KnownInv'
        BY <1>1, <2>3, KnownStep DEF RuleInv
    <2> QED
        BY <2>2, <2>4
<1> QED
    BY <1>2, <1>3

(* write_config() writes the tables read before, with the command's change. *)
LEMMA WriteStep ==
    ASSUME RuleInv, Write
    PROVE  UniqueInv' /\ KnownInv' /\ Copies' \subseteq [Tables -> Seq(Rules)]
<1> DEFINE u == job.table
           rules == Changed(mem[u], job)
<1>1. u \in Tables /\ job \in Jobs /\ mem \in Copies /\ mem[u] \in Seq(Rules) /\ Unique(mem[u])
    BY DEF RuleInv, TypeInv, UniqueInv, Copies, Jobs
<1>2. Decided(mem[u])
    BY DEF RuleInv, DecidedInv, Write
<1>3. /\ rules \in Seq(Rules) /\ Unique(rules)
      /\ RulesIn(rules) \subseteq
             RulesIn(mem[u]) \cup (IF job.op = "create" THEN {NewRule(job)} ELSE {})
    BY <1>1, <1>2, ChangedFacts
<1>4. RulesIn(mem[u]) \subseteq Known(u)
    BY <1>1 DEF Known
<1>5. job.op = "create" => NewRule(job) \in Known(u)
    BY <1>1 DEF Write, Made, Pending, MadeRules, Known
<1>6. /\ cfg' = [mem EXCEPT ![u] = rules]
      /\ Made' \subseteq Made
      /\ Copies' \subseteq Copies \cup {cfg'}
      /\ clock' \in {clock, clock + 1}
    BY DEF Write, Made, Pending, Copies
<1> HIDE DEF rules, u
<1>7. /\ cfg' \in [Tables -> Seq(Rules)]
      /\ cfg'[u] = rules
      /\ \A t \in Tables \ {u} : cfg'[t] = mem[t]
    BY <1>1, <1>3, <1>6 DEF RuleInv, TypeInv
<1>8. \A r \in RulesIn(cfg'[u]) :
          r \in Known(u) \/ EditOf(r, u) \/ Fresh(r, 0)
    BY <1>3, <1>4, <1>5, <1>7
<1> QED
    BY <1>1, <1>3, <1>6, <1>7, <1>8, SaveStep

(* An edit in place, or two rules changing places, keeps a table well formed. *)
LEMMA EditKeeps ==
    ASSUME NEW s \in Seq(Rules), NEW k \in DOMAIN s, Unique(s)
    PROVE  LET q == EditedAt(s, k)
           IN  /\ q \in Seq(Rules)
               /\ Unique(q)
               /\ \A j \in DOMAIN q : q[j] = s[j] \/ (q[j].edited /\ q[j].tracker = s[j].tracker
                                                              /\ q[j].by = s[j].by)
               /\ DOMAIN q = DOMAIN s
<1> DEFINE e == [s[k] EXCEPT !.dst = [any |-> ""], !.edited = TRUE]
           q == [s EXCEPT ![k] = e]
<1>1. s[k] \in Rules
    OBVIOUS
<1>2. e \in Rules
    <2>1. [any |-> ""] \in Addresses
        BY DEF Addresses
    <2> QED
        BY <1>1, <2>1 DEF Rules
<1>3. e.edited /\ e.tracker = s[k].tracker /\ e.by = s[k].by
    BY <1>1 DEF Rules
<1>4. EditedAt(s, k) = q
    BY DEF EditedAt
<1> HIDE DEF e
<1>5. q \in Seq(Rules) /\ DOMAIN q = DOMAIN s
    BY <1>2
<1>6. \A j \in DOMAIN q : q[j] = IF j = k THEN e ELSE s[j]
    BY <1>5
<1> HIDE DEF q
<1>7. \A j \in DOMAIN q : q[j] = s[j] \/ (q[j].edited /\ q[j].tracker = s[j].tracker /\ q[j].by = s[j].by)
    BY <1>3, <1>6
<1>8. \A j \in DOMAIN q : q[j].tracker = s[j].tracker
    BY <1>7
<1>9. Unique(q)
    BY <1>5, <1>8 DEF Unique
<1> QED
    BY <1>4, <1>5, <1>7, <1>9

(* Two rules that change places. *)
LEMMA SwapKeeps ==
    ASSUME NEW s \in Seq(Rules), NEW i \in DOMAIN s, NEW j \in DOMAIN s, Unique(s)
    PROVE  LET q == Swapped(s, i, j)
           IN  q \in Seq(Rules) /\ Unique(q) /\ RulesIn(q) \subseteq RulesIn(s)
<1> DEFINE q == [s EXCEPT ![i] = s[j], ![j] = s[i]]
           P(k) == IF k = j THEN i ELSE IF k = i THEN j ELSE k
<1>1. q \in Seq(Rules) /\ DOMAIN q = DOMAIN s
    OBVIOUS
<1>2. \A k \in DOMAIN q : P(k) \in DOMAIN s /\ q[k] = s[P(k)]
    BY <1>1
<1>3. \A k, l \in DOMAIN q : P(k) = P(l) => k = l
    OBVIOUS
<1> HIDE DEF q, P
<1>4. Unique(q)
    BY <1>2, <1>3 DEF Unique
<1>5. RulesIn(q) \subseteq RulesIn(s)
    BY <1>2 DEF RulesIn
<1>6. Swapped(s, i, j) = q
    BY DEF Swapped, q
<1> QED
    BY <1>1, <1>4, <1>5, <1>6

(* The administrator saves what the page was opened with, with one change. *)
LEMMA GuiStep ==
    ASSUME RuleInv, GuiSave
    PROVE  UniqueInv' /\ KnownInv' /\ Copies' \subseteq [Tables -> Seq(Rules)]
<1>1. /\ page \in Copies
      /\ Made' \subseteq Made
      /\ Copies' \subseteq Copies \cup {cfg'}
      /\ clock' = clock + 1 /\ clock' \in {clock, clock + 1} /\ clock \in Nat
    BY DEF GuiSave, Made, Pending, Copies, RuleInv, TypeInv
<1>2. PICK u \in Tables : \E rs \in Edited(page[u], clock') : cfg' = [page EXCEPT ![u] = rs]
    BY Zenon DEF GuiSave
<1>3. PICK rules \in Edited(page[u], clock') : cfg' = [page EXCEPT ![u] = rules]
    BY <1>2
<1>4. page[u] \in Seq(Rules) /\ Unique(page[u]) /\ RulesIn(page[u]) \subseteq Known(u)
    BY <1>1 DEF RuleInv, TypeInv, UniqueInv, Known
<1> DEFINE new == GuiRule(clock')
           Fine == /\ rules \in Seq(Rules)
                   /\ Unique(rules)
                   /\ \A r \in RulesIn(rules) : r \in Known(u) \/ EditOf(r, u) \/ Fresh(r, new)
<1>5. ASSUME rules = Append(page[u], new)
      PROVE  Fine
    <2>1. new \in Rules /\ new.tracker = clock'
        BY <1>1 DEF Rules, Addresses, GuiRule
    <2> HIDE DEF new
    <2>2. \A k \in DOMAIN page[u] : page[u][k].tracker # new.tracker
        <3>1. \A k \in DOMAIN page[u] : page[u][k] \in Known(u)
            BY <1>4 DEF RulesIn
        <3>2. \A r \in Known(u) : r.tracker <= clock
            BY DEF RuleInv, KnownInv
        <3>3. \A r \in Known(u) : r.tracker \in Nat
            BY KnownRules DEF RuleInv, Rules
        <3> QED
            BY <1>1, <2>1, <3>1, <3>2, <3>3
    <2>3. rules \in Seq(Rules) /\ Unique(rules) /\ RulesIn(rules) \subseteq RulesIn(page[u]) \cup {new}
        BY <1>4, <1>5, <2>1, <2>2, AppendKeeps
    <2> QED
        BY <1>1, <1>4, <2>1, <2>3 DEF Fresh
<1>6. ASSUME \E k \in DOMAIN page[u] : rules = RemoveAt(page[u], k)
      PROVE  Fine
    <2>1. PICK k \in DOMAIN page[u] : rules = RemoveAt(page[u], k)
        BY <1>6
    <2>2. k \in 1..Len(page[u])
        BY <1>4, <2>1
    <2> QED
        BY <1>4, <2>1, <2>2, RemoveKeeps
<1>7. ASSUME \E k \in DOMAIN page[u] : rules = EditedAt(page[u], k)
      PROVE  Fine
    <2>1. PICK k \in DOMAIN page[u] : rules = EditedAt(page[u], k)
        BY <1>7
    <2>2. /\ rules \in Seq(Rules) /\ Unique(rules) /\ DOMAIN rules = DOMAIN page[u]
          /\ \A j \in DOMAIN rules :
                \/ rules[j] = page[u][j]
                \/ rules[j].edited /\ rules[j].tracker = page[u][j].tracker /\ rules[j].by = page[u][j].by
        BY <1>4, <2>1, EditKeeps
    <2>3. \A j \in DOMAIN rules : page[u][j] \in Known(u)
        BY <1>4, <2>2 DEF RulesIn
    <2>4. \A r \in RulesIn(rules) : r \in Known(u) \/ EditOf(r, u)
        BY <2>2, <2>3, Zenon DEF RulesIn, EditOf
    <2> QED
        BY <2>2, <2>4
<1>8. ASSUME \E i, j \in DOMAIN page[u] : rules = Swapped(page[u], i, j)
      PROVE  Fine
    <2>1. PICK i \in DOMAIN page[u], j \in DOMAIN page[u] :
              rules = Swapped(page[u], i, j)
        BY <1>8
    <2> QED
        BY <1>4, <2>1, SwapKeeps
<1>9. Fine
    <2> HIDE DEF Fine
    <2>1. \/ rules = Append(page[u], new)
          \/ \E k \in DOMAIN page[u] : rules = RemoveAt(page[u], k)
          \/ \E k \in DOMAIN page[u] : rules = EditedAt(page[u], k)
          \/ \E i, j \in DOMAIN page[u] : rules = Swapped(page[u], i, j)
        BY <1>3, SMT DEF Edited
    <2> QED
        BY <1>5, <1>6, <1>7, <1>8, <2>1
<1> HIDE DEF new
<1>10. /\ cfg' \in [Tables -> Seq(Rules)]
       /\ cfg'[u] = rules
       /\ \A t \in Tables \ {u} : cfg'[t] = page[t]
    BY <1>1, <1>3, <1>9 DEF RuleInv, TypeInv
<1>11. Unique(cfg'[u]) /\ \A r \in RulesIn(cfg'[u]) : r \in Known(u) \/ EditOf(r, u) \/ Fresh(r, new)
    BY <1>9, <1>10
<1> HIDE DEF Fine
<1> QED
    BY <1>1, <1>10, <1>11, SaveStep

(* Every step keeps the tables well formed and the trackers apart. *)
LEMMA TablesStep ==
    ASSUME RuleInv, [Next]_vars
    PROVE  TypeInv' /\ UniqueInv' /\ KnownInv'
<1> DEFINE Good == UniqueInv' /\ KnownInv' /\ Copies' \subseteq [Tables -> Seq(Rules)]
<1>0. clock' \in {clock, clock + 1}
    BY ScalarStep DEF RuleInv
<1> SUFFICES Good
    <2>1. clock \in Nat => clock' \in Nat
        BY <1>0
    <2> QED
        BY <2>1, ScalarStep DEF RuleInv, TypeInv
<1>1. ASSUME Copies' \subseteq Copies, Made' \subseteq Made PROVE Good
    BY <1>0, <1>1, QuietStep
<1>2. CASE Call
    <2>1. Copies' \subseteq Copies /\ Made' \subseteq Made
        BY <1>2 DEF Call, Answer, Copies, Made, Pending
    <2> QED
        BY <1>1, <2>1
<1>3. CASE RunList
    <2>1. Copies' \subseteq Copies /\ Made' \subseteq Made
        BY <1>3 DEF RunList, Load, Answer, Copies, Made, Pending
    <2> QED
        BY <1>1, <2>1
<1>4. CASE RunDelete
    <2>1. Copies' \subseteq Copies /\ Made' \subseteq Made
        BY <1>4 DEF RunDelete, Load, Answer, Copies, Made, Pending
    <2> QED
        BY <1>1, <2>1
<1>5. CASE Reload
    <2>1. Copies' \subseteq Copies /\ Made' \subseteq Made
        BY <1>5 DEF Reload, Answer, Copies, Made, Pending
    <2> QED
        BY <1>1, <2>1
<1>6. CASE Kill
    <2>1. Copies' \subseteq Copies /\ Made' \subseteq Made
        BY <1>6 DEF Kill, Answer, Copies, Made, Pending
    <2> QED
        BY <1>1, <2>1
<1>7. CASE Reboot
    <2>1. Copies' \subseteq Copies /\ Made' \subseteq Made
        BY <1>7 DEF Reboot, Copies, Made, Pending
    <2> QED
        BY <1>1, <2>1
<1>8. CASE GuiOpen \/ GuiApply
    <2>1. Copies' \subseteq Copies /\ Made' \subseteq Made
        BY <1>8 DEF GuiOpen, GuiApply, Copies, Made, Pending
    <2> QED
        BY <1>1, <2>1
<1>9. CASE UNCHANGED vars
    <2>1. Copies' \subseteq Copies /\ Made' \subseteq Made
        BY <1>9 DEF vars, Copies, Made, Pending
    <2> QED
        BY <1>1, <2>1
<1>11. RunCreate \/ Write \/ GuiSave => Good
    BY CreateStep, WriteStep, GuiStep
<1> HIDE DEF Good
<1> QED
    BY <1>2, <1>3, <1>4, <1>5, <1>6, <1>7, <1>8, <1>9, <1>11 DEF Next

(* What a command has decided, done and reported holds while nothing that it *)
(* depends on changes.                                                       *)
LEMMA DoneKept ==
    ASSUME UNCHANGED <<cfg, base, job>>
    PROVE  Done' <=> Done
BY DEF Done, Decided

(* Every step of the script and the administrator keeps track of what the    *)
(* command has done so far.                                                  *)
LEMMA OutcomeStep ==
    ASSUME RuleInv, [Next]_vars
    PROVE  DecidedInv' /\ OutcomeInv' /\ ResultInv'
<1> USE DEF RuleInv
<1>1. CASE Call
    <2>1. cfg' = cfg /\ base' = cfg /\ pc' \in {"idle", "start"}
        BY <1>1, Zenon DEF Call, Answer
    <2>2. result'.status # "completed"
        <3>1. Answer("failed", <<>>) \/ result' = NoResult
            BY <1>1, Zenon DEF Call
        <3> QED
            BY <3>1 DEF Answer, NoResult
    <2> QED
        BY <2>1, <2>2 DEF DecidedInv, OutcomeInv, ResultInv
<1>2. CASE RunList
    <2>1. /\ pc = "start" /\ pc' = "idle" /\ job' = job /\ job.op = "list"
          /\ UNCHANGED <<cfg, base, raced>>
          /\ result' = [status |-> "completed", out |-> [k \in DOMAIN cfg[job.table] |->
              [tracker |-> cfg[job.table][k].tracker, dst |-> Format(cfg[job.table][k].dst)]]]
        BY <1>2 DEF RunList, Load, Answer
    <2>2. result'.out = [k \in DOMAIN cfg[job.table] |->
              [tracker |-> cfg[job.table][k].tracker, dst |-> Format(cfg[job.table][k].dst)]]
        BY <2>1
    <2> QED
        BY <2>1, <2>2 DEF DecidedInv, OutcomeInv, ResultInv
<1>3. CASE RunCreate
    <2>1. /\ pc = "start" /\ UNCHANGED <<cfg, base, raced>> /\ mem' = cfg
          /\ clock' = clock + 1 /\ job.op = "create"
        BY <1>3 DEF RunCreate, Load
    <2>2. CASE BadInput(job)
        <3>1. pc' = "idle" /\ result'.status = "failed"
            BY <1>3, <2>2 DEF RunCreate, Answer
        <3> QED
            BY <2>1, <3>1 DEF DecidedInv, OutcomeInv, ResultInv
    <2>3. CASE ~BadInput(job)
        <3>1. /\ pc' = "write" /\ result' = result
              /\ job' = [job EXCEPT !.tracker = clock']
            BY <1>3, <2>3 DEF RunCreate, Tracker
        <3>2. job'.op = "create" /\ job'.table = job.table /\ job'.tracker = clock + 1
            BY <2>1, <3>1 DEF TypeInv, Jobs
        <3>3. \A k \in DOMAIN cfg[job.table] : cfg[job.table][k].tracker < clock + 1
            <4>1. job.table \in Tables /\ clock \in Nat /\ cfg \in Copies
                BY DEF TypeInv, Jobs, Copies
            <4>2. \A k \in DOMAIN cfg[job.table] : cfg[job.table][k] \in Known(job.table)
                BY <4>1 DEF Known, RulesIn
            <4>3. \A r \in Known(job.table) : r.tracker \in Nat /\ r.tracker <= clock
                BY <4>1, KnownRules DEF KnownInv, Rules
            <4> QED
                BY <4>1, <4>2, <4>3
        <3>4. DecidedInv'
            BY <2>1, <3>2, <3>3 DEF DecidedInv, Decided
        <3> QED
            BY <2>1, <3>1, <3>4 DEF OutcomeInv, ResultInv
    <2> QED
        BY <2>2, <2>3
<1>4. CASE RunDelete
    <2>1. /\ pc = "start" /\ UNCHANGED <<cfg, base, raced, job>> /\ mem' = cfg
          /\ job.op = "delete"
        BY <1>4 DEF RunDelete, Load
    <2>2. CASE Find(cfg[job.table], job.tracker) = 0
        <3>0. Answer("not found", <<>>)
            BY <1>4, <2>2 DEF RunDelete
        <3>1. pc' = "idle" /\ result'.status # "completed"
            BY <3>0 DEF Answer
        <3> QED
            BY <2>1, <3>1 DEF DecidedInv, OutcomeInv, ResultInv
    <2>3. CASE Find(cfg[job.table], job.tracker) # 0
        <3>1. pc' = "write" /\ result' = result
            BY <1>4, <2>3 DEF RunDelete
        <3>2. DecidedInv'
            <4>1. job'.op = "delete" /\ mem'[job'.table] = cfg[job.table] /\ job'.tracker = job.tracker
                BY <2>1
            <4> QED
                BY <2>3, <4>1 DEF DecidedInv, Decided
        <3> QED
            BY <2>1, <3>1, <3>2 DEF OutcomeInv, ResultInv
    <2> QED
        BY <2>2, <2>3
<1>5. CASE Write
    <2>1. /\ pc = "write" /\ pc' = "reload" /\ UNCHANGED <<job, mem, base, raced, result>>
          /\ cfg' = [mem EXCEPT ![job.table] = Changed(@, job)]
        BY <1>5 DEF Write
    <2>2. ~raced => Done'
        <3>1. ~raced => mem = base /\ Decided(mem[job.table])
            BY <2>1 DEF OutcomeInv, DecidedInv
        <3>2. Decided(mem[job.table]) => Decided(mem[job.table])'
            BY <2>1 DEF Decided
        <3> QED
            BY <2>1, <3>1, <3>2 DEF Done
    <2> QED
        BY <2>1, <2>2 DEF DecidedInv, OutcomeInv, ResultInv
<1>6. CASE Reload
    <2>1. /\ pc = "reload" /\ pc' = "idle" /\ UNCHANGED <<cfg, job, base, raced>>
          /\ live' = cfg
        BY <1>6, Zenon DEF Reload, Answer
    <2>2. Done' <=> Done
        BY <2>1, DoneKept
    <2>3. ~raced => Done /\ job.op # "list"
        BY <2>1 DEF OutcomeInv, Done, Decided
    <2> QED
        BY <2>1, <2>2, <2>3 DEF DecidedInv, OutcomeInv, ResultInv
<1>7. CASE Kill \/ Reboot
    <2>1. /\ pc' = "idle" /\ UNCHANGED <<cfg, job, base, raced>>
          /\ result'.status = "completed" => result' = result /\ (live' = live \/ live' = cfg)
        BY <1>7 DEF Kill, Reboot, Answer, NoResult
    <2>2. Done' <=> Done
        BY <2>1, DoneKept
    <2> QED
        BY <2>1, <2>2 DEF DecidedInv, OutcomeInv, ResultInv
<1>8. CASE GuiOpen \/ GuiApply
    <2>1. /\ UNCHANGED <<pc, mem, result, cfg, job, base, raced>>
          /\ live' = live \/ live' = cfg
        BY <1>8 DEF GuiOpen, GuiApply
    <2>2. Done' <=> Done
        BY <2>1, DoneKept
    <2>3. DecidedInv'
        BY <2>1 DEF DecidedInv, Decided
    <2> QED
        BY <2>1, <2>2, <2>3 DEF OutcomeInv, ResultInv
<1>9. CASE GuiSave
    <2>1. UNCHANGED <<pc, mem, result, job>> /\ raced'
        BY <1>9 DEF GuiSave
    <2>2. DecidedInv'
        BY <2>1 DEF DecidedInv, Decided
    <2> QED
        BY <2>1, <2>2 DEF OutcomeInv, ResultInv
<1>10. CASE UNCHANGED vars
    <2>1. UNCHANGED <<pc, mem, result, cfg, job, base, raced, live>>
        BY <1>10 DEF vars
    <2>2. Done' <=> Done
        BY <2>1, DoneKept
    <2>3. DecidedInv'
        BY <2>1 DEF DecidedInv, Decided
    <2> QED
        BY <2>1, <2>2, <2>3 DEF OutcomeInv, ResultInv
<1> QED
    BY <1>1, <1>2, <1>3, <1>4, <1>5, <1>6, <1>7, <1>8, <1>9, <1>10 DEF Next

(* The inductive invariant: two rules with one tracker are one rule, in all  *)
(* the copies of the tables and the answers given, and config.xml is what    *)
(* the command found or that with the command's change.                      *)
THEOREM RuleInvariant == Spec => []RuleInv
<1>1. RuleInv /\ [Next]_vars => RuleInv'
    BY TablesStep, OutcomeStep DEF RuleInv
<1> QED
    BY <1>1, InitRule, PTL DEF Spec

----------------------------------------------------------------------------
(* What follows from the invariant about the tables on their own. *)
LEMMA TableTypes ==
    ASSUME RuleInv
    PROVE  /\ job \in Jobs /\ job.table \in Tables
           /\ cfg \in [Tables -> Seq(Rules)] /\ base \in [Tables -> Seq(Rules)]
           /\ live \in [Tables -> Seq(Rules)]
           /\ \A t \in Tables : Unique(cfg[t]) /\ Unique(base[t])
BY DEF RuleInv, TypeInv, UniqueInv, Copies, Jobs

(* The change that is on disk, table by table. *)
LEMMA DoneFacts ==
    ASSUME RuleInv, Done
    PROVE  /\ cfg[job.table] = Changed(base[job.table], job)
           /\ \A t \in Tables \ {job.table} : cfg[t] = base[t]
BY TableTypes DEF Done

(* A completed create or delete is on disk and live: the rule that create    *)
(* added is the last of its table, delete's rule is gone, and pf enforces    *)
(* what config.xml holds, whatever came before.                              *)
THEOREM CompletedChangesAreLive == Spec => []CompletedIsLive
<1>1. RuleInv => CompletedIsLive
    <2> SUFFICES ASSUME RuleInv, pc = "idle", result.status = "completed", job.op # "list", ~raced
                 PROVE  /\ live = cfg
                        /\ job.op = "create" => Last(cfg[job.table]).by = job.serial
                        /\ job.op = "delete" => Find(cfg[job.table], job.tracker) = 0
        BY DEF CompletedIsLive
    <2>1. live = cfg /\ Done
        BY DEF RuleInv, ResultInv
    <2>2. cfg[job.table] = Changed(base[job.table], job) /\ Decided(base[job.table])
        BY <2>1, DoneFacts DEF Done
    <2>3. base[job.table] \in Seq(Rules) /\ Unique(base[job.table]) /\ job \in Jobs
        BY TableTypes
    <2> QED
        BY <2>1, <2>2, <2>3, ChangedFacts
<1> QED
    BY <1>1, RuleInvariant, PTL

(* Wherever a command ends, the rules it was not about are still there, in   *)
(* both tables and in their order.                                           *)
THEOREM CommandsKeepOthers == Spec => []OthersKept
<1>1. RuleInv => OthersKept
    <2> SUFFICES ASSUME RuleInv, ~raced, NEW t \in Tables
                 PROVE  Kept(t, base[t], cfg[t]) /\ Kept(t, cfg[t], base[t])
        BY DEF OthersKept
    <2>1. CASE cfg[t] = base[t]
        BY <2>1, KeptSame
    <2>2. CASE Done /\ t = job.table
        <3>1. cfg[t] = Changed(base[t], job) /\ Decided(base[t])
            BY <2>2, DoneFacts DEF Done
        <3>2. base[t] \in Seq(Rules) /\ Unique(base[t]) /\ job \in Jobs
            BY TableTypes
        <3>3. Kept(job.table, base[t], Changed(base[t], job)) /\ Kept(job.table, Changed(base[t], job), base[t])
            BY <3>1, <3>2, KeptChanged
        <3> QED
            BY <2>2, <3>1, <3>3
    <2>3. cfg = base \/ Done
        BY DEF RuleInv, OutcomeInv
    <2> QED
        BY <2>1, <2>2, <2>3, DoneFacts
<1> QED
    BY <1>1, RuleInvariant, PTL

(* A rule known under the tracker that a create returned is that rule, as it *)
(* was made unless the administrator edited it.                              *)
LEMMA HandleRule ==
    ASSUME RuleInv, NEW c \in created, NEW r \in Known(c.table), r.tracker = c.tracker
    PROVE  r.by = c.serial /\ (~r.edited => r = NewRule(c))
<1>1. c.table \in Tables
    BY DEF RuleInv, TypeInv, Jobs
<1>2. NewRule(c) \in Known(c.table)
    BY DEF Known, MadeRules, Made
<1>3. NewRule(c).tracker = c.tracker /\ NewRule(c).by = c.serial /\ NewRule(c).edited = FALSE
    BY DEF NewRule
<1>4. SameRule(r, NewRule(c))
    BY <1>1, <1>2, <1>3 DEF RuleInv, KnownInv
<1> QED
    BY <1>3, <1>4 DEF SameRule

(* The tracker that create returned never comes to name another rule, and a  *)
(* tracker names one rule of a table.                                        *)
THEOREM HandlesNameOwnRules == Spec => []HandleNamesOwnRule
<1>1. RuleInv => HandleNamesOwnRule
    <2> SUFFICES ASSUME RuleInv PROVE HandleNamesOwnRule
        OBVIOUS
    <2>1. ASSUME NEW c \in created, NEW rules \in {cfg[c.table], live[c.table]},
                 NEW k \in DOMAIN rules, rules[k].tracker = c.tracker
          PROVE  rules[k].by = c.serial
        <3>1. rules[k] \in Known(c.table)
            BY <2>1 DEF Known, RulesIn, Copies
        <3> QED
            BY <2>1, <3>1, HandleRule
    <2>2. \A t \in Tables : Unique(cfg[t])
        BY TableTypes
    <2> QED
        BY <2>1, <2>2 DEF HandleNamesOwnRule, Unique
<1> QED
    BY <1>1, RuleInvariant, PTL

(* format_address_spec undoes parse_address_spec, up to the blanks around    *)
(* the spec, the spelling of any and the documented default.                 *)
LEMMA FormatStored ==
    ASSUME NEW c \in Jobs
    PROVE  /\ Format(Stored(c.table, c.dst)) = Asked(c)
           /\ Stored(c.table, Asked(c)) = Stored(c.table, c.dst)
<1>1. \A s \in DOMAIN Trim : Format(Parse(s)) = IF Trim[s] \in AnySpecs THEN "any" ELSE Trim[s]
    <2> TAKE s \in DOMAIN Trim
    <2> DEFINE m == Trim[s]
    <2> HIDE DEF m
    <2>1. CASE m \in AnySpecs
        BY <2>1 DEF Format, Parse, m
    <2>2. CASE m \notin AnySpecs /\ m \in IpSpecs
        <3>1. Parse(s) = [address |-> m]
            BY <2>2 DEF Parse, m
        <3>2. DOMAIN Parse(s) = {"address"} /\ Parse(s).address = m
            BY <3>1
        <3> QED
            BY <2>2, <3>2 DEF Format, m
    <2>3. CASE m \notin AnySpecs /\ m \notin IpSpecs
        <3>1. Parse(s) = [network |-> m]
            BY <2>3 DEF Parse, m
        <3>2. DOMAIN Parse(s) = {"network"} /\ Parse(s).network = m
            BY <3>1
        <3> QED
            BY <2>3, <3>2 DEF Format, m
    <2> QED
        BY <2>1, <2>2, <2>3
<1>2. c.dst \in DOMAIN Trim /\ OwnIp \in DOMAIN Trim /\ Trim[OwnIp] = OwnIp /\ OwnIp # ""
    BY SpecAssumption DEF Jobs
<1>3. CASE c.table = "nat" /\ c.dst = ""
    BY <1>1, <1>2, <1>3, SpecAssumption DEF Stored, Asked
<1>4. CASE ~(c.table = "nat" /\ c.dst = "")
    <2>1. Stored(c.table, c.dst) = Parse(c.dst)
        BY <1>4 DEF Stored
    <2>2. CASE Trim[c.dst] \in AnySpecs
        <3>1. Asked(c) = "any" /\ Stored(c.table, "any") = Parse("any")
            BY <1>4, <2>2 DEF Asked, Stored
        <3>2. Parse("any") = Parse(c.dst)
            BY <2>2, SpecAssumption DEF Parse
        <3> QED
            BY <1>1, <1>2, <2>1, <2>2, <3>1, <3>2
    <2>3. CASE Trim[c.dst] \notin AnySpecs
        <3>1. Asked(c) = Trim[c.dst] /\ Trim[c.dst] # ""
            BY <1>4, <2>3, SpecAssumption DEF Asked
        <3>2. Parse(Trim[c.dst]) = Parse(c.dst)
            BY <1>2, SpecAssumption DEF Parse
        <3>3. Stored(c.table, Trim[c.dst]) = Parse(Trim[c.dst])
            BY <3>1 DEF Stored
        <3> QED
            BY <1>1, <1>2, <2>1, <2>3, <3>1, <3>2, <3>3
    <2> QED
        BY <2>2, <2>3
<1> QED
    BY <1>3, <1>4

(* list shows config.xml's rules in their order, and every created rule that *)
(* is there as its creator made it with the destination its caller asked for, *)
(* trimmed; a create with what is shown stores the same again.               *)
THEOREM ListsAreFaithful == Spec => []ListFaithful
<1>1. RuleInv => ListFaithful
    <2> SUFFICES ASSUME RuleInv, job.op = "list", result.status = "completed", ~raced
                 PROVE  /\ Len(result.out) = Len(cfg[job.table])
                        /\ \A k \in DOMAIN result.out :
                              /\ result.out[k].tracker = cfg[job.table][k].tracker
                              /\ \A c \in created :
                                    /\ c.table = job.table
                                    /\ c.tracker = result.out[k].tracker
                                    /\ ~cfg[job.table][k].edited
                                    => /\ result.out[k].dst = Asked(c)
                                       /\ Stored(c.table, result.out[k].dst) = Stored(c.table, c.dst)
        BY Zenon DEF ListFaithful
    <2> DEFINE rules == cfg[job.table]
    <2>1. result.out = [k \in DOMAIN rules |->
                           [tracker |-> rules[k].tracker, dst |-> Format(rules[k].dst)]]
        BY DEF RuleInv, ResultInv
    <2>2. rules \in Seq(Rules)
        BY TableTypes
    <2>3. \A k \in DOMAIN rules : rules[k] \in Known(job.table)
        BY DEF Known, RulesIn, Copies
    <2> HIDE DEF rules
    <2>4. DOMAIN result.out = DOMAIN rules /\ Len(result.out) = Len(rules)
        BY <2>1, <2>2
    <2>5. ASSUME NEW k \in DOMAIN result.out
          PROVE  /\ result.out[k].tracker = rules[k].tracker
                 /\ result.out[k].dst = Format(rules[k].dst)
        BY <2>1, <2>4
    <2>6. ASSUME NEW k \in DOMAIN result.out, NEW c \in created,
                 c.table = job.table, c.tracker = result.out[k].tracker, ~rules[k].edited
          PROVE  /\ result.out[k].dst = Asked(c)
                 /\ Stored(c.table, result.out[k].dst) = Stored(c.table, c.dst)
        <3>1. rules[k] = NewRule(c)
            BY <2>3, <2>4, <2>5, <2>6, HandleRule
        <3>2. rules[k].dst = Stored(c.table, c.dst)
            BY <3>1 DEF NewRule
        <3>3. c \in Jobs
            BY DEF RuleInv, TypeInv
        <3> QED
            BY <2>5, <3>2, <3>3, FormatStored
    <2> QED
        BY <2>4, <2>5, <2>6 DEF rules
<1> QED
    BY <1>1, RuleInvariant, PTL
=============================================================================
