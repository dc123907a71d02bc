-------------------------- MODULE NetScripts_proofs --------------------------
(***************************************************************************)
(* Proofs about NetPlan and NetScripts, for plans of any length, any number  *)
(* of NICs, roles and gateways, and any number of boots.                     *)
(***************************************************************************)
EXTENDS NetScripts, WellFoundedInduction, TLAPS

----------------------------------------------------------------------------
(* The loops are recursive functions over 0..n: what holds before the first  *)
(* turn and is kept by each holds after every turn.  Induction rests on the   *)
(* least element of a set of naturals.                                       *)
LEMMA LeastNat ==
    ASSUME NEW T, T \subseteq Nat, T # {}
    PROVE  \E m \in T : \A k \in T : m <= k
<1> DEFINE R == {ss \in Nat \X Nat : ss[1] < ss[2]}
<1>1. R = OpToRel(<, Nat)
    BY DEF OpToRel
<1>2. IsWellFoundedOn(R, Nat)
    BY <1>1, NatLessThanWellFounded
<1>3. \A a, b \in Nat : a < b => <<a, b>> \in R
    OBVIOUS
<1> HIDE DEF R
<1>4. PICK x \in T : \A y \in T : ~ (<<y, x>> \in R)
    BY <1>2, WFMin
<1>5. \A y \in T : ~(y < x)
    BY <1>3, <1>4
<1>6. x \in Nat /\ \A y \in T : y \in Nat
    OBVIOUS
<1>7. \A y \in T : x <= y
    BY <1>5, <1>6
<1> QED
    BY <1>7

(* Induction up to n, for membership in a set. *)
LEMMA InductUpTo ==
    ASSUME NEW n \in Nat, NEW T, 0 \in T,
           \A k \in 0..n : k < n /\ k \in T => k + 1 \in T
    PROVE  \A k \in 0..n : k \in T
<1> DEFINE U == {k \in 0..n : k \notin T}
<1> SUFFICES ASSUME U # {} PROVE FALSE
    OBVIOUS
<1>1. U \subseteq Nat
    OBVIOUS
<1>2. PICK m \in U : \A k \in U : m <= k
    <2> HIDE DEF U
    <2> QED
        BY <1>1, LeastNat
<1>3. m # 0 /\ m \in 1..n /\ m - 1 \in 0..n /\ m - 1 < n /\ (m - 1) + 1 = m
    OBVIOUS
<1>4. m - 1 \in T
    BY <1>2, <1>3
<1> QED
    BY <1>3, <1>4

(* The recursive function of the plan loop is what its equation says. *)
RunEquation(c, pl, n, f) ==
    f = [k \in 0..n |->
            IF k = 0 THEN RunStart(c) ELSE ApplyEntry(Single(pl), f[k - 1], pl[k])]

(* There is such a function, for every number of turns. *)
LEMMA RunExists ==
    ASSUME NEW c, NEW pl, NEW n \in Nat
    PROVE  \E f : RunEquation(c, pl, n, f)
<1> DEFINE T == {m \in 0..n : \E f : RunEquation(c, pl, m, f)}
<1>1. 0 \in T
    <2> DEFINE g == [k \in 0..0 |-> RunStart(c)]
    <2>1. RunEquation(c, pl, 0, g)
        BY DEF RunEquation
    <2> HIDE DEF g
    <2> QED
        BY <2>1
<1>2. ASSUME NEW m \in 0..n, m < n, m \in T PROVE m + 1 \in T
    <2>1. PICK f : RunEquation(c, pl, m, f)
        BY <1>2
    <2> DEFINE h == [k \in 0..(m + 1) |->
                        IF k = m + 1 THEN ApplyEntry(Single(pl), f[m], pl[m + 1]) ELSE f[k]]
    <2>2. \A k \in 0..m :
              f[k] = IF k = 0 THEN RunStart(c) ELSE ApplyEntry(Single(pl), f[k - 1], pl[k])
        BY <2>1 DEF RunEquation
    <2>3. ASSUME NEW k \in 0..(m + 1)
          PROVE  h[k] = IF k = 0 THEN RunStart(c) ELSE ApplyEntry(Single(pl), h[k - 1], pl[k])
        <3>1. CASE k = m + 1
            BY <1>2, <3>1
        <3>2. CASE k # m + 1
            BY <1>2, <2>2, <3>2
        <3> QED
            BY <3>1, <3>2
    <2>4. DOMAIN h = 0..(m + 1) /\ h = [k \in 0..(m + 1) |-> h[k]]
        OBVIOUS
    <2> HIDE DEF h
    <2>5. RunEquation(c, pl, m + 1, h)
        BY <2>3, <2>4 DEF RunEquation
    <2>6. m + 1 \in 0..n
        BY <1>2
    <2> QED
        BY <2>5, <2>6
<1>3. n \in T
    <2> HIDE DEF T
    <2> QED
        BY <1>1, <1>2, InductUpTo
<1> QED
    BY <1>3

(* So the plan loop starts at RunStart and takes ApplyEntry at each turn. *)
LEMMA RunSteps ==
    ASSUME NEW c, NEW pl, Len(pl) \in Nat
    PROVE  /\ ApplySteps(c, pl)[0] = RunStart(c)
           /\ \A k \in 1..Len(pl) :
                 ApplySteps(c, pl)[k] = ApplyEntry(Single(pl), ApplySteps(c, pl)[k - 1], pl[k])
<1> DEFINE f == ApplySteps(c, pl)
<1>1. \E g : g = [k \in 0..Len(pl) |->
                    IF k = 0 THEN RunStart(c) ELSE ApplyEntry(Single(pl), g[k - 1], pl[k])]
    <2>1. \E g : RunEquation(c, pl, Len(pl), g)
        BY RunExists
    <2>2. PICK g : RunEquation(c, pl, Len(pl), g)
        BY <2>1
    <2>3. g = [k \in 0..Len(pl) |->
                  IF k = 0 THEN RunStart(c) ELSE ApplyEntry(Single(pl), g[k - 1], pl[k])]
        BY <2>2, Zenon DEF RunEquation
    <2> QED
        BY <2>3, Zenon
<1>2. f = [k \in 0..Len(pl) |->
              IF k = 0 THEN RunStart(c) ELSE ApplyEntry(Single(pl), f[k - 1], pl[k])]
    BY <1>1 DEF ApplySteps
<1> HIDE DEF f
<1>3. \A k \in 0..Len(pl) :
          f[k] = IF k = 0 THEN RunStart(c) ELSE ApplyEntry(Single(pl), f[k - 1], pl[k])
    BY <1>2
<1>4. f[0] = RunStart(c)
    BY <1>3
<1>5. \A k \in 1..Len(pl) : f[k] = ApplyEntry(Single(pl), f[k - 1], pl[k])
    BY <1>3
<1> QED
    BY <1>4, <1>5 DEF f

----------------------------------------------------------------------------
(* The role of a NIC: there is at most one. *)
LEMMA LogicalFacts ==
    ASSUME NEW ifs, IfsOK(ifs), NEW nic
    PROVE  /\ \A r \in DOMAIN ifs : ifs[r].nic = nic => LogicalOf(ifs, nic) = r
           /\ LogicalOf(ifs, nic) = None => \A r \in DOMAIN ifs : ifs[r].nic # nic
           /\ LogicalOf(ifs, nic) # None =>
                 LogicalOf(ifs, nic) \in DOMAIN ifs /\ ifs[LogicalOf(ifs, nic)].nic = nic
<1>1. CASE \E r \in DOMAIN ifs : ifs[r].nic = nic
    <2> DEFINE q == CHOOSE r \in DOMAIN ifs : ifs[r].nic = nic
    <2>1. q \in DOMAIN ifs /\ ifs[q].nic = nic
        BY <1>1
    <2>2. LogicalOf(ifs, nic) = q
        BY <1>1 DEF LogicalOf
    <2> HIDE DEF q
    <2> QED
        BY <2>1, <2>2 DEF IfsOK
<1>2. CASE ~\E r \in DOMAIN ifs : ifs[r].nic = nic
    BY <1>2 DEF LogicalOf
<1> QED
    BY <1>1, <1>2

(* The interface section that an entry leaves. *)
LEMMA IfaceFacts ==
    ASSUME NEW ifs, NEW r, NEW p
    PROVE  LET i == NewIface(ifs, r, p)
           IN  /\ i = [nic |-> i.nic, ip |-> i.ip, mtu |-> i.mtu, gw |-> i.gw]
               /\ i.nic = p.nic /\ i.ip = p.ip
               /\ i.gw = IF p.gw # None THEN r ELSE None
               /\ p.mtu # None => i.mtu = p.mtu
               /\ p.mtu = None /\ r \in DOMAIN ifs => i.mtu = ifs[r].mtu
BY DEF NewIface, NewGateway

(* One turn of the plan loop: the entry is left out, or its role gets it.    *)
(* The role is the NIC's own, or lan when the NIC has none and lan is free.  *)
Left(run, p) == LogicalOf(run.ifs, p.nic) = None /\ "lan" \in DOMAIN run.ifs

(* Both cases of a turn, spelled out. *)
LEMMA EntryFacts ==
    ASSUME NEW run, NEW single, NEW p, IfsOK(run.ifs)
    PROVE  LET new == ApplyEntry(single, run, p)
               r == RoleOf(run.ifs, p)
           IN  /\ Left(run, p) => new = run
               /\ ~Left(run, p) =>
                     /\ r # None
                     /\ r \in DOMAIN run.ifs => run.ifs[r].nic = p.nic
                     /\ r \notin DOMAIN run.ifs =>
                           r = "lan" /\ \A q \in DOMAIN run.ifs : run.ifs[q].nic # p.nic
                     /\ DOMAIN new.ifs = DOMAIN run.ifs \cup {r}
                     /\ new.ifs[r] = NewIface(run.ifs, r, p)
                     /\ \A q \in DOMAIN run.ifs \ {r} : new.ifs[q] = run.ifs[q]
                     /\ IfsOK(new.ifs)
                     /\ LogicalOf(new.ifs, p.nic) = r
                     /\ new.items = NewItems(run.items, r, p)
                     /\ new.dns = run.dns \cup p.dns
                     /\ new.def = IF BecomesDefault(single, r, p) THEN r ELSE run.def
                     /\ new.applied = run.applied \cup {r}
<1> DEFINE new == ApplyEntry(single, run, p)
           r == RoleOf(run.ifs, p)
           i == NewIface(run.ifs, r, p)
<1>1. Left(run, p) => new = run
    BY DEF Left, ApplyEntry, Skipped
<1>2. ASSUME ~Left(run, p)
      PROVE  /\ r # None
             /\ r \in DOMAIN run.ifs => run.ifs[r].nic = p.nic
             /\ r \notin DOMAIN run.ifs =>
                   r = "lan" /\ \A q \in DOMAIN run.ifs : run.ifs[q].nic # p.nic
    BY <1>2, LogicalFacts DEF Left, RoleOf, None
<1>3. ASSUME ~Left(run, p)
      PROVE  /\ new.ifs = Put(run.ifs, r, i)
             /\ new.items = NewItems(run.items, r, p)
             /\ new.dns = run.dns \cup p.dns
             /\ new.def = IF BecomesDefault(single, r, p) THEN r ELSE run.def
             /\ new.applied = run.applied \cup {r}
    <2>1. new = [ifs     |-> Put(run.ifs, r, i),
                 items   |-> NewItems(run.items, r, p),
                 dns     |-> run.dns \cup p.dns,
                 def     |-> IF BecomesDefault(single, r, p) THEN r ELSE run.def,
                 applied |-> run.applied \cup {r}]
        BY <1>3 DEF Left, ApplyEntry, Skipped
    <2> QED
        BY <2>1
<1>4. i = [nic |-> i.nic, ip |-> i.ip, mtu |-> i.mtu, gw |-> i.gw] /\ i.nic = p.nic
    BY IfaceFacts
<1> HIDE DEF new, r, i
<1>5. ASSUME ~Left(run, p)
      PROVE  /\ DOMAIN new.ifs = DOMAIN run.ifs \cup {r}
             /\ new.ifs[r] = i
             /\ \A q \in DOMAIN run.ifs \ {r} : new.ifs[q] = run.ifs[q]
    BY <1>3, <1>5 DEF Put
<1>6. ASSUME ~Left(run, p) PROVE IfsOK(new.ifs)
    <2>1. new.ifs = [q \in DOMAIN new.ifs |-> new.ifs[q]]
        BY <1>3, <1>6 DEF Put
    <2>2. \A q \in DOMAIN new.ifs :
              new.ifs[q] = [nic |-> new.ifs[q].nic, ip |-> new.ifs[q].ip,
                            mtu |-> new.ifs[q].mtu, gw |-> new.ifs[q].gw]
        <3>1. \A q \in DOMAIN run.ifs :
                  run.ifs[q] = [nic |-> run.ifs[q].nic, ip |-> run.ifs[q].ip,
                                mtu |-> run.ifs[q].mtu, gw |-> run.ifs[q].gw]
            BY DEF IfsOK
        <3> QED
            BY <1>4, <1>5, <1>6, <3>1
    <2>3. None \notin DOMAIN new.ifs
        BY <1>2, <1>5, <1>6 DEF IfsOK
    <2>4. \A q, s \in DOMAIN new.ifs : new.ifs[q].nic = new.ifs[s].nic => q = s
        BY <1>2, <1>4, <1>5, <1>6 DEF IfsOK
    <2>5. new.ifs = [q \in DOMAIN new.ifs |->
                        [nic |-> new.ifs[q].nic, ip |-> new.ifs[q].ip,
                         mtu |-> new.ifs[q].mtu, gw |-> new.ifs[q].gw]]
        <3> DEFINE g == new.ifs
        <3>1. g = [q \in DOMAIN g |-> g[q]]
            BY <2>1
        <3>2. \A q \in DOMAIN g : g[q] = [nic |-> g[q].nic, ip |-> g[q].ip,
                                          mtu |-> g[q].mtu, gw |-> g[q].gw]
            BY <2>2
        <3> HIDE DEF g
        <3>3. g = [q \in DOMAIN g |-> [nic |-> g[q].nic, ip |-> g[q].ip,
                                       mtu |-> g[q].mtu, gw |-> g[q].gw]]
            BY <3>1, <3>2
        <3> QED
            BY <3>3 DEF g
    <2> QED
        BY <2>3, <2>4, <2>5 DEF IfsOK
<1>7. ASSUME ~Left(run, p) PROVE LogicalOf(new.ifs, p.nic) = r
    BY <1>4, <1>5, <1>6, <1>7, LogicalFacts
<1> QED
    BY <1>1, <1>2, <1>3, <1>5, <1>6, <1>7 DEF new, r, i

----------------------------------------------------------------------------
(* What every turn of the loop keeps, for any plan: c is the configuration   *)
(* the script started from.  Roles keep their NICs, only lan may be new, all  *)
(* gateways named are defined, and a role not yet applied is as it was.      *)
RunOK(c, run) ==
    /\ IfsOK(run.ifs)
    /\ ItemsOK(run.ifs, run.items)
    /\ DOMAIN c.ifs \subseteq DOMAIN run.ifs
    /\ DOMAIN run.ifs \ DOMAIN c.ifs \subseteq {"lan"}
    /\ \A r \in DOMAIN c.ifs : run.ifs[r].nic = c.ifs[r].nic
    /\ run.applied \subseteq DOMAIN run.ifs
    /\ \A r \in DOMAIN run.ifs \ run.applied : r \in DOMAIN c.ifs /\ run.ifs[r] = c.ifs[r]
    /\ run.def = None \/ run.def \in DOMAIN run.items

(* A turn keeps it. *)
LEMMA RunStep ==
    ASSUME NEW c, NEW run, NEW single, NEW p, RunOK(c, run)
    PROVE  RunOK(c, ApplyEntry(single, run, p))
<1> DEFINE new == ApplyEntry(single, run, p)
           r == RoleOf(run.ifs, p)
<1>1. CASE Left(run, p)
    BY <1>1, EntryFacts DEF RunOK
<1>2. CASE ~Left(run, p)
    <2>1. /\ r # None
          /\ r \in DOMAIN run.ifs => run.ifs[r].nic = p.nic
          /\ r \notin DOMAIN run.ifs => r = "lan"
          /\ DOMAIN new.ifs = DOMAIN run.ifs \cup {r}
          /\ new.ifs[r] = NewIface(run.ifs, r, p)
          /\ \A q \in DOMAIN run.ifs \ {r} : new.ifs[q] = run.ifs[q]
          /\ IfsOK(new.ifs)
          /\ new.items = NewItems(run.items, r, p)
          /\ new.def = IF BecomesDefault(single, r, p) THEN r ELSE run.def
          /\ new.applied = run.applied \cup {r}
        BY <1>2, EntryFacts DEF RunOK
    <2>2. NewIface(run.ifs, r, p).nic = p.nic
          /\ NewIface(run.ifs, r, p).gw = IF p.gw # None THEN r ELSE None
        BY IfaceFacts
    <2>3. /\ IsFunction(new.items)
          /\ DOMAIN new.items = IF p.gw # None THEN DOMAIN run.items \cup {r} ELSE DOMAIN run.items
        <3> HIDE DEF new, r
        <3>1. IsFunction(run.items)
            BY DEF RunOK, ItemsOK
        <3>2. CASE p.gw = None
            BY <2>1, <3>1, <3>2 DEF NewItems
        <3>3. CASE p.gw # None
            BY <2>1, <3>3 DEF NewItems, Put, IsFunction
        <3> QED
            BY <3>2, <3>3
    <2>4. BecomesDefault(single, r, p) => p.gw # None
        BY DEF BecomesDefault
    <2> HIDE DEF new, r
    <2>5. ItemsOK(new.ifs, new.items)
        <3>1. None \notin DOMAIN new.items
            BY <2>1, <2>3 DEF RunOK, ItemsOK
        <3>2. ASSUME NEW q \in DOMAIN new.ifs
              PROVE  new.ifs[q].gw = None \/ new.ifs[q].gw \in DOMAIN new.items
            BY <2>1, <2>2, <2>3 DEF RunOK, ItemsOK
        <3> QED
            BY <2>3, <3>1, <3>2 DEF ItemsOK
    <2>6. \A q \in DOMAIN c.ifs : q \in DOMAIN new.ifs /\ new.ifs[q].nic = c.ifs[q].nic
        BY <2>1, <2>2 DEF RunOK
    <2>7. \A q \in DOMAIN new.ifs \ new.applied : q \in DOMAIN c.ifs /\ new.ifs[q] = c.ifs[q]
        BY <2>1 DEF RunOK
    <2>8. new.def = None \/ new.def \in DOMAIN new.items
        BY <2>1, <2>3, <2>4 DEF RunOK
    <2>9. DOMAIN new.ifs \ DOMAIN c.ifs \subseteq {"lan"} /\ new.applied \subseteq DOMAIN new.ifs
        BY <2>1 DEF RunOK
    <2>10. RunOK(c, new)
        BY <2>1, <2>5, <2>6, <2>7, <2>8, <2>9 DEF RunOK
    <2> QED
        BY <2>10 DEF new
<1> QED
    BY <1>1, <1>2

(* So it holds after every turn. *)
LEMMA RunIsOK ==
    ASSUME NEW c, SectionOK(c), NEW pl, Len(pl) \in Nat
    PROVE  \A k \in 0..Len(pl) : RunOK(c, ApplySteps(c, pl)[k])
<1> DEFINE run == ApplySteps(c, pl)
           T == {k \in 0..Len(pl) : RunOK(c, run[k])}
<1>1. RunOK(c, run[0])
    <2>1. run[0] = RunStart(c)
        BY RunSteps
    <2>2. RunOK(c, RunStart(c))
        BY DEF RunOK, RunStart, SectionOK
    <2> QED
        BY <2>1, <2>2
<1>2. ASSUME NEW k \in 0..Len(pl), k < Len(pl), k \in T PROVE k + 1 \in T
    <2>1. k + 1 \in 1..Len(pl) /\ k + 1 \in 0..Len(pl) /\ (k + 1) - 1 = k
        BY <1>2
    <2>2. run[k + 1] = ApplyEntry(Single(pl), run[k], pl[k + 1])
        BY <2>1, RunSteps
    <2>3. RunOK(c, run[k + 1])
        BY <1>2, <2>2, RunStep
    <2> QED
        BY <2>1, <2>3
<1>3. 0 \in T
    BY <1>1
<1> HIDE DEF T
<1>4. \A k \in 0..Len(pl) : k \in T
    BY <1>2, <1>3, InductUpTo
<1> QED
    BY <1>4 DEF T

----------------------------------------------------------------------------
(* What the loop makes of the entries it has passed.  An entry is settled     *)
(* when its NIC's role has the planned address and gateway (and MTU, when one *)
(* is planned), or when its NIC has no role and lan is taken.                *)
Settled(run, p) ==
    LET r == LogicalOf(run.ifs, p.nic)
    IN  IF r = None
        THEN "lan" \in DOMAIN run.ifs
        ELSE /\ run.ifs[r].ip = p.ip
             /\ run.ifs[r].gw = IF p.gw # None THEN r ELSE None
             /\ p.mtu # None => run.ifs[r].mtu = p.mtu
             /\ p.gw # None => r \in DOMAIN run.items /\ run.items[r] = p.gw

(* An entry settles itself. *)
LEMMA EntrySettles ==
    ASSUME NEW c, NEW run, NEW single, NEW p, RunOK(c, run)
    PROVE  Settled(ApplyEntry(single, run, p), p)
<1> DEFINE new == ApplyEntry(single, run, p)
           r == RoleOf(run.ifs, p)
           i == NewIface(run.ifs, r, p)
<1>1. CASE Left(run, p)
    BY <1>1, EntryFacts DEF RunOK, Left, Settled
<1>2. CASE ~Left(run, p)
    <2>1. /\ r # None
          /\ new.ifs[r] = i
          /\ LogicalOf(new.ifs, p.nic) = r
          /\ new.items = NewItems(run.items, r, p)
        BY <1>2, EntryFacts DEF RunOK
    <2>2. /\ i.ip = p.ip
          /\ i.gw = IF p.gw # None THEN r ELSE None
          /\ p.mtu # None => i.mtu = p.mtu
        BY IfaceFacts
    <2> HIDE DEF new, r, i
    <2>3. p.gw # None => r \in DOMAIN new.items /\ new.items[r] = p.gw
        BY <2>1 DEF NewItems, Put
    <2>4. Settled(new, p)
        BY <2>1, <2>2, <2>3 DEF Settled
    <2> QED
        BY <2>4 DEF new
<1> QED
    BY <1>1, <1>2

(* The entry of another NIC changes neither its role nor what is settled. *)
LEMMA OtherEntry ==
    ASSUME NEW c, NEW run, NEW single, NEW p, RunOK(c, run), NEW q, q.nic # p.nic
    PROVE  LET new == ApplyEntry(single, run, p)
           IN  /\ LogicalOf(new.ifs, q.nic) = LogicalOf(run.ifs, q.nic)
               /\ Settled(run, q) => Settled(new, q)
<1> DEFINE new == ApplyEntry(single, run, p)
           r == RoleOf(run.ifs, p)
           s == LogicalOf(run.ifs, q.nic)
<1>1. CASE Left(run, p)
    BY <1>1, EntryFacts DEF RunOK
<1>2. CASE ~Left(run, p)
    <2>1. /\ r \in DOMAIN run.ifs => run.ifs[r].nic = p.nic
          /\ DOMAIN new.ifs = DOMAIN run.ifs \cup {r}
          /\ new.ifs[r] = NewIface(run.ifs, r, p)
          /\ \A t \in DOMAIN run.ifs \ {r} : new.ifs[t] = run.ifs[t]
          /\ IfsOK(new.ifs)
          /\ new.items = NewItems(run.items, r, p)
        BY <1>2, EntryFacts DEF RunOK
    <2>2. NewIface(run.ifs, r, p).nic = p.nic
        BY IfaceFacts
    <2>3. /\ s = None => \A t \in DOMAIN run.ifs : run.ifs[t].nic # q.nic
          /\ s # None => s \in DOMAIN run.ifs /\ run.ifs[s].nic = q.nic
        BY LogicalFacts DEF RunOK
    <2>4. /\ \A t \in DOMAIN new.ifs : new.ifs[t].nic = q.nic => LogicalOf(new.ifs, q.nic) = t
          /\ LogicalOf(new.ifs, q.nic) # None =>
                /\ LogicalOf(new.ifs, q.nic) \in DOMAIN new.ifs
                /\ new.ifs[LogicalOf(new.ifs, q.nic)].nic = q.nic
        BY <2>1, LogicalFacts
    <2> HIDE DEF new, r, s
    <2>5. s # None => s # r /\ new.ifs[s] = run.ifs[s]
        BY <2>1, <2>3
    <2>6. LogicalOf(new.ifs, q.nic) = s
        <3>1. CASE s # None
            BY <2>1, <2>3, <2>4, <2>5, <3>1
        <3>2. CASE s = None
            BY <2>1, <2>2, <2>3, <2>4, <3>2
        <3> QED
            BY <3>1, <3>2
    <2>7. s # None /\ s \in DOMAIN run.items =>
              s \in DOMAIN new.items /\ new.items[s] = run.items[s]
        <3>1. CASE p.gw = None
            BY <2>1, <3>1 DEF NewItems
        <3>2. CASE p.gw # None
            BY <2>1, <2>5, <3>2 DEF NewItems, Put
        <3> QED
            BY <3>1, <3>2
    <2>8. Settled(run, q) => Settled(new, q)
        BY <2>1, <2>5, <2>6, <2>7 DEF Settled, s
    <2> QED
        BY <2>6, <2>8 DEF new, s
<1> QED
    BY <1>1, <1>2

(* A settled entry changes neither the interfaces nor the gateways. *)
LEMMA SettledEntry ==
    ASSUME NEW c, NEW run, NEW single, NEW p, RunOK(c, run), Settled(run, p)
    PROVE  LET new == ApplyEntry(single, run, p)
           IN  new.ifs = run.ifs /\ new.items = run.items
<1> DEFINE new == ApplyEntry(single, run, p)
           r == RoleOf(run.ifs, p)
           i == NewIface(run.ifs, r, p)
<1>1. CASE Left(run, p)
    BY <1>1, EntryFacts DEF RunOK
<1>2. CASE ~Left(run, p)
    <2>1. /\ r # None
          /\ DOMAIN new.ifs = DOMAIN run.ifs \cup {r}
          /\ new.ifs[r] = i
          /\ \A q \in DOMAIN run.ifs \ {r} : new.ifs[q] = run.ifs[q]
          /\ IfsOK(new.ifs)
          /\ new.items = NewItems(run.items, r, p)
        BY <1>2, EntryFacts DEF RunOK
    <2>2. LogicalOf(run.ifs, p.nic) # None /\ LogicalOf(run.ifs, p.nic) = r
        BY <1>2 DEF Settled, Left, RoleOf
    <2>3. r \in DOMAIN run.ifs /\ run.ifs[r].nic = p.nic
        BY <2>2, LogicalFacts DEF RunOK
    <2>4. /\ i = [nic |-> i.nic, ip |-> i.ip, mtu |-> i.mtu, gw |-> i.gw]
          /\ i.nic = p.nic /\ i.ip = p.ip
          /\ i.gw = IF p.gw # None THEN r ELSE None
          /\ p.mtu # None => i.mtu = p.mtu
          /\ p.mtu = None /\ r \in DOMAIN run.ifs => i.mtu = run.ifs[r].mtu
        BY IfaceFacts
    <2> HIDE DEF new, r, i
    <2>5. /\ run.ifs[r].ip = p.ip
          /\ run.ifs[r].gw = IF p.gw # None THEN r ELSE None
          /\ p.mtu # None => run.ifs[r].mtu = p.mtu
          /\ p.gw # None => r \in DOMAIN run.items /\ run.items[r] = p.gw
        BY <2>2 DEF Settled
    <2>6. run.ifs[r] = [nic |-> run.ifs[r].nic, ip |-> run.ifs[r].ip,
                        mtu |-> run.ifs[r].mtu, gw |-> run.ifs[r].gw]
        BY <2>3 DEF RunOK, IfsOK
    <2>7. i = run.ifs[r]
        BY <2>3, <2>4, <2>5, <2>6
    <2>8. new.ifs = run.ifs
        <3> DEFINE f == new.ifs
                   g == run.ifs
        <3>1. f = [q \in DOMAIN f |-> f[q]] /\ g = [q \in DOMAIN g |-> g[q]]
            BY <2>1 DEF RunOK, IfsOK
        <3>2. DOMAIN f = DOMAIN g /\ \A q \in DOMAIN f : f[q] = g[q]
            BY <2>1, <2>3, <2>7
        <3> HIDE DEF f, g
        <3>3. f = g
            BY <3>1, <3>2
        <3> QED
            BY <3>3 DEF f, g
    <2>9. new.items = run.items
        <3>1. CASE p.gw = None
            BY <2>1, <3>1 DEF NewItems
        <3>2. CASE p.gw # None
            <4> DEFINE f == new.items
                       g == run.items
            <4>1. f = [q \in DOMAIN f |-> f[q]] /\ g = [q \in DOMAIN g |-> g[q]]
                BY <2>1, <3>2 DEF RunOK, ItemsOK, IsFunction, NewItems, Put
            <4>2. DOMAIN f = DOMAIN g /\ \A q \in DOMAIN f : f[q] = g[q]
                BY <2>1, <2>5, <3>2 DEF NewItems, Put
            <4> HIDE DEF f, g
            <4>3. f = g
                BY <4>1, <4>2
            <4> QED
                BY <4>3 DEF f, g
        <3> QED
            BY <3>1, <3>2
    <2> QED
        BY <2>8, <2>9 DEF new
<1> QED
    BY <1>1, <1>2

----------------------------------------------------------------------------
(* A plan names a NIC once (proved of PlanOf below). *)
IsPlan(pl) ==
    /\ Len(pl) \in Nat
    /\ DOMAIN pl = 1..Len(pl)
    /\ \A j, k \in DOMAIN pl : pl[j].nic = pl[k].nic => j = k

(* The state of the loop after k entries of pl, read off its interfaces: the *)
(* entries are settled and their roles listed to be loaded; a role that no entry is for is as it was; the default *)
(* gateway is that of the entry that claims it; the DNS servers are those of  *)
(* the entries that have a role.                                             *)
Claims(pl, run, j) ==
    /\ LogicalOf(run.ifs, pl[j].nic) # None
    /\ BecomesDefault(Single(pl), LogicalOf(run.ifs, pl[j].nic), pl[j])

Untouched(c, pl, k, run) ==
    \A r \in DOMAIN run.ifs :
        (\A j \in 1..k : pl[j].nic # run.ifs[r].nic) => r \in DOMAIN c.ifs /\ run.ifs[r] = c.ifs[r]

Chosen(pl, k, run) ==
    /\ run.def # None =>
          \E j \in 1..k : Claims(pl, run, j) /\ run.def = LogicalOf(run.ifs, pl[j].nic)
    /\ \A j \in 1..k : Claims(pl, run, j) => run.def = LogicalOf(run.ifs, pl[j].nic)

Resolvers(pl, k, run) ==
    \A x : x \in run.dns <=>
              \E j \in 1..k : LogicalOf(run.ifs, pl[j].nic) # None /\ x \in pl[j].dns

Listed(pl, k, run) ==
    \A j \in 1..k : LET q == LogicalOf(run.ifs, pl[j].nic)
                   IN  q # None => q \in run.applied

Passed(c, pl, k, run) ==
    /\ \A j \in 1..k : Settled(run, pl[j])
    /\ Listed(pl, k, run)
    /\ Untouched(c, pl, k, run)
    /\ Chosen(pl, k, run)
    /\ Resolvers(pl, k, run)

(* Only one entry can claim the default: that of wan, or the only gateway. *)
LEMMA OneClaim ==
    ASSUME NEW pl, IsPlan(pl), NEW run, NEW j \in DOMAIN pl, NEW k \in DOMAIN pl,
           Claims(pl, run, j), Claims(pl, run, k)
    PROVE  LogicalOf(run.ifs, pl[j].nic) = LogicalOf(run.ifs, pl[k].nic)
<1>1. j \in Gateways(pl) /\ k \in Gateways(pl)
    BY DEF Claims, BecomesDefault, Gateways
<1>2. CASE Single(pl)
    BY <1>1, <1>2 DEF Single
<1>3. CASE ~Single(pl)
    BY <1>3 DEF Claims, BecomesDefault
<1> QED
    BY <1>2, <1>3

(* The next entry: earlier ones are undisturbed, for they are of other NICs. *)
LEMMA PassedStep ==
    ASSUME NEW c, NEW pl, IsPlan(pl), NEW k \in 0..Len(pl), k < Len(pl), NEW run,
           RunOK(c, run), Passed(c, pl, k, run)
    PROVE  Passed(c, pl, k + 1, ApplyEntry(Single(pl), run, pl[k + 1]))
<1> DEFINE p == pl[k + 1]
           new == ApplyEntry(Single(pl), run, p)
           r == RoleOf(run.ifs, p)
           Role(j) == LogicalOf(run.ifs, pl[j].nic)
           NewRole(j) == LogicalOf(new.ifs, pl[j].nic)
<1>1. /\ k + 1 \in 1..Len(pl)
      /\ 1..(k + 1) = (1..k) \cup {k + 1}
      /\ \A j \in 1..k : j \in 1..Len(pl) /\ j # k + 1
    BY DEF IsPlan
<1>2. \A j \in 1..k : pl[j].nic # p.nic
    BY <1>1 DEF IsPlan
<1>3. \A j \in 1..k : NewRole(j) = Role(j)
    BY <1>2, OtherEntry
<1>4. \A j \in 1..(k + 1) : Settled(new, pl[j])
    <2>1. Settled(new, p)
        BY EntrySettles
    <2>2. \A j \in 1..k : Settled(new, pl[j])
        BY <1>2, OtherEntry DEF Passed
    <2> QED
        BY <1>1, <2>1, <2>2
<1>5. CASE Left(run, p)
    <2>1. new = run
        BY <1>5, EntryFacts DEF RunOK
    <2>2. NewRole(k + 1) = None
        BY <1>5, <2>1 DEF Left
    <2> HIDE DEF new, p
    <2>3. Untouched(c, pl, k + 1, new)
        BY <1>1, <2>1 DEF Passed, Untouched
    <2>4. Chosen(pl, k + 1, new)
        BY <1>1, <2>1, <2>2 DEF Passed, Chosen, Claims
    <2>5. Resolvers(pl, k + 1, new)
        BY <1>1, <2>1, <2>2 DEF Passed, Resolvers
    <2>6. Listed(pl, k + 1, new)
        BY <1>1, <2>1, <2>2 DEF Passed, Listed
    <2>7. Passed(c, pl, k + 1, new)
        BY <1>4, <2>3, <2>4, <2>5, <2>6 DEF Passed
    <2> QED
        BY <2>7 DEF new, p
<1>6. CASE ~Left(run, p)
    <2>1. /\ r # None
          /\ r \in DOMAIN run.ifs => run.ifs[r].nic = p.nic
          /\ DOMAIN new.ifs = DOMAIN run.ifs \cup {r}
          /\ new.ifs[r] = NewIface(run.ifs, r, p)
          /\ \A q \in DOMAIN run.ifs \ {r} : new.ifs[q] = run.ifs[q]
          /\ NewRole(k + 1) = r
          /\ new.dns = run.dns \cup p.dns
          /\ new.def = IF BecomesDefault(Single(pl), r, p) THEN r ELSE run.def
          /\ new.applied = run.applied \cup {r}
        BY <1>6, EntryFacts DEF RunOK
    <2>2. NewIface(run.ifs, r, p).nic = p.nic
        BY IfaceFacts
    <2>3. \A j \in 1..k : Claims(pl, new, j) <=> Claims(pl, run, j)
        BY <1>3 DEF Claims
    <2>4. Claims(pl, new, k + 1) <=> BecomesDefault(Single(pl), r, p)
        BY <2>1 DEF Claims
    <2>5. \A j \in 1..(k + 1) : j \in DOMAIN pl
        BY <1>1 DEF IsPlan
    <2>6. \A i, j \in 1..(k + 1) : Claims(pl, new, i) /\ Claims(pl, new, j) => NewRole(i) = NewRole(j)
        BY <2>5, OneClaim
    <2>7. p = pl[k + 1] /\ k + 1 \in 1..(k + 1)
        BY <1>1
    <2> HIDE DEF new, p, r
    <2>8. Untouched(c, pl, k + 1, new)
        <3> SUFFICES ASSUME NEW q \in DOMAIN new.ifs,
                            \A j \in 1..(k + 1) : pl[j].nic # new.ifs[q].nic
                     PROVE  q \in DOMAIN c.ifs /\ new.ifs[q] = c.ifs[q]
            BY DEF Untouched
        <3>1. q # r
            BY <2>1, <2>2, <2>7
        <3>2. q \in DOMAIN run.ifs /\ new.ifs[q] = run.ifs[q]
            BY <2>1, <3>1
        <3> QED
            BY <1>1, <3>2 DEF Passed, Untouched
    <2>9. Chosen(pl, k + 1, new)
        <3> HIDE DEF Role, NewRole
        <3>1. /\ run.def # None => \E j \in 1..k : Claims(pl, run, j) /\ run.def = Role(j)
              /\ \A j \in 1..k : Claims(pl, run, j) => run.def = Role(j)
            BY DEF Passed, Chosen, Role
        <3>2. CASE BecomesDefault(Single(pl), r, p)
            <4>1. new.def = r /\ Claims(pl, new, k + 1) /\ NewRole(k + 1) = r
                BY <2>1, <2>4, <3>2
            <4>2. \A j \in 1..(k + 1) : Claims(pl, new, j) => new.def = NewRole(j)
                BY <2>6, <2>7, <4>1
            <4> QED
                BY <2>7, <4>1, <4>2 DEF Chosen, NewRole
        <3>3. CASE ~BecomesDefault(Single(pl), r, p)
            <4>1. new.def = run.def /\ ~Claims(pl, new, k + 1)
                BY <2>1, <2>4, <3>3
            <4>2. new.def # None => \E j \in 1..(k + 1) : Claims(pl, new, j) /\ new.def = NewRole(j)
                BY <1>1, <1>3, <2>3, <3>1, <4>1
            <4>3. \A j \in 1..(k + 1) : Claims(pl, new, j) => new.def = NewRole(j)
                BY <1>1, <1>3, <2>3, <3>1, <4>1
            <4> QED
                BY <4>2, <4>3 DEF Chosen, NewRole
        <3> QED
            BY <3>2, <3>3
    <2>10. Resolvers(pl, k + 1, new)
        <3> HIDE DEF Role, NewRole
        <3>1. \A x : x \in run.dns <=> \E j \in 1..k : Role(j) # None /\ x \in pl[j].dns
            BY DEF Passed, Resolvers, Role
        <3>2. ASSUME NEW x
              PROVE  x \in new.dns <=> \E j \in 1..(k + 1) : NewRole(j) # None /\ x \in pl[j].dns
            <4>1. x \in new.dns <=> x \in run.dns \/ x \in pl[k + 1].dns
                BY <2>1, <2>7
            <4>2. NewRole(k + 1) # None
                BY <2>1
            <4> QED
                BY <1>1, <1>3, <3>1, <4>1, <4>2
        <3> QED
            BY <3>2 DEF Resolvers, NewRole
    <2>11. Listed(pl, k + 1, new)
        <3> HIDE DEF Role, NewRole
        <3>1. \A j \in 1..k : Role(j) # None => Role(j) \in run.applied
            BY DEF Passed, Listed, Role
        <3>2. \A j \in 1..(k + 1) : NewRole(j) # None => NewRole(j) \in new.applied
            BY <1>1, <1>3, <2>1, <3>1
        <3> QED
            BY <3>2 DEF Listed, NewRole
    <2>12. Passed(c, pl, k + 1, new)
        BY <1>4, <2>8, <2>9, <2>10, <2>11 DEF Passed
    <2> QED
        BY <2>12 DEF new, p
<1> QED
    BY <1>5, <1>6

(* So it holds after every entry. *)
LEMMA PlanPassed ==
    ASSUME NEW c, SectionOK(c), NEW pl, IsPlan(pl)
    PROVE  \A k \in 0..Len(pl) : Passed(c, pl, k, ApplySteps(c, pl)[k])
<1> DEFINE run == ApplySteps(c, pl)
           T == {k \in 0..Len(pl) : Passed(c, pl, k, run[k])}
<1>0. Len(pl) \in Nat
    BY DEF IsPlan
<1>1. Passed(c, pl, 0, run[0])
    <2>1. run[0] = RunStart(c)
        BY <1>0, RunSteps
    <2>2. 1..0 = {}
        OBVIOUS
    <2>3. Passed(c, pl, 0, RunStart(c))
        BY <2>2 DEF Passed, Listed, Untouched, Chosen, Resolvers, RunStart
    <2> QED
        BY <2>1, <2>3
<1>2. ASSUME NEW k \in 0..Len(pl), k < Len(pl), k \in T PROVE k + 1 \in T
    <2>1. k + 1 \in 1..Len(pl) /\ k + 1 \in 0..Len(pl) /\ (k + 1) - 1 = k
        BY <1>0, <1>2
    <2>2. run[k + 1] = ApplyEntry(Single(pl), run[k], pl[k + 1])
        BY <1>0, <2>1, RunSteps
    <2>3. RunOK(c, run[k])
        BY <1>0, RunIsOK
    <2> HIDE DEF run
    <2>4. Passed(c, pl, k + 1, run[k + 1])
        BY <1>2, <2>2, <2>3, PassedStep
    <2> QED
        BY <2>1, <2>4
<1>3. 0 \in T
    BY <1>0, <1>1
<1> HIDE DEF T
<1>4. \A k \in 0..Len(pl) : k \in T
    BY <1>0, <1>2, <1>3, InductUpTo
<1> QED
    BY <1>4 DEF T

(* What the loop leaves, in one place. *)
LEMMA PlanResult ==
    ASSUME NEW c, SectionOK(c), NEW pl, IsPlan(pl)
    PROVE  LET run == ApplySteps(c, pl)[Len(pl)]
           IN  RunOK(c, run) /\ Passed(c, pl, Len(pl), run)
<1>1. Len(pl) \in Nat /\ Len(pl) \in 0..Len(pl)
    BY DEF IsPlan
<1> QED
    BY <1>1, RunIsOK, PlanPassed

(* What ApplyPlan returns, field by field. *)
LEMMA ResultFields ==
    ASSUME NEW c, NEW pl
    PROVE  LET run == ApplySteps(c, pl)[Len(pl)]
               res == ApplyPlan(c, pl)
           IN  /\ res.def = run.def
               /\ res.applied = run.applied
               /\ res.c.ifs = run.ifs
               /\ res.c.items = run.items
               /\ res.c.dns = IF run.dns # {} THEN run.dns ELSE c.dns
               /\ res.c.defgw = IF run.def # None THEN run.def ELSE c.defgw
               /\ res.c = [ifs |-> res.c.ifs, items |-> res.c.items,
                           defgw |-> res.c.defgw, dns |-> res.c.dns]
BY DEF ApplyPlan

(* What apply.php writes is a sound network section again. *)
LEMMA ResultSection ==
    ASSUME NEW c, SectionOK(c), NEW pl, IsPlan(pl)
    PROVE  SectionOK(ApplyPlan(c, pl).c)
<1> DEFINE run == ApplySteps(c, pl)[Len(pl)]
           d == ApplyPlan(c, pl).c
<1>1. RunOK(c, run)
    BY PlanResult
<1>2. /\ d.ifs = run.ifs
      /\ d.items = run.items
      /\ d = [ifs |-> d.ifs, items |-> d.items, defgw |-> d.defgw, dns |-> d.dns]
    BY ResultFields
<1> HIDE DEF run, d
<1>3. SectionOK(d)
    BY <1>1, <1>2 DEF RunOK, SectionOK
<1> QED
    BY <1>3 DEF d

(* Applying a plan to what the same plan gave changes nothing: every entry is *)
(* settled already, and the default gateway and the DNS servers are functions *)
(* of the interfaces that the loop leaves.                                   *)
LEMMA ApplyTwice ==
    ASSUME NEW c, SectionOK(c), NEW pl, IsPlan(pl)
    PROVE  ApplyPlan(ApplyPlan(c, pl).c, pl).c = ApplyPlan(c, pl).c
<1> DEFINE d == ApplyPlan(c, pl).c
           e == ApplyPlan(d, pl).c
           n == Len(pl)
           one == ApplySteps(c, pl)[n]
           two == ApplySteps(d, pl)
           T == {k \in 0..n : two[k].ifs = one.ifs /\ two[k].items = one.items}
<1>1. n \in Nat /\ n \in 0..n
    BY DEF IsPlan
<1>2. SectionOK(d)
    BY ResultSection
<1>3. RunOK(c, one) /\ Passed(c, pl, n, one)
    BY PlanResult
<1>4. /\ d.ifs = one.ifs
      /\ d.items = one.items
      /\ d.dns = IF one.dns # {} THEN one.dns ELSE c.dns
      /\ d.defgw = IF one.def # None THEN one.def ELSE c.defgw
      /\ d = [ifs |-> d.ifs, items |-> d.items, defgw |-> d.defgw, dns |-> d.dns]
    BY ResultFields
<1>5. /\ two[0] = RunStart(d)
      /\ \A k \in 1..n : two[k] = ApplyEntry(Single(pl), two[k - 1], pl[k])
    BY <1>1, RunSteps
<1>6. /\ \A k \in 0..n : RunOK(d, two[k])
      /\ Passed(d, pl, n, two[n])
    BY <1>1, <1>2, RunIsOK, PlanPassed
<1>7. /\ e.ifs = two[n].ifs
      /\ e.items = two[n].items
      /\ e.dns = IF two[n].dns # {} THEN two[n].dns ELSE d.dns
      /\ e.defgw = IF two[n].def # None THEN two[n].def ELSE d.defgw
      /\ e = [ifs |-> e.ifs, items |-> e.items, defgw |-> e.defgw, dns |-> e.dns]
    BY ResultFields
<1> HIDE DEF d, e, one, two, n
<1>8. 0 \in T
    BY <1>1, <1>4, <1>5 DEF RunStart
<1>9. ASSUME NEW k \in 0..n, k < n, k \in T PROVE k + 1 \in T
    <2>1. k + 1 \in 1..n /\ k + 1 \in 0..n /\ (k + 1) - 1 = k
        BY <1>1, <1>9
    <2>2. two[k + 1] = ApplyEntry(Single(pl), two[k], pl[k + 1])
        BY <1>5, <2>1
    <2>3. RunOK(d, two[k])
        BY <1>6
    <2>4. Settled(two[k], pl[k + 1])
        BY <1>3, <1>9, <2>1 DEF Passed, Settled
    <2>5. two[k + 1].ifs = two[k].ifs /\ two[k + 1].items = two[k].items
        BY <2>2, <2>3, <2>4, SettledEntry
    <2> QED
        BY <1>9, <2>1, <2>5
<1> HIDE DEF T
<1>10. n \in T
    BY <1>1, <1>8, <1>9, InductUpTo
<1>11. two[n].ifs = one.ifs /\ two[n].items = one.items
    BY <1>10 DEF T
<1>12. \A j : Claims(pl, two[n], j) <=> Claims(pl, one, j)
    BY <1>11 DEF Claims
<1>13. two[n].def = one.def
    <2>1. Chosen(pl, n, one) /\ Chosen(pl, n, two[n])
        BY <1>3, <1>6 DEF Passed
    <2> QED
        BY <1>11, <1>12, <2>1 DEF Chosen
<1>14. \A x : x \in two[n].dns <=> x \in one.dns
    <2>1. Resolvers(pl, n, one) /\ Resolvers(pl, n, two[n])
        BY <1>3, <1>6 DEF Passed
    <2> QED
        BY <1>11, <2>1 DEF Resolvers
<1>15. two[n].dns = one.dns
    BY <1>14
<1>16. e.ifs = d.ifs /\ e.items = d.items /\ e.dns = d.dns /\ e.defgw = d.defgw
    BY <1>4, <1>7, <1>11, <1>13, <1>15
<1>17. e = d
    BY <1>4, <1>7, <1>16
<1> QED
    BY <1>17 DEF d, e

----------------------------------------------------------------------------
(* The plan: each entry is for the interface of one of the cards, so that no  *)
(* two entries are for the same NIC.                                         *)
LEMMA IfNameFacts ==
    ASSUME NEW mac, IfNameOf(mac, Ifaces) # None
    PROVE  \E i \in DOMAIN Ifaces : Ifaces[i].mac = mac /\ IfNameOf(mac, Ifaces) = Ifaces[i].name
<1> DEFINE I == {i \in 1..Len(Ifaces) : Ifaces[i].mac = mac}
           J == {j \in 0..Len(Ifaces) : Len(Ifaces) - j \in I}
           m == CHOOSE x \in I : \A y \in I : x >= y
<1>0. Len(Ifaces) \in Nat /\ DOMAIN Ifaces = 1..Len(Ifaces)
    BY IfaceAssumption
<1>1. SelectLastInSeq(Ifaces, LAMBDA i : i.mac = mac) = IF I # {} THEN Max(I) ELSE 0
    BY DEF SelectLastInSeq
<1>2. I # {}
    BY <1>1 DEF IfNameOf
<1>3. \E x \in I : \A y \in I : x >= y
    <2>1. J \subseteq Nat
        OBVIOUS
    <2>2. PICK i \in I : TRUE
        BY <1>2
    <2>3. Len(Ifaces) - i \in J
        BY <1>0
    <2>4. PICK k \in J : \A j \in J : k <= j
        <3> HIDE DEF J
        <3> QED
            BY <2>1, <2>3, LeastNat
    <2>5. Len(Ifaces) - k \in I
        OBVIOUS
    <2>6. ASSUME NEW y \in I PROVE Len(Ifaces) - k >= y
        <3>1. Len(Ifaces) - y \in J
            BY <1>0
        <3>2. k <= Len(Ifaces) - y
            BY <2>4, <3>1
        <3> QED
            BY <1>0, <3>2
    <2> QED
        BY <2>5, <2>6
<1>4. m \in I
    <2> HIDE DEF I
    <2> QED
        BY <1>3
<1>5. SelectLastInSeq(Ifaces, LAMBDA i : i.mac = mac) = m
    BY <1>1, <1>2 DEF Max
<1> HIDE DEF m
<1>6. m \in DOMAIN Ifaces /\ Ifaces[m].mac = mac /\ m # 0
    BY <1>0, <1>4
<1>7. IfNameOf(mac, Ifaces) = Ifaces[m].name
    BY <1>5, <1>6 DEF IfNameOf
<1> QED
    BY <1>6, <1>7

(* The recursive function of the loop over the cards. *)
PlanEquation(cards, n, f) ==
    f = [k \in 0..n |-> IF k = 0 THEN <<>> ELSE AddCard(f[k - 1], cards[k], Ifaces)]

(* There is such a function, for any number of cards. *)
LEMMA PlanExists ==
    ASSUME NEW cards, NEW n \in Nat
    PROVE  \E f : PlanEquation(cards, n, f)
<1> DEFINE T == {m \in 0..n : \E f : PlanEquation(cards, m, f)}
<1>1. 0 \in T
    <2> DEFINE g == [k \in 0..0 |-> <<>>]
    <2>1. PlanEquation(cards, 0, g)
        BY DEF PlanEquation
    <2> HIDE DEF g
    <2> QED
        BY <2>1
<1>2. ASSUME NEW m \in 0..n, m < n, m \in T PROVE m + 1 \in T
    <2>1. PICK f : PlanEquation(cards, m, f)
        BY <1>2
    <2> DEFINE h == [k \in 0..(m + 1) |->
                        IF k = m + 1 THEN AddCard(f[m], cards[m + 1], Ifaces) ELSE f[k]]
    <2>2. \A k \in 0..m : f[k] = IF k = 0 THEN <<>> ELSE AddCard(f[k - 1], cards[k], Ifaces)
        BY <2>1 DEF PlanEquation
    <2>3. ASSUME NEW k \in 0..(m + 1)
          PROVE  h[k] = IF k = 0 THEN <<>> ELSE AddCard(h[k - 1], cards[k], Ifaces)
        <3>1. CASE k = m + 1
            BY <1>2, <3>1
        <3>2. CASE k # m + 1
            BY <1>2, <2>2, <3>2
        <3> QED
            BY <3>1, <3>2
    <2>4. DOMAIN h = 0..(m + 1) /\ h = [k \in 0..(m + 1) |-> h[k]]
        OBVIOUS
    <2> HIDE DEF h
    <2>5. PlanEquation(cards, m + 1, h)
        BY <2>3, <2>4 DEF PlanEquation
    <2>6. m + 1 \in 0..n
        BY <1>2
    <2> QED
        BY <2>5, <2>6
<1>3. n \in T
    <2> HIDE DEF T
    <2> QED
        BY <1>1, <1>2, InductUpTo
<1> QED
    BY <1>3

(* It starts with no entry and takes AddCard at each turn. *)
LEMMA PlanTurns ==
    ASSUME NEW cards, Len(cards) \in Nat
    PROVE  /\ PlanSteps(cards, Ifaces)[0] = <<>>
           /\ \A k \in 1..Len(cards) :
                 PlanSteps(cards, Ifaces)[k] =
                     AddCard(PlanSteps(cards, Ifaces)[k - 1], cards[k], Ifaces)
<1> DEFINE f == PlanSteps(cards, Ifaces)
<1>1. \E g : g = [k \in 0..Len(cards) |->
                    IF k = 0 THEN <<>> ELSE AddCard(g[k - 1], cards[k], Ifaces)]
    <2>1. \E g : PlanEquation(cards, Len(cards), g)
        BY PlanExists
    <2>2. PICK g : PlanEquation(cards, Len(cards), g)
        BY <2>1
    <2>3. g = [k \in 0..Len(cards) |->
                  IF k = 0 THEN <<>> ELSE AddCard(g[k - 1], cards[k], Ifaces)]
        BY <2>2, Zenon DEF PlanEquation
    <2> QED
        BY <2>3, Zenon
<1>2. f = [k \in 0..Len(cards) |->
              IF k = 0 THEN <<>> ELSE AddCard(f[k - 1], cards[k], Ifaces)]
    BY <1>1 DEF PlanSteps
<1> HIDE DEF f
<1>3. \A k \in 0..Len(cards) :
          f[k] = IF k = 0 THEN <<>> ELSE AddCard(f[k - 1], cards[k], Ifaces)
    BY <1>2
<1>4. f[0] = <<>>
    BY <1>3
<1>5. \A k \in 1..Len(cards) : f[k] = AddCard(f[k - 1], cards[k], Ifaces)
    BY <1>3
<1> QED
    BY <1>4, <1>5 DEF f

IsTuple(pl) == pl \in Seq({pl[j] : j \in DOMAIN pl})

(* After k cards: each entry is for the interface of one of those cards. *)
FromCards(cards, k, pl) ==
    \A j \in DOMAIN pl :
        \E i \in 1..k : /\ IfNameOf(cards[i].mac, Ifaces) # None
                        /\ pl[j].nic = IfNameOf(cards[i].mac, Ifaces)

(* The next card: its interface is not that of an earlier card. *)
LEMMA PlanTurn ==
    ASSUME NEW cards \in CardLists, NEW k \in 0..Len(cards), k < Len(cards),
           NEW pl, IsPlan(pl), IsTuple(pl), FromCards(cards, k, pl)
    PROVE  LET new == AddCard(pl, cards[k + 1], Ifaces)
           IN  /\ IsPlan(new)
               /\ IsTuple(new)
               /\ FromCards(cards, k + 1, new)
<1> DEFINE card == cards[k + 1]
           nic == IfNameOf(card.mac, Ifaces)
           new == AddCard(pl, card, Ifaces)
           e == [nic |-> nic, ip |-> card.ip, gw |-> card.gw, dns |-> card.dns, mtu |-> card.mtu]
<1>0. /\ Len(cards) \in Nat /\ DOMAIN cards = 1..Len(cards)
      /\ \A i, j \in DOMAIN cards : cards[i].mac = cards[j].mac => i = j
    BY CardAssumption
<1>1. /\ k + 1 \in 1..Len(cards)
      /\ 1..(k + 1) = (1..k) \cup {k + 1}
      /\ \A j \in 1..k : j \in 1..Len(cards) /\ j # k + 1
    BY <1>0
<1>2. CASE ~(nic # None /\ card.ip # None)
    <2>1. new = pl
        BY <1>2 DEF AddCard
    <2> QED
        BY <1>1, <2>1 DEF FromCards
<1>3. CASE nic # None /\ card.ip # None
    <2>1. new = Append(pl, e)
        BY <1>3 DEF AddCard
    <2>2. e.nic = nic
        OBVIOUS
    <2>3. \A j \in DOMAIN pl : pl[j].nic # nic
        <3> SUFFICES ASSUME NEW j \in DOMAIN pl, pl[j].nic = nic PROVE FALSE
            OBVIOUS
        <3>1. PICK i \in 1..k : /\ IfNameOf(cards[i].mac, Ifaces) # None
                                /\ pl[j].nic = IfNameOf(cards[i].mac, Ifaces)
            BY DEF FromCards
        <3>2. PICK x \in DOMAIN Ifaces : Ifaces[x].mac = cards[i].mac /\ pl[j].nic = Ifaces[x].name
            BY <3>1, IfNameFacts
        <3>3. PICK y \in DOMAIN Ifaces : Ifaces[y].mac = card.mac /\ nic = Ifaces[y].name
            BY <1>3, IfNameFacts
        <3>4. x = y
            BY <3>2, <3>3, IfaceAssumption
        <3>5. cards[i].mac = cards[k + 1].mac
            BY <3>2, <3>3, <3>4
        <3> QED
            BY <1>0, <1>1, <3>5
    <2> HIDE DEF e, new
    <2>4. /\ Len(new) = Len(pl) + 1 /\ Len(new) \in Nat
          /\ DOMAIN new = 1..(Len(pl) + 1)
          /\ DOMAIN new = DOMAIN pl \cup {Len(pl) + 1}
          /\ new[Len(pl) + 1] = e
          /\ \A j \in DOMAIN pl : new[j] = pl[j]
        BY <2>1 DEF IsPlan, IsTuple
    <2>5. IsPlan(new)
        BY <2>2, <2>3, <2>4 DEF IsPlan
    <2>6. IsTuple(new)
        BY <2>1, <2>4 DEF IsTuple
    <2>7. FromCards(cards, k + 1, new)
        BY <1>1, <1>3, <2>2, <2>4 DEF FromCards
    <2> QED
        BY <2>5, <2>6, <2>7 DEF new
<1> QED
    BY <1>2, <1>3

(* The plan of any metadata names a NIC once. *)
LEMMA PlanOfIsPlan ==
    ASSUME NEW cards \in CardLists
    PROVE  IsPlan(PlanOf(cards, Ifaces))
<1> DEFINE f == PlanSteps(cards, Ifaces)
           n == Len(cards)
           T == {k \in 0..n : /\ IsPlan(f[k])
                              /\ IsTuple(f[k])
                              /\ FromCards(cards, k, f[k])}
<1>1. n \in Nat
    BY CardAssumption
<1>2. f[0] = <<>> /\ \A k \in 1..n : f[k] = AddCard(f[k - 1], cards[k], Ifaces)
    BY <1>1, PlanTurns
<1> HIDE DEF f
<1>3. 0 \in T
    <2>1. IsPlan(<<>>) /\ IsTuple(<<>>) /\ FromCards(cards, 0, <<>>)
        BY DEF IsPlan, IsTuple, FromCards
    <2> QED
        BY <1>1, <1>2, <2>1
<1>4. ASSUME NEW k \in 0..n, k < n, k \in T PROVE k + 1 \in T
    <2>1. k + 1 \in 1..n /\ k + 1 \in 0..n /\ (k + 1) - 1 = k
        BY <1>1, <1>4
    <2>2. f[k + 1] = AddCard(f[k], cards[k + 1], Ifaces)
        BY <1>2, <2>1
    <2> QED
        BY <1>4, <2>1, <2>2, PlanTurn
<1> HIDE DEF T
<1>5. n \in T
    <2>1. n \in 0..n
        BY <1>1
    <2> QED
        BY <1>1, <1>3, <1>4, <2>1, InductUpTo
<1> QED
    BY <1>5 DEF T, f, PlanOf

----------------------------------------------------------------------------
(* The inductive invariant.  What is on disk is a sound section, with the     *)
(* roles of the snapshot; after the plan loop it is exactly what the loop     *)
(* makes of the snapshot; during apply.php the kernel runs the roles that are *)
(* configured as they are on disk and, if it ran the disk before, lags behind *)
(* it only in those still to configure; the last plan that was not reverted,  *)
(* run again, would change nothing.                                          *)
FlowInv ==
    /\ pc \in {"off", "snapshot", "write", "configure", "probe", "killed",
               "restore", "restored"}
    /\ IsPlan(plan)
    /\ pc \in {"snapshot", "write"} => plan # <<>>
    /\ pc # "configure" => todo = {}
    /\ pc \notin {"configure", "probe"} => def = None

DiskInv ==
    /\ SectionOK(cfg)
    /\ SectionOK(snap)
    /\ DOMAIN cfg.ifs \ DOMAIN snap.ifs \subseteq {"lan"}
    /\ \A r \in DOMAIN snap.ifs : r \in DOMAIN cfg.ifs /\ cfg.ifs[r].nic = snap.ifs[r].nic
    /\ pc \in {"write", "restore", "restored"} => cfg = snap
    /\ Written => cfg = ApplyPlan(snap, plan).c
    /\ Written => def = ApplyPlan(snap, plan).def
    /\ todo \subseteq DOMAIN cfg.ifs
    /\ def \in DOMAIN cfg.items \cup {None}

Lags ==
    /\ IsFunction(live)
    /\ DOMAIN live \subseteq DOMAIN cfg.ifs
    /\ \A r \in DOMAIN cfg.ifs \ todo : r \in DOMAIN live /\ live[r] = cfg.ifs[r]

Loaded ==
    \A r \in ApplyPlan(snap, plan).applied \ todo : r \in DOMAIN live /\ live[r] = cfg.ifs[r]

LiveInv ==
    /\ pc = "write" /\ synced => live = cfg.ifs
    /\ pc = "configure" => plan # <<>> /\ Loaded /\ (synced => Lags)
    /\ LiveAfterApply
    /\ pc = "restored" =>
          /\ \A r \in DOMAIN snap.ifs : live[r] = snap.ifs[r]
          /\ route = RouteOf(snap)

LastInv ==
    /\ IsPlan(last)
    /\ last # <<>> => ApplyPlan(cfg, last).c = cfg

NetInv == FlowInv /\ DiskInv /\ LiveInv /\ LastInv


(* What apply.php writes, from what it found. *)
LEMMA ResultFacts ==
    ASSUME NEW c, SectionOK(c), NEW pl, IsPlan(pl)
    PROVE  LET res == ApplyPlan(c, pl)
           IN  /\ SectionOK(res.c)
               /\ DOMAIN c.ifs \subseteq DOMAIN res.c.ifs
               /\ DOMAIN res.c.ifs \ DOMAIN c.ifs \subseteq {"lan"}
               /\ \A r \in DOMAIN c.ifs : res.c.ifs[r].nic = c.ifs[r].nic
               /\ res.applied \subseteq DOMAIN res.c.ifs
               /\ \A r \in DOMAIN res.c.ifs \ res.applied :
                     r \in DOMAIN c.ifs /\ res.c.ifs[r] = c.ifs[r]
               /\ res.def \in DOMAIN res.c.items \cup {None}
<1> DEFINE run == ApplySteps(c, pl)[Len(pl)]
           res == ApplyPlan(c, pl)
<1>1. RunOK(c, run)
    BY PlanResult
<1>2. /\ res.def = run.def
      /\ res.applied = run.applied
      /\ res.c.ifs = run.ifs
      /\ res.c.items = run.items
    BY DEF ApplyPlan
<1>3. SectionOK(res.c)
    BY ResultSection
<1> HIDE DEF run, res
<1>4. /\ DOMAIN c.ifs \subseteq DOMAIN res.c.ifs
      /\ DOMAIN res.c.ifs \ DOMAIN c.ifs \subseteq {"lan"}
      /\ \A r \in DOMAIN c.ifs : res.c.ifs[r].nic = c.ifs[r].nic
      /\ res.applied \subseteq DOMAIN res.c.ifs
      /\ \A r \in DOMAIN res.c.ifs \ res.applied :
            r \in DOMAIN c.ifs /\ res.c.ifs[r] = c.ifs[r]
      /\ res.def \in DOMAIN res.c.items \cup {None}
    BY <1>1, <1>2 DEF RunOK
<1> QED
    BY <1>3, <1>4 DEF res

(* A box as it comes. *)
LEMMA NetInit ==
    ASSUME Init
    PROVE  NetInv
<1>1. SectionOK(cfg)
    BY ConfigAssumption DEF Init
<1>2. IsPlan(<<>>)
    BY DEF IsPlan
<1>3. FlowInv
    BY <1>2 DEF Init, FlowInv
<1>4. DiskInv
    BY <1>1 DEF Init, DiskInv, Written
<1>5. LiveInv
    BY DEF Init, LiveInv, LiveAfterApply
<1>6. LastInv
    BY <1>2 DEF Init, LastInv
<1> QED
    BY <1>3, <1>4, <1>5, <1>6 DEF NetInv

(* A start, of the box or of the agent alone: the plan is one of PlanOf. *)
LEMMA StartStep ==
    ASSUME NetInv, Start
    PROVE  NetInv'
<1>1. PICK cards \in CardLists : plan' = PlanOf(cards, Ifaces)
    BY DEF Start
<1>2. IsPlan(plan')
    BY <1>1, PlanOfIsPlan
<1>3. FlowInv'
    BY <1>2 DEF Start, NetInv, FlowInv, IsPlan
<1>4. DiskInv'
    BY DEF Start, NetInv, FlowInv, DiskInv, Written
<1>5. LiveInv'
    BY DEF Start, NetInv, FlowInv, LiveInv, LiveAfterApply
<1>6. LastInv'
    BY DEF Start, NetInv, LastInv
<1> QED
    BY <1>3, <1>4, <1>5, <1>6 DEF NetInv

(* snapshot.php: from here on the snapshot is what the apply starts from. *)
LEMMA SnapshotStep ==
    ASSUME NetInv, Snapshot
    PROVE  NetInv'
<1>1. FlowInv'
    BY DEF Snapshot, NetInv, FlowInv
<1>2. DiskInv'
    BY DEF Snapshot, NetInv, FlowInv, DiskInv, Written
<1>3. LiveInv'
    BY DEF Snapshot, NetInv, LiveInv, LiveAfterApply
<1>4. LastInv'
    BY DEF Snapshot, NetInv, LastInv
<1> QED
    BY <1>1, <1>2, <1>3, <1>4 DEF NetInv

(* The plan loop and write_config(): a fixed point of the plan is on disk. *)
LEMMA ApplyWriteStep ==
    ASSUME NetInv, ApplyWrite
    PROVE  NetInv'
<1> DEFINE res == ApplyPlan(cfg, plan)
<1>1. /\ pc = "write" /\ pc' = "configure"
      /\ cfg' = res.c /\ todo' = res.applied /\ def' = res.def
      /\ last' = plan
      /\ plan' = plan /\ live' = live /\ route' = route /\ snap' = snap
      /\ synced' = synced
    BY DEF ApplyWrite
<1>2. /\ cfg = snap /\ SectionOK(cfg) /\ IsPlan(plan) /\ plan # <<>>
      /\ synced => live = cfg.ifs
    BY <1>1 DEF NetInv, FlowInv, DiskInv, LiveInv
<1>3. /\ SectionOK(res.c)
      /\ DOMAIN cfg.ifs \subseteq DOMAIN res.c.ifs
      /\ DOMAIN res.c.ifs \ DOMAIN cfg.ifs \subseteq {"lan"}
      /\ \A r \in DOMAIN cfg.ifs : res.c.ifs[r].nic = cfg.ifs[r].nic
      /\ res.applied \subseteq DOMAIN res.c.ifs
      /\ \A r \in DOMAIN res.c.ifs \ res.applied :
            r \in DOMAIN cfg.ifs /\ res.c.ifs[r] = cfg.ifs[r]
      /\ res.def \in DOMAIN res.c.items \cup {None}
    BY <1>2, ResultFacts
<1>4. ApplyPlan(res.c, plan).c = res.c
    BY <1>2, ApplyTwice
<1>5. /\ cfg' = ApplyPlan(snap', plan').c /\ def' = ApplyPlan(snap', plan').def
      /\ todo' = ApplyPlan(snap', plan').applied
    BY <1>1, <1>2
<1> HIDE DEF res
<1>6. FlowInv'
    BY <1>1, <1>2 DEF FlowInv
<1>7. DiskInv'
    BY <1>1, <1>2, <1>3, <1>5 DEF DiskInv
<1>8. LiveInv'
    <2>1. synced => IsFunction(live)
        BY <1>2 DEF SectionOK, IfsOK, IsFunction
    <2>2. synced => Lags'
        BY <1>1, <1>2, <1>3, <2>1 DEF Lags
    <2>3. Loaded'
        BY <1>5 DEF Loaded
    <2> QED
        BY <1>1, <1>2, <2>2, <2>3 DEF LiveInv, LiveAfterApply
<1>9. LastInv'
    BY <1>1, <1>2, <1>4 DEF LastInv
<1> QED
    BY <1>6, <1>7, <1>8, <1>9 DEF NetInv

(* One more role runs as it is on disk. *)
LEMMA ConfigureStep ==
    ASSUME NetInv, Configure
    PROVE  NetInv'
<1>1. PICK r \in todo : live' = Put(live, r, cfg.ifs[r]) /\ todo' = todo \ {r}
    BY DEF Configure
<1>2. FlowInv'
    BY DEF Configure, NetInv, FlowInv
<1>3. DiskInv'
    BY <1>1 DEF Configure, NetInv, DiskInv, Written
<1>4. LiveInv'
    <2>1. /\ pc = "configure" /\ plan # <<>> /\ r \in DOMAIN cfg.ifs
          /\ Loaded /\ (synced => Lags)
        BY <1>1 DEF Configure, NetInv, DiskInv, LiveInv
    <2>2. IsFunction(live')
        BY <1>1 DEF IsFunction, Put
    <2>3. DOMAIN live' = DOMAIN live \cup {r}
        BY <1>1 DEF Put
    <2>4. \A q \in DOMAIN live' : live'[q] = IF q = r THEN cfg.ifs[r] ELSE live[q]
        BY <1>1 DEF Put
    <2>5. cfg' = cfg /\ snap' = snap /\ plan' = plan /\ synced' = synced /\ pc' = pc
        BY DEF Configure
    <2>6. Loaded'
        BY <1>1, <2>1, <2>3, <2>4, <2>5 DEF Loaded
    <2>7. synced => Lags'
        BY <1>1, <2>1, <2>2, <2>3, <2>4, <2>5 DEF Lags
    <2> QED
        BY <2>1, <2>5, <2>6, <2>7 DEF LiveInv, LiveAfterApply
<1>5. LastInv'
    BY DEF Configure, NetInv, LastInv
<1> QED
    BY <1>2, <1>3, <1>4, <1>5 DEF NetInv

(* The end of apply.php: no role is left to configure. *)
LEMMA RoutingStep ==
    ASSUME NetInv, Routing
    PROVE  NetInv'
<1>1. FlowInv'
    BY DEF Routing, NetInv, FlowInv
<1>2. DiskInv'
    BY DEF Routing, NetInv, DiskInv, Written
<1>3. synced => live = cfg.ifs
    <2> SUFFICES ASSUME synced PROVE live = cfg.ifs
        OBVIOUS
    <2> DEFINE f == live
               g == cfg.ifs
    <2>1. /\ IsFunction(f) /\ DOMAIN f \subseteq DOMAIN g
          /\ \A r \in DOMAIN g : r \in DOMAIN f /\ f[r] = g[r]
        BY DEF Routing, NetInv, LiveInv, Lags
    <2>2. g = [r \in DOMAIN g |-> g[r]]
        BY DEF NetInv, DiskInv, SectionOK, IfsOK
    <2> HIDE DEF f, g
    <2>3. f = g
        BY <2>1, <2>2 DEF IsFunction
    <2> QED
        BY <2>3 DEF f, g
<1>4. ASSUME NEW k \in DOMAIN plan, NEW r, r = LogicalOf(cfg.ifs, plan[k].nic), r # None
      PROVE  r \in DOMAIN live /\ live[r] = cfg.ifs[r]
    <2> DEFINE res == ApplyPlan(snap, plan)
               run == ApplySteps(snap, plan)[Len(plan)]
    <2>1. SectionOK(snap) /\ IsPlan(plan) /\ cfg = res.c /\ todo = {} /\ Loaded
        BY DEF Routing, NetInv, FlowInv, DiskInv, LiveInv, Written
    <2>2. Passed(snap, plan, Len(plan), run)
        BY <2>1, PlanResult
    <2>3. cfg.ifs = run.ifs /\ res.applied = run.applied
        BY <2>1 DEF ApplyPlan
    <2>4. DOMAIN plan = 1..Len(plan)
        BY <2>1 DEF IsPlan
    <2> HIDE DEF run
    <2>5. r \in run.applied
        BY <1>4, <2>2, <2>3, <2>4 DEF Passed, Listed
    <2> QED
        BY <2>1, <2>3, <2>5 DEF Loaded
<1>6. LiveInv'
    BY <1>3, <1>4 DEF Routing, NetInv, LiveInv, LiveAfterApply
<1>5. LastInv'
    BY DEF Routing, NetInv, LastInv
<1> QED
    BY <1>1, <1>2, <1>5, <1>6 DEF NetInv

(* A kill forgets what the script had in memory. *)
LEMMA KilledStep ==
    ASSUME NetInv, Killed
    PROVE  NetInv'
<1>1. FlowInv'
    BY DEF Killed, NetInv, FlowInv
<1>2. DiskInv'
    BY DEF Killed, NetInv, DiskInv, Written
<1>3. LiveInv'
    BY DEF Killed, NetInv, LiveInv, LiveAfterApply
<1>4. LastInv'
    BY DEF Killed, NetInv, LastInv
<1> QED
    BY <1>1, <1>2, <1>3, <1>4 DEF NetInv

(* The end of a start, or of the agent, forgets what is in memory only. *)
LEMMA StopStep ==
    ASSUME NetInv, Done \/ Stop
    PROVE  NetInv'
<1>1. /\ pc' = "off" /\ plan' = <<>> /\ snap' = cfg /\ todo' = {} /\ def' = None
      /\ UNCHANGED <<cfg, live, route, last>>
    BY DEF Done, Stop, Forget
<1>2. IsPlan(<<>>)
    BY DEF IsPlan
<1>3. FlowInv'
    BY <1>1, <1>2 DEF FlowInv
<1>4. DiskInv'
    BY <1>1 DEF NetInv, DiskInv, Written
<1>5. LiveInv'
    BY <1>1 DEF LiveInv, LiveAfterApply
<1>6. LastInv'
    BY <1>1 DEF NetInv, LastInv
<1> QED
    BY <1>3, <1>4, <1>5, <1>6 DEF NetInv

(* restore.php writes: the disk is the snapshot. *)
LEMMA RestoreWriteStep ==
    ASSUME NetInv, RestoreWrite
    PROVE  NetInv'
<1>1. FlowInv'
    BY DEF RestoreWrite, NetInv, FlowInv
<1>2. DiskInv'
    BY DEF RestoreWrite, NetInv, FlowInv, DiskInv, Written
<1>3. LiveInv'
    BY DEF RestoreWrite, NetInv, LiveInv, LiveAfterApply
<1>4. LastInv'
    <2>1. IsPlan(<<>>)
        BY DEF IsPlan
    <2> QED
        BY <2>1 DEF RestoreWrite, LastInv
<1> QED
    BY <1>1, <1>2, <1>3, <1>4 DEF NetInv

(* restore.php reloads: the kernel is the snapshot too. *)
LEMMA RestoreLiveStep ==
    ASSUME NetInv, RestoreLive
    PROVE  NetInv'
<1>1. FlowInv'
    BY DEF RestoreLive, NetInv, FlowInv
<1>2. DiskInv'
    BY DEF RestoreLive, NetInv, DiskInv, Written
<1>3. LiveInv'
    <2>1. cfg = snap
        BY DEF RestoreLive, NetInv, DiskInv
    <2>2. \A r \in DOMAIN cfg.ifs : Over(cfg.ifs, live)[r] = cfg.ifs[r]
        BY DEF Over
    <2> QED
        BY <2>1, <2>2 DEF RestoreLive, LiveInv, LiveAfterApply
<1>4. LastInv'
    BY DEF RestoreLive, NetInv, LastInv
<1> QED
    BY <1>1, <1>2, <1>3, <1>4 DEF NetInv

(* Every step of the scripts and of the box. *)
LEMMA NetStep ==
    ASSUME NetInv, [Next]_vars
    PROVE  NetInv'
<1>1. CASE UNCHANGED vars
    BY <1>1 DEF vars, NetInv, FlowInv, DiskInv, LiveInv, LastInv, Written, LiveAfterApply,
       Lags, Loaded
<1>2. CASE Next
    BY <1>2, StartStep, SnapshotStep, ApplyWriteStep, ConfigureStep, RoutingStep, KilledStep, StopStep,
       RestoreWriteStep, RestoreLiveStep DEF Next
<1> QED
    BY <1>1, <1>2

(* The invariant holds in every run of the scripts, over any starts of the    *)
(* box or of the agent alone, power losses and kills.                        *)
THEOREM ScriptInvariant == Spec => []NetInv
<1>1. Init => NetInv
    BY NetInit
<1>2. NetInv /\ [Next]_vars => NetInv'
    BY NetStep
<1> QED
    BY <1>1, <1>2, PTL DEF Spec

----------------------------------------------------------------------------
(* config.xml names only gateways it defines, and only roles on disk are      *)
(* reloaded: wherever apply.php is stopped.                                  *)
THEOREM SectionStaysSound == Spec => []TypeOK
<1>1. NetInv => TypeOK
    BY DEF NetInv, FlowInv, DiskInv, SectionOK, ItemsOK, TypeOK
<1> QED
    BY <1>1, ScriptInvariant, PTL

(* A role keeps its NIC through every apply and restore, only lan may be new, *)
(* and no NIC ever holds two roles.                                          *)
THEOREM RolesAreKept == Spec => []RolesKept
<1>1. NetInv => RolesKept
    BY DEF NetInv, DiskInv, SectionOK, IfsOK, RolesKept
<1> QED
    BY <1>1, ScriptInvariant, PTL

(* When apply.php has ended the kernel runs every planned NIC as it is on     *)
(* disk, the route of a default gateway that the script chose included, and   *)
(* all of the disk if it did so before: also when the agent was restarted in  *)
(* a kernel that a reverted apply has left with roles of its own.            *)
THEOREM KernelFollowsDisk == Spec => []LiveAfterApply
<1>1. NetInv => LiveAfterApply
    BY DEF NetInv, LiveInv
<1> QED
    BY <1>1, ScriptInvariant, PTL

(* A completed restore.php undoes the apply, on disk and in the kernel. *)
THEOREM RestoreUndoes == Spec => []RestoreExact
<1>1. NetInv => RestoreExact
    BY DEF NetInv, DiskInv, LiveInv, RestoreExact
<1> QED
    BY <1>1, ScriptInvariant, PTL

(* Every planned NIC that has a role has its planned address and gateway      *)
(* there, and a role that no planned NIC holds is as it was.                 *)
THEOREM PlanIsApplied == Spec => []PlanApplied
<1>1. ASSUME NetInv PROVE PlanApplied
    <2> SUFFICES ASSUME Written PROVE PlanApplied
        BY DEF PlanApplied
    <2> DEFINE run == ApplySteps(snap, plan)[Len(plan)]
    <2>1. SectionOK(snap) /\ IsPlan(plan) /\ cfg = ApplyPlan(snap, plan).c
        BY <1>1 DEF NetInv, FlowInv, DiskInv
    <2>2. RunOK(snap, run) /\ Passed(snap, plan, Len(plan), run)
        BY <2>1, PlanResult
    <2>3. cfg.ifs = run.ifs /\ cfg.items = run.items
        BY <2>1 DEF ApplyPlan
    <2>4. DOMAIN plan = 1..Len(plan)
        BY <2>1 DEF IsPlan
    <2> HIDE DEF run
    <2>5. ASSUME NEW k \in DOMAIN plan, NEW r, r = LogicalOf(cfg.ifs, plan[k].nic)
          PROVE  IF r = None
                 THEN "lan" \in DOMAIN cfg.ifs
                 ELSE /\ cfg.ifs[r].ip = plan[k].ip
                      /\ (plan[k].gw = None) = (cfg.ifs[r].gw = None)
                      /\ plan[k].gw # None => cfg.items[cfg.ifs[r].gw] = plan[k].gw
        <3>1. Settled(run, plan[k])
            BY <2>2, <2>4 DEF Passed
        <3> QED
            BY <2>3, <2>5, <3>1 DEF Settled
    <2>6. \A r \in DOMAIN cfg.ifs :
              (\A k \in DOMAIN plan : plan[k].nic # cfg.ifs[r].nic) =>
                  r \in DOMAIN snap.ifs /\ cfg.ifs[r] = snap.ifs[r]
        BY <2>2, <2>3, <2>4 DEF Passed, Untouched
    <2> QED
        BY <2>5, <2>6 DEF PlanApplied
<1> QED
    BY <1>1, ScriptInvariant, PTL

(* The default gateway changes only to wan's or to the only one of the plan,  *)
(* and the only one does become the default route when its NIC has a role.   *)
THEOREM RouteIsNotGuessed == Spec => []DefaultRoute
<1>1. ASSUME NetInv PROVE DefaultRoute
    <2> SUFFICES ASSUME Written PROVE DefaultRoute
        BY DEF DefaultRoute
    <2> DEFINE run == ApplySteps(snap, plan)[Len(plan)]
    <2>1. SectionOK(snap) /\ IsPlan(plan) /\ cfg = ApplyPlan(snap, plan).c
        BY <1>1 DEF NetInv, FlowInv, DiskInv
    <2>2. RunOK(snap, run) /\ Passed(snap, plan, Len(plan), run)
        BY <2>1, PlanResult
    <2>3. /\ cfg.ifs = run.ifs /\ cfg.items = run.items
          /\ cfg.defgw = IF run.def # None THEN run.def ELSE snap.defgw
        BY <2>1 DEF ApplyPlan
    <2>4. DOMAIN plan = 1..Len(plan)
        BY <2>1 DEF IsPlan
    <2> HIDE DEF run
    <2>5. Chosen(plan, Len(plan), run)
        BY <2>2 DEF Passed
    <2>6. ASSUME cfg.defgw # snap.defgw
          PROVE  \E k \in Gateways(plan) :
                     /\ cfg.defgw = LogicalOf(cfg.ifs, plan[k].nic)
                     /\ cfg.defgw = "wan" \/ Gateways(plan) = {k}
        <3>1. run.def # None /\ cfg.defgw = run.def
            BY <2>3, <2>6
        <3>2. PICK j \in 1..Len(plan) :
                  Claims(plan, run, j) /\ run.def = LogicalOf(run.ifs, plan[j].nic)
            BY <2>5, <3>1 DEF Chosen
        <3>3. j \in Gateways(plan)
            BY <2>4, <3>2 DEF Claims, BecomesDefault, Gateways
        <3>4. cfg.defgw = "wan" \/ Single(plan)
            BY <3>1, <3>2 DEF Claims, BecomesDefault
        <3>5. cfg.defgw = "wan" \/ Gateways(plan) = {j}
            BY <3>3, <3>4 DEF Single
        <3> QED
            BY <2>3, <3>1, <3>2, <3>3, <3>5
    <2>7. ASSUME NEW k \in DOMAIN plan, Gateways(plan) = {k},
                 LogicalOf(cfg.ifs, plan[k].nic) # None
          PROVE  RouteOf(cfg) = plan[k].gw
        <3> DEFINE r == LogicalOf(run.ifs, plan[k].nic)
        <3>1. plan[k].gw # None /\ Single(plan)
            BY <2>7 DEF Gateways, Single
        <3>2. r # None /\ Claims(plan, run, k)
            BY <2>3, <2>7, <3>1 DEF Claims, BecomesDefault
        <3>3. run.def = r
            BY <2>4, <2>5, <3>2 DEF Chosen
        <3>4. Settled(run, plan[k])
            BY <2>2, <2>4 DEF Passed
        <3>5. r \in DOMAIN run.items /\ run.items[r] = plan[k].gw
            BY <3>1, <3>2, <3>4 DEF Settled
        <3> HIDE DEF r
        <3> QED
            BY <2>3, <3>2, <3>3, <3>5 DEF RouteOf
    <2> QED
        BY <2>6, <2>7 DEF DefaultRoute
<1> QED
    BY <1>1, ScriptInvariant, PTL

(* A start that runs the last plan again, when nothing reverted it, leaves     *)
(* config.xml as it is.                                                      *)
THEOREM RetryChangesNothing == Spec => RetryIdempotent
<1>1. ASSUME NetInv, [Next]_vars
      PROVE  [pc = "write" /\ plan = last => cfg' = cfg]_vars
    <2> SUFFICES ASSUME Next, pc = "write", plan = last PROVE cfg' = cfg
        BY <1>1
    <2>1. plan # <<>> /\ ApplyPlan(cfg, last).c = cfg
        BY <1>1 DEF NetInv, FlowInv, LastInv
    <2>2. CASE ApplyWrite
        BY <2>1, <2>2 DEF ApplyWrite
    <2>3. CASE Killed \/ Stop
        BY <2>3 DEF Killed, Stop
    <2> QED
        BY <2>2, <2>3 DEF Next, Start, Snapshot, Configure, Routing, Done, RestoreWrite, RestoreLive
<1> QED
    BY <1>1, ScriptInvariant, PTL DEF Spec, RetryIdempotent
=============================================================================
