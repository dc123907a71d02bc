----------------------------- MODULE RuleTables -----------------------------
(***************************************************************************)
(* The firewall and NAT commands (pfsense.firewall and pfsense.nat): the    *)
(* manager's List/Create/Delete calls and the scripts firewall/ and nat/    *)
(* they run, beside an administrator in the webConfigurator.                *)
(*                                                                          *)
(* A script reads config.xml into memory when it starts, changes one rule   *)
(* table there, writes the WHOLE file back with write_config() and reloads  *)
(* pf with filter_configure().  The executor kills it after 30 s, the box   *)
(* may reboot, and the webConfigurator does the same load/save on its own.  *)
(* The agent runs one command at a time.                                    *)
(*                                                                          *)
(* cfg and live map each table to a sequence of rules, in evaluation order. *)
(* A rule has its tracker, the serial number of the command that made it    *)
(* (history; Gui for the administrator's), its destination as stored, and   *)
(* whether the administrator has edited it since (history).  The other      *)
(* fields travel like the destination and are left out.                     *)
(***************************************************************************)
EXTENDS Naturals, Sequences, SequencesExt

CONSTANTS
    Specs,     \* address specs the caller may send; "" when it sends none
    Trim,      \* trim(): a spec without the blanks around it
    AnySpecs,  \* the trimmed ones that mean any: "", "any" in any case
    IpSpecs,   \* the trimmed ones that start with an IP address
    OwnIp,     \* "<interface>ip", the interface's own address
    Boxes,     \* rule tables a box may come with
    Start,     \* the time the agent starts at, in milliseconds
    Gui, Closed,
    MaxCalls, MaxEdits, MaxKills   \* bounds

ASSUME SpecAssumption ==
    /\ Specs \cup {"", "any", OwnIp} \subseteq DOMAIN Trim
    /\ \A s \in DOMAIN Trim :
          Trim[s] \in STRING /\ Trim[s] \in DOMAIN Trim /\ Trim[Trim[s]] = Trim[s]
    /\ \A s \in {"", "any", OwnIp} : Trim[s] = s
    /\ {"", "any"} \subseteq AnySpecs
    /\ OwnIp \in STRING \ (AnySpecs \cup IpSpecs)
ASSUME BoundAssumption ==
    Start \in Nat /\ MaxCalls \in Nat /\ MaxEdits \in Nat /\ MaxKills \in Nat
ASSUME GuiAssumption == Gui \notin Nat

Tables == {"filter", "nat"}

(* An address as config.xml stores it, and a rule. *)
Addresses == [any : {""}] \cup [address : STRING] \cup [network : STRING]
Rules == [tracker : Nat, by : Nat \cup {Gui}, dst : Addresses, edited : BOOLEAN]

(* The box's own rules are the administrator's, each with a tracker of its   *)
(* own from an earlier time.                                                 *)
ASSUME BoxAssumption ==
    \A box \in Boxes :
        /\ box \in [Tables -> Seq(Rules)]
        /\ \A t \in Tables : \A i, j \in DOMAIN box[t] :
              /\ box[t][i].by = Gui
              /\ box[t][i].tracker <= Start
              /\ box[t][i].tracker = box[t][j].tracker => i = j

VARIABLES
    cfg,      \* config.xml
    live,     \* what pf enforces
    clock,    \* milliseconds
    pc,       \* where the agent's script is
    job,      \* the command
    mem,      \* the script's $config
    result,   \* what the last command reported
    created,  \* history: the rules whose create was reported completed
    page,     \* the administrator's $config, or Closed
    base,     \* history: cfg when the command came
    raced,    \* history: the administrator saved since then
    calls, edits, kills

counts == <<calls, edits, kills>>
vars == <<cfg, live, clock, pc, job, mem, result, created, page, base, raced, counts>>

NoResult == [status |-> "none", out |-> <<>>]
NoJob == [op |-> "none", table |-> "filter", dst |-> "", tracker |-> 0, bad |-> FALSE, serial |-> 0]

Init ==
    /\ cfg \in Boxes
    /\ live = cfg
    /\ clock = Start
    /\ pc = "idle"
    /\ job = NoJob
    /\ mem = cfg
    /\ result = NoResult
    /\ created = {}
    /\ page = Closed
    /\ base = cfg
    /\ raced = FALSE
    /\ calls = 0 /\ edits = 0 /\ kills = 0

----------------------------------------------------------------------------
(* parse_address_spec of create.php and format_address_spec of list.php. *)
Parse(spec) ==
    IF Trim[spec] \in AnySpecs THEN [any |-> ""]
    ELSE IF Trim[spec] \in IpSpecs THEN [address |-> Trim[spec]]
    ELSE [network |-> Trim[spec]]

Format(addr) ==
    IF "any" \in DOMAIN addr THEN "any"
    ELSE IF "network" \in DOMAIN addr THEN addr.network
    ELSE addr.address

(* Seeded fault: no default for a port-forward. *)
StoredAsSent(table, spec) == Parse(spec)

(* An omitted destination of a port-forward is the interface's own address; *)
(* one of blanks only is not omitted, and means any.                        *)
Stored(table, spec) ==
    Parse(IF table = "nat" /\ spec = "" THEN OwnIp ELSE spec)

(* Seeded fault: a tracker that follows the position in the table. *)
TrackerByPosition(rules) == Len(rules) + 1

(* microtime() at the run of the script, which is later than any before. *)
Tracker(rules) == clock'

(* The first rule with the tracker; 0 when there is none. *)
Find(rules, t) == SelectInSeq(rules, LAMBDA r : r.tracker = t)

(* create.php: a required field is missing (for a filter rule that includes  *)
(* the destination), or the action or protocol is not one it knows.          *)
BadInput(c) == c.bad \/ (c.table = "filter" /\ c.dst = "")

----------------------------------------------------------------------------
Answer(s, out) == result' = [status |-> s, out |-> out] /\ pc' = "idle"

(* A command of the platform.  Delete with an empty tracker is refused       *)
(* before a script runs.                                                     *)
Call ==
    /\ pc = "idle"
    /\ calls < MaxCalls
    /\ calls' = calls + 1
    /\ raced' = FALSE
    /\ base' = cfg
    /\ \E op \in {"list", "create", "delete"}, t \in Tables, s \in Specs, n \in 0..clock,
          b \in BOOLEAN :
          /\ op # "create" => s = "" /\ ~b
          /\ op # "delete" => n = 0
          /\ job' = [op |-> op, table |-> t, dst |-> s, tracker |-> n, bad |-> b,
                     serial |-> calls']
          /\ IF op = "delete" /\ n = 0
             THEN Answer("failed", <<>>)
             ELSE pc' = "start" /\ result' = NoResult
    /\ UNCHANGED <<cfg, live, clock, mem, created, page, edits, kills>>

(* The script starts: config.inc reads config.xml; the clock has moved on.   *)
Load ==
    /\ clock' = clock + 1
    /\ mem' = cfg
    /\ UNCHANGED <<cfg, live, created, page, base, raced, counts>>

RunList ==
    /\ pc = "start"
    /\ job.op = "list"
    /\ Load
    /\ Answer("completed", [k \in DOMAIN cfg[job.table] |->
                [tracker |-> cfg[job.table][k].tracker, dst |-> Format(cfg[job.table][k].dst)]])
    /\ UNCHANGED job

RunCreate ==
    /\ pc = "start"
    /\ job.op = "create"
    /\ Load
    /\ IF BadInput(job)
       THEN Answer("failed", <<>>) /\ UNCHANGED job
       ELSE /\ job' = [job EXCEPT !.tracker = Tracker(cfg[job.table])]
            /\ pc' = "write"
            /\ UNCHANGED result

RunDelete ==
    /\ pc = "start"
    /\ job.op = "delete"
    /\ Load
    /\ IF Find(cfg[job.table], job.tracker) = 0
       THEN Answer("not found", <<>>)
       ELSE pc' = "write" /\ UNCHANGED result
    /\ UNCHANGED job

NewRule(c) ==
    [tracker |-> c.tracker, by |-> c.serial, dst |-> Stored(c.table, c.dst), edited |-> FALSE]

(* The new rule goes last. *)
Added(rules, c) == Append(rules, NewRule(c))

(* Seeded fault: unset() of an element next to the one that was found.       *)
ChangedNext(rules, c) ==
    IF c.op = "create" THEN Added(rules, c)
    ELSE LET k == Find(rules, c.tracker) IN RemoveAt(rules, IF k < Len(rules) THEN k + 1 ELSE k)

(* The job's table after the change: a rule more, or one less. *)
Changed(rules, c) ==
    IF c.op = "create" THEN Added(rules, c)
    ELSE RemoveAt(rules, Find(rules, c.tracker))

(* write_config() writes the file as the script has it in memory.            *)
Write ==
    /\ pc = "write"
    /\ cfg' = [mem EXCEPT ![job.table] = Changed(@, job)]
    /\ pc' = "reload"
    /\ UNCHANGED <<live, clock, job, mem, result, created, page, base, raced, counts>>

(* Seeded fault: the answer without filter_configure().                      *)
ReloadSkipped ==
    /\ pc = "reload"
    /\ created' = created
    /\ Answer("completed", <<>>)
    /\ UNCHANGED <<cfg, live, clock, job, mem, page, base, raced, counts>>

(* filter_configure(), and the answer with the tracker; or no answer that    *)
(* the manager takes: the timeout comes first, or the output of create is    *)
(* not the expected JSON.                                                    *)
Reload ==
    /\ pc = "reload"
    /\ live' = cfg
    /\ \/ /\ Answer("completed", <<>>)
          /\ created' = IF job.op = "create" THEN created \cup {job} ELSE created
          /\ UNCHANGED kills
       \/ /\ kills < MaxKills
          /\ kills' = kills + 1
          /\ Answer("failed", <<>>)
          /\ UNCHANGED created
    /\ UNCHANGED <<cfg, clock, job, mem, page, base, raced, calls, edits>>

(* The executor's timeout: whatever the script did is reported failed.       *)
Kill ==
    /\ pc # "idle"
    /\ kills < MaxKills
    /\ kills' = kills + 1
    /\ Answer("failed", <<>>)
    /\ UNCHANGED <<cfg, live, clock, job, mem, created, page, base, raced, calls, edits>>

(* pf is loaded from config.xml; no answer reaches the platform.             *)
Reboot ==
    /\ kills < MaxKills
    /\ kills' = kills + 1
    /\ live' = cfg
    /\ page' = Closed
    /\ pc' = "idle"
    /\ result' = IF pc = "idle" THEN result ELSE NoResult
    /\ UNCHANGED <<cfg, clock, job, mem, created, base, raced, calls, edits>>

----------------------------------------------------------------------------
(* The administrator: a request that loads the configuration, saves it with  *)
(* one table edited, and "Apply Changes".                                    *)
GuiOpen ==
    /\ edits < MaxEdits
    /\ page # cfg
    /\ page' = cfg
    /\ UNCHANGED <<cfg, live, clock, pc, job, mem, result, created, base, raced, counts>>

(* What may be made of a table: a rule more, a rule less, a rule edited in   *)
(* place (it keeps its tracker), two rules changing places.                  *)
GuiRule(now) == [tracker |-> now, by |-> Gui, dst |-> [any |-> ""], edited |-> FALSE]
EditedAt(rules, k) == [rules EXCEPT ![k] = [@ EXCEPT !.dst = [any |-> ""], !.edited = TRUE]]
Swapped(rules, i, j) == [rules EXCEPT ![i] = rules[j], ![j] = rules[i]]

Edited(rules, now) ==
    {Append(rules, GuiRule(now))}
    \cup {RemoveAt(rules, k) : k \in DOMAIN rules}
    \cup {EditedAt(rules, k) : k \in DOMAIN rules}
    \cup {Swapped(rules, i, j) : i, j \in DOMAIN rules}

GuiSave ==
    /\ edits < MaxEdits
    /\ page # Closed
    /\ edits' = edits + 1
    /\ clock' = clock + 1
    /\ raced' = TRUE
    /\ \E t \in Tables : \E rules \in Edited(page[t], clock') : cfg' = [page EXCEPT ![t] = rules]
    /\ page' = cfg'
    /\ UNCHANGED <<live, pc, job, mem, result, created, base, calls, kills>>

GuiApply ==
    /\ edits > 0
    /\ live # cfg
    /\ live' = cfg
    /\ UNCHANGED <<cfg, clock, pc, job, mem, result, created, page, base, raced, counts>>

Next ==
    \/ Call \/ RunList \/ RunCreate \/ RunDelete \/ Write \/ Reload \/ Kill \/ Reboot
    \/ GuiOpen \/ GuiSave \/ GuiApply

Spec == Init /\ [][Next]_vars
----------------------------------------------------------------------------
(* "A result of completed means the change is live, not just queued", and    *)
(* persists: unless the administrator saved meanwhile, the created rule is   *)
(* the last of its table, the deleted one is nowhere, and pf enforces        *)
(* exactly what is on disk, also what an earlier, killed command left.       *)
CompletedIsLive ==
    pc = "idle" /\ result.status = "completed" /\ job.op # "list" /\ ~raced =>
        /\ live = cfg
        /\ job.op = "create" => Last(cfg[job.table]).by = job.serial
        /\ job.op = "delete" => Find(cfg[job.table], job.tracker) = 0

Own(t, r) == t = job.table /\ r.tracker = job.tracker

(* to has the rules of from that the command is not about, in their order.   *)
Kept(t, from, to) ==
    \A i, j \in DOMAIN from :
        i <= j /\ ~Own(t, from[i]) /\ ~Own(t, from[j]) =>
            \E k, l \in DOMAIN to :
                to[k] = from[i] /\ to[l] = from[j] /\ (i < j => k < l)

(* Wherever a command ends (completed, refused, killed, cut off by a         *)
(* reboot), all the rules it was not about are still in config.xml, in both  *)
(* tables and in the same order: the first match decides what pf does.       *)
OthersKept ==
    ~raced => \A t \in Tables : Kept(t, base[t], cfg[t]) /\ Kept(t, cfg[t], base[t])

(* The tracker that create returned never comes to name another rule, on     *)
(* disk or in pf, whatever was deleted, retried, killed, moved or edited     *)
(* since: a stored tracker can be passed to delete at any later time, and    *)
(* delete.php's search for the first match is a search for the only one.     *)
HandleNamesOwnRule ==
    /\ \A c \in created : \A rules \in {cfg[c.table], live[c.table]} :
          \A k \in DOMAIN rules : rules[k].tracker = c.tracker => rules[k].by = c.serial
    /\ \A t \in Tables : \A i, j \in DOMAIN cfg[t] :
          cfg[t][i].tracker = cfg[t][j].tracker => i = j

(* The destination a command asks for, spelled as list spells it. *)
Asked(c) ==
    IF c.table = "nat" /\ c.dst = "" THEN OwnIp
    ELSE IF Trim[c.dst] \in AnySpecs THEN "any" ELSE Trim[c.dst]

(* "Collapses back down to the single string the agent sent", without the    *)
(* blanks around it: list shows the rules in the order of config.xml, and a  *)
(* created rule, unless the administrator edited it, with the destination    *)
(* that was asked for (one left out shows as documented); a create with the  *)
(* destination that is shown stores the same again.                          *)
ListFaithful ==
    job.op = "list" /\ result.status = "completed" /\ ~raced =>
        /\ Len(result.out) = Len(cfg[job.table])
        /\ \A k \in DOMAIN result.out :
              /\ result.out[k].tracker = cfg[job.table][k].tracker
              /\ \A c \in created :
                    /\ c.table = job.table
                    /\ c.tracker = result.out[k].tracker
                    /\ ~cfg[job.table][k].edited
                    => /\ result.out[k].dst = Asked(c)
                       /\ Stored(c.table, result.out[k].dst) = Stored(c.table, c.dst)

(* "No rule with that tracker exists": when delete.php says so, pf does not  *)
(* enforce one either.                                                       *)
DeletedNotEnforced ==
    pc = "idle" /\ job.op = "delete" /\ result.status = "not found" /\ ~raced =>
        Find(live[job.table], job.tracker) = 0
=============================================================================
