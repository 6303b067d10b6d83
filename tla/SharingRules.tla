---------------------------- MODULE SharingRules ----------------------------
(***************************************************************************)
(* The rules on who may share with whom (services/sharing_rules.py and     *)
(* routes/admin_sharing.py), with the profiles that replace them           *)
(* (routes/admin_profiles.py).  None of these requests opens a             *)
(* transaction: a rule and its conditions are written statement by         *)
(* statement, while POST /shares reads the rules in one statement and the  *)
(* conditions of each in another.  The checks of a request read what they  *)
(* need in one step; what users are does not change; a text either has a   *)
(* pattern or not.                                                         *)
(***************************************************************************)
EXTENDS Integers, Sequences

CONSTANTS
  Admins, Tier,   \* administrators; tier 1 is the most privileged
  Attr,           \* Attr[u][path]: what _resolve_attribute finds, or None
  Like,           \* <<value, text>>: the text is in the value, or matches it
  Rules,          \* ids of sharing_rules rows
  Bodies,         \* what requests ask a new row to be
  Amendments,     \* what requests ask to change: some fields, or conds, or both
  Profiles,       \* the rules of a profile that are applied, in order
  Asks,           \* share creations and dry runs
  None,
  Edits           \* bound on requests that edit

Fields == {"name", "active", "prio", "subject", "type", "effect", "locked", "tier"}
IsSeq(s) == s \in Seq({s[i] : i \in DOMAIN s})

\* What CreateRuleRequest, UpdateRuleRequest and a profile's rules are.
Valid(b) ==
  /\ "subject" \in DOMAIN b => b.subject \in {"sender", "recipient", "cross"}
  /\ "effect" \in DOMAIN b => b.effect \in {"allow", "deny"}
  /\ "tier" \in DOMAIN b => b.tier \in Int \cup {None}
  /\ "conds" \in DOMAIN b => IsSeq(b.conds)

ConstantsOK ==
  /\ Tier \in [Admins -> Nat \ {0}]
  /\ \A b \in Bodies : DOMAIN b = Fields \cup {"conds"} /\ Valid(b)
  /\ \A b \in Amendments : DOMAIN b \subseteq Fields \cup {"conds"} /\ Valid(b)
  /\ \A p \in Profiles :
       IsSeq(p) /\ \A i \in DOMAIN p : DOMAIN p[i] = Fields \cup {"conds"} /\ Valid(p[i])
  /\ \A q \in Asks : q.kind \in {"share", "test"}
  /\ None \notin Nat /\ None \notin Rules /\ Edits \in Nat

VARIABLES
  rows,    \* sharing_rules: a row for each rule there is
  conds,   \* sharing_rule_conditions of each rule
  edit,    \* each administrator's request: the statements it still makes
  eval,    \* each share creation or dry run
  edits,   \* bound counter
  meant,   \* history: the conditions the last request for a rule meant it to have
  torn     \* history: rules a request left half written, or that two wrote

vars == <<rows, conds, edit, eval, edits, meant, torn>>

\* adds: the conditions of rule still to be inserted, before todo goes on.
Resting == [todo |-> <<>>, adds |-> <<>>, rule |-> None, late |-> {}]
Asleep == [pc |-> "idle", left |-> {}, denied |-> FALSE, right |-> {}]

Present == DOMAIN rows
Busy(a) == edit[a].todo # <<>> \/ edit[a].adds # <<>>
Quiet == torn = {} /\ \A a \in Admins : ~Busy(a)

Init ==
  /\ rows = [r \in {} |-> None]
  /\ conds = [r \in Rules |-> {}] /\ meant = conds
  /\ edit = [a \in Admins |-> Resting]
  /\ eval = [q \in Asks |-> Asleep]
  /\ edits = 0 /\ torn = {}

-----------------------------------------------------------------------------
(* What a rule says of a share                                             *)

Compare(op, x, y) ==
  CASE op \in {"eq", "cross_eq"} -> x = y
    [] op \in {"neq", "cross_neq"} -> x # y
    [] op = "in" -> x \in y
    [] op = "not_in" -> x \notin y
    [] op = "like" -> <<x, y>> \in Like
    [] op = "unlike" -> <<x, y>> \notin Like

\* _evaluate_condition: whether the condition is met, or cannot be told and
\* blocks.
Met(c, subject, q) ==
  LET cross == c.op \in {"cross_eq", "cross_neq"}
      target == IF subject = "recipient" THEN q.recipient ELSE q.sender
      of(u, path) == IF u = None THEN None ELSE Attr[u][path]
      x == of(IF cross THEN q.sender ELSE target, c.path)
      y == IF cross THEN of(q.recipient, c.path2) ELSE c.value
  IN IF x = None \/ (cross /\ y = None) THEN c.block ELSE Compare(c.op, x, y)

\* The rows evaluate_sharing_rules selects, and those it passes over.
Selected(r, q) == r.active /\ r.type \in {None, q.type}
Skips(subject, q) == subject \in {"recipient", "cross"} /\ q.recipient = None

\* Documented: rules in ascending priority, the first that matches wins, and
\* without one the share is permitted.  Rules of one priority are in any order.
Fires(r, all, q) ==
  LET row == rows[r] IN
  /\ Selected(row, q)
  /\ row.subject = "sender" \/ q.recipient # None
  /\ \A c \in all[r] : Met(c, row.subject, q)
Verdicts(all, q) ==
  LET fire == {r \in Present : Fires(r, all, q)}
      first == {r \in fire : \A s \in fire : rows[r].prio <= rows[s].prio}
  IN IF fire = {} THEN {"allow"} ELSE {rows[r].effect : r \in first}

-----------------------------------------------------------------------------
(* POST /shares, and the dry run of administrators                         *)

Goes(q, e) == eval' = [eval EXCEPT ![q] = e]
Ends(q, verdict) == Goes(q, [eval[q] EXCEPT !.pc = verdict, !.left = {}])

\* The rows, in one SELECT; their conditions come later.
Select(q) ==
  /\ eval[q].pc = "idle"
  /\ Goes(q, [pc |-> "loop", denied |-> FALSE,
       left |-> {[id |-> r, prio |-> rows[r].prio, subject |-> rows[r].subject,
                  effect |-> rows[r].effect] :
                 r \in {s \in Present : Selected(rows[s], q)}},
       right |-> IF Quiet THEN Verdicts(meant, q) ELSE {"allow", "deny"}])
  /\ UNCHANGED <<rows, conds, edit, edits, meant, torn>>

First(q) == {r \in eval[q].left : \A s \in eval[q].left : r.prio <= s.prio}

\* One row of the loop.  The conditions of a row that is gone are none, and
\* none are all met.  A share is refused by the first deny; the dry run goes
\* on to the first allow, and is a deny if it has seen one.
Conds(r) == conds[r]
Loop(q) ==
  \E r \in First(q) :
    LET rest == [eval[q] EXCEPT !.left = @ \ {r}] IN
    /\ eval[q].pc = "loop"
    /\ CASE Skips(r.subject, q) \/ ~(\A c \in Conds(r.id) : Met(c, r.subject, q)) -> Goes(q, rest)
         [] OTHER ->
              CASE r.effect = "deny" /\ q.kind = "share" -> Ends(q, "deny")
                [] r.effect = "deny" /\ q.kind = "test" -> Goes(q, [rest EXCEPT !.denied = TRUE])
                [] r.effect = "allow" -> Ends(q, IF eval[q].denied THEN "deny" ELSE "allow")
    /\ UNCHANGED <<rows, conds, edit, edits, meant, torn>>

Finish(q) ==
  /\ eval[q].pc = "loop" /\ eval[q].left = {}
  /\ Ends(q, IF eval[q].denied THEN "deny" ELSE "allow")
  /\ UNCHANGED <<rows, conds, edit, edits, meant, torn>>

-----------------------------------------------------------------------------
(* Editing: the checks of a request, then its statements                   *)

Listed(s) == {s[i] : i \in 1..Len(s)}
Statement(op, arg) == [op |-> op, arg |-> arg]
\* What is written with b: the rest stays.
Over(b, old) == [f \in DOMAIN b \cup DOMAIN old |-> IF f \in DOMAIN b THEN b[f] ELSE old[f]]

\* _check_priority_floor: MAX(priority) over the locked rules of admins above.
Floor_Equal(a, prio) == \A r \in Present :
  rows[r].locked /\ rows[r].by < Tier[a] => prio >= rows[r].prio
Floor(a, prio) == \A r \in Present :
  rows[r].locked /\ rows[r].by < Tier[a] => prio > rows[r].prio

\* _check_rule_lock, and the refusal to lock above oneself.
Permits(a, row) == row.locked /\ row.tier # None => Tier[a] <= row.tier
MayLock(a, locked, tier) == locked /\ tier # None => tier >= Tier[a]

\* Operators on two users need a rule on two users.
Suits(list, subject) ==
  \A i \in 1..Len(list) : list[i].op \in {"cross_eq", "cross_neq"} => subject = "cross"

\* What runs is no longer judged by one state of the rules.
Disturb == eval' = [q \in Asks |->
  IF eval[q].pc = "loop" THEN [eval[q] EXCEPT !.right = {"allow", "deny"}] ELSE eval[q]]

Free == {a \in Admins : ~Busy(a) /\ edits < Edits}
Begin(a, r, todo) ==
  /\ a \in Free
  /\ edits' = edits + 1
  /\ edit' = [edit EXCEPT ![a] = [todo |-> todo, adds |-> <<>>, rule |-> r, late |-> {}]]
  /\ Disturb
  /\ UNCHANGED <<rows, conds, meant, torn>>

Create(a, b) ==
  /\ MayLock(a, b.locked, b.tier) /\ Floor(a, b.prio) /\ Suits(b.conds, b.subject)
  /\ Begin(a, None, <<Statement("insert", b)>>)

\* update_sharing_rule writes the lock it has read back when it is not asked
\* to change it.
Update(a, r, b) ==
  LET new == Over(b, [locked |-> rows[r].locked, tier |-> rows[r].tier])
      subject == IF "subject" \in DOMAIN b THEN b.subject ELSE rows[r].subject IN
  /\ r \in Present
  /\ Permits(a, rows[r])
  /\ "prio" \in DOMAIN b => Floor(a, b.prio)
  /\ MayLock(a, new.locked, new.tier)
  /\ "conds" \in DOMAIN b => Suits(b.conds, subject)
  /\ Begin(a, r, <<Statement("amend", new)>>)

Delete(a, r) ==
  /\ r \in Present /\ Permits(a, rows[r])
  /\ Begin(a, r, <<Statement("remove", None)>>)

\* _apply_replace and _apply_merge, of a server admin.
Replace(a, p) ==
  /\ Tier[a] = 1
  /\ Begin(a, None, <<Statement("wipe", None)>>
                    \o [i \in 1..Len(p) |-> Statement("insert", p[i])])
Merge(a, p) ==
  /\ Tier[a] = 1 /\ p # <<>>
  /\ Begin(a, None, [i \in 1..Len(p) |-> Statement("unname", p[i])])

-----------------------------------------------------------------------------
(* Statements                                                              *)

Runs(a, op) == edit[a].adds = <<>> /\ edit[a].todo # <<>> /\ Head(edit[a].todo).op = op
Arg(a) == Head(edit[a].todo).arg
Rest(a) == Tail(edit[a].todo)
Others(a, touched) ==
  /\ Disturb /\ UNCHANGED edits
  /\ torn' = {r \in torn \cup {s \in touched : \E b \in Admins \ {a} :
                                 Busy(b) /\ edit[b].rule = s} :
                r \in DOMAIN rows'}
\* What the request does next, and what others had checked.
Moves(a, todo, adds, rule, touched) ==
  /\ edit' = [b \in Admins |->
       IF b = a THEN [edit[a] EXCEPT !.todo = todo, !.adds = adds, !.rule = rule]
       ELSE [edit[b] EXCEPT !.late = @ \cup touched]]
  /\ Others(a, touched)

\* _insert_rule, and the INSERT of create_sharing_rule: the conditions follow.
Insert(a) ==
  LET b == Arg(a)
      row == [f \in Fields \cup {"by"} |-> IF f = "by" THEN Tier[a] ELSE b[f]] IN
  /\ Runs(a, "insert")
  /\ \E r \in Rules \ Present :
       /\ rows' = [s \in Present \cup {r} |-> IF s = r THEN row ELSE rows[s]]
       /\ conds' = [conds EXCEPT ![r] = {}]
       /\ meant' = [meant EXCEPT ![r] = Listed(b.conds)]
       /\ Moves(a, Rest(a), b.conds, r, {r})

\* A condition of a rule that is gone fails, and the request with it.
Condition(a) ==
  LET r == edit[a].rule IN
  /\ edit[a].adds # <<>>
  /\ UNCHANGED <<rows, meant>>
  /\ IF r \in Present
     THEN /\ conds' = [conds EXCEPT ![r] = @ \cup {Head(edit[a].adds)}]
          /\ Moves(a, edit[a].todo, Tail(edit[a].adds), r, {r})
     ELSE /\ UNCHANGED conds
          /\ edit' = [edit EXCEPT ![a] = Resting]
          /\ Others(a, {})

\* New conditions take the place of all there are.
Replaces_Always(b) == <<Statement("drop", IF "conds" \in DOMAIN b THEN b.conds ELSE <<>>)>>
Replaces(b) == IF "conds" \in DOMAIN b THEN <<Statement("drop", b.conds)>> ELSE <<>>
Amend(a) ==
  LET r == edit[a].rule
      b == Arg(a)
      put(row) == [f \in DOMAIN row |-> IF f \in DOMAIN b THEN b[f] ELSE row[f]] IN
  /\ Runs(a, "amend")
  /\ rows' = IF r \in Present THEN [rows EXCEPT ![r] = put(@)] ELSE rows
  /\ meant' = IF r \in Present /\ "conds" \in DOMAIN b
              THEN [meant EXCEPT ![r] = Listed(b.conds)] ELSE meant
  /\ Moves(a, Replaces(b), <<>>, r, {r} \cap Present)
  /\ UNCHANGED conds

Drop(a) ==
  LET r == edit[a].rule IN
  /\ Runs(a, "drop")
  /\ UNCHANGED <<rows, meant>>
  /\ conds' = IF r \in Present THEN [conds EXCEPT ![r] = {}] ELSE conds
  /\ Moves(a, Rest(a), Arg(a), r, {r} \cap Present)

\* The conditions of a rule go with it.  A profile's rule takes the place of
\* those of its name.
Remove(a) ==
  LET gone == {r \in Present : \/ Runs(a, "wipe")
                               \/ Runs(a, "unname") /\ rows[r].name = Arg(a).name
                               \/ Runs(a, "remove") /\ r = edit[a].rule}
      next == IF Runs(a, "unname") THEN <<Statement("insert", Arg(a))>> ELSE <<>> IN
  /\ Runs(a, "wipe") \/ Runs(a, "unname") \/ Runs(a, "remove")
  /\ rows' = [r \in Present \ gone |-> rows[r]]
  /\ conds' = [r \in Rules |-> IF r \in gone THEN {} ELSE conds[r]]
  /\ meant' = [r \in Rules |-> IF r \in gone THEN {} ELSE meant[r]]
  /\ Moves(a, next \o Rest(a), <<>>, edit[a].rule, gone)

\* The request is cut off between two statements.
Crash(a) ==
  /\ Busy(a)
  /\ edit' = [edit EXCEPT ![a] = Resting]
  /\ torn' = IF edit[a].adds # <<>> \/ Runs(a, "drop")
             THEN torn \cup ({edit[a].rule} \cap Present) ELSE torn
  /\ UNCHANGED <<rows, conds, eval, edits, meant>>

Next ==
  \/ \E a \in Free :
       \/ \E b \in Bodies : Create(a, b)
       \/ \E r \in Present : Delete(a, r) \/ \E b \in Amendments : Update(a, r, b)
       \/ \E p \in Profiles : Replace(a, p) \/ Merge(a, p)
  \/ \E a \in Admins :
       \/ Insert(a) \/ Condition(a) \/ Amend(a) \/ Drop(a) \/ Remove(a) \/ Crash(a)
  \/ \E q \in Asks : Select(q) \/ Loop(q) \/ Finish(q)

Spec == Init /\ [][Next]_vars

-----------------------------------------------------------------------------
(* Properties                                                              *)

\* A share creation, or a dry run, that no edit overlaps is decided as the
\* requests so far have meant the rules, unless one of them was cut off or
\* overlapped another on one rule.
RulesDecide ==
  \A q \in Asks : eval[q].pc \in {"allow", "deny"} => eval[q].pc \in eval[q].right

\* An administrator places no rule before a locked rule of a more privileged
\* one, and writes to no rule locked above him, but for rules that were
\* written after his request had been checked.  No lock is above tier 1.
Obeys(a) ==
  LET old == Present \ edit[a].late
      written == {r \in Present :
        r \notin DOMAIN rows' \/ rows'[r] # rows[r] \/ conds'[r] # conds[r]}
      places == Runs(a, "insert") \/ (Runs(a, "amend") /\ "prio" \in DOMAIN Arg(a))
      it == edit'[a].rule IN
  edit'[a].todo # edit[a].todo \/ edit'[a].adds # edit[a].adds =>
    /\ \A r \in old \cap written : Tier[a] = 1 \/ Permits(a, rows[r])
    /\ places /\ rows' # rows => \A r \in old \ {it} :
         rows[r].locked /\ rows[r].by < Tier[a] => rows'[it].prio > rows[r].prio
AuthorityKept == [][\A a \in Admins : Obeys(a)]_vars

TypeOK ==
  /\ Present \subseteq Rules /\ torn \subseteq Present /\ edits \in 0..Edits
  /\ \A q \in Asks : eval[q].pc \in {"idle", "loop", "allow", "deny"}
=============================================================================
