-------------------------- MODULE ActionsReference --------------------------
(***************************************************************************)
(* What calls may expect of the data they share, told without layers,      *)
(* slots or indexes.  An operation opens a call or runs actions of one.    *)
(***************************************************************************)
EXTENDS CallActions

\* Scenarios disagree exactly on the names that one makes a user's and another
\* global; when none is, two variables share a slot exactly when they are one
\* shared name, and every slot is in its layer.
SlotsFollowScopes(tables) ==
    LET space == Space(tables)
        vars == {<<t, id>> : t \in DOMAIN tables, id \in 1..3}
        known == {v \in vars : v[2] \in DOMAIN tables[v[1]]}
        Var(v) == tables[v[1]][v[2]]
        slot(v) == Layout(space, tables[v[1]])[v[2]]
        declared(name, scope) == \E v \in known : Var(v) = [name |-> name, scope |-> scope]
        names == {Var(v).name : v \in known}
        size == [call |-> 3, user |-> Len(space.user), global |-> Len(space.global)]
    IN  /\ Range(space.conflicts) = {n \in names : declared(n, "user") /\ declared(n, "global")}
        /\ space.conflicts = << >> =>
              \A v, w \in known :
                 /\ slot(v).layer = Var(v).scope /\ slot(v).at \in 1..size[slot(v).layer]
                 /\ slot(v) = slot(w) =>
                       IF Var(v).scope = "call" THEN v[1] # w[1] \/ v = w ELSE Var(v) = Var(w)
                 /\ Var(v) = Var(w) /\ Var(v).scope # "call" => slot(v) = slot(w)

Open(call, scenario, user) == [op |-> "open", call |-> call, scenario |-> scenario, user |-> user,
                               actions |-> << >>, msg |-> NoMessage, cmd |-> << >>]
Run(call, actions, msg, cmd) == [op |-> "run", call |-> call, scenario |-> 1, user |-> 0,
                                 actions |-> actions, msg |-> msg, cmd |-> cmd]
Env(op) == [msg |-> op.msg, cmd |-> op.cmd]

After(data, op) ==
    CASE op.op = "open"                              -> OpenCall(data, op.call, op.scenario, op.user, 0)
      [] op.op = "run" /\ op.call \in DOMAIN data.calls -> RunActions(data, op.call, op.actions, Env(op)).data
      [] OTHER                                       -> data
DataAfter(ops) == FoldLeft(After, Start, ops)

-----------------------------------------------------------------------------
(* One value for each name: the run's, a user's, or an opening's.          *)

NoValues == [place \in {} |-> Unset]
Initially == [values |-> FoldLeft(LAMBDA v, set : [p \in DOMAIN v \cup {<<"run", 0, set[1]>>} |->
                                                    IF p = <<"run", 0, set[1]>> THEN Str(set[2]) ELSE v[p]],
                                  NoValues, Sets),
              calls |-> [c \in {} |-> << >>], openings |-> 0, files |-> Files]

PlaceOf(call, var) ==
    CASE var.scope = "global"                   -> <<"run", 0, var.name>>
      [] var.scope = "user" /\ call.user # 0    -> <<"user", call.user, var.name>>
      [] OTHER                                  -> <<"opening", call.opening, var.name>>
Value(flat, place) == IF place \in DOMAIN flat.values THEN flat.values[place] ELSE Unset
Values(flat, c) == [id \in DOMAIN Tables[flat.calls[c].scenario] |->
                        Value(flat, PlaceOf(flat.calls[c], Tables[flat.calls[c].scenario][id]))]
Written(flat, c, write) ==
    LET place == PlaceOf(flat.calls[c], Tables[flat.calls[c].scenario][write[1]])
    IN  [flat EXCEPT !.values = [p \in DOMAIN @ \cup {place} |-> IF p = place THEN write[2] ELSE @[p]]]

\* One action after another, up to the first that ends the list.
RECURSIVE FlatRun(_, _, _, _)
FlatRun(flat, c, actions, env) ==
    IF actions = << >> THEN flat
    ELSE LET effect == RunOne(Head(actions), Values(flat, c), env, flat.files)
             next == [FoldLeft(LAMBDA f, w : Written(f, c, w), flat, effect.writes) EXCEPT !.files = effect.files]
         IN  IF effect.outcome \in Terminal THEN next ELSE FlatRun(next, c, Tail(actions), env)

FlatAfter(flat, op) ==
    CASE op.op = "open" ->
            [flat EXCEPT !.openings = @ + 1,
                         !.calls = [c \in DOMAIN @ \cup {op.call} |->
                             IF c = op.call THEN [scenario |-> op.scenario, user |-> op.user,
                                                  opening |-> flat.openings + 1] ELSE @[c]]]
      [] op.op = "run" /\ op.call \in DOMAIN flat.calls -> FlatRun(flat, op.call, op.actions, Env(op))
      [] OTHER -> flat

\* Every variable of every call is what was last written to its name, by any
\* call of the run or of the user, across scenarios and across the calls of a
\* user; so are the files.
ReadsSeeLastWrite(ops) ==
    LET data == DataAfter(ops)
        flat == FoldLeft(FlatAfter, Initially, ops)
    IN  /\ DOMAIN data.calls = DOMAIN flat.calls /\ data.files = flat.files
        /\ \A c \in DOMAIN data.calls : Store(data, c) = Values(flat, c)

\* Calls take the lines of a sequential file in turn, whatever the other files
\* are, and keep lines that the file has; a user's line is always the same.
LinesTakeTurns(users) ==
    LET opened == FoldLeft(LAMBDA s, u :
                     LET data == OpenCall(s.data, 1, 1, u, Len(s.lines)) IN
                     [data |-> data, lines |-> Append(s.lines, data.calls[1].lines)],
                     [data |-> Start, lines |-> << >>], users)
    IN  \A k \in DOMAIN users : \A i \in DOMAIN Files :
           LET line == opened.lines[k][i] IN
           CASE Files[i].mode = "sequential" -> line = (k - 1) % Length(Files[i])
             [] Files[i].mode = "user"       -> line = IF users[k] \in 1..Length(Files[i]) THEN users[k] - 1 ELSE NoLine
             [] OTHER                        -> line \in 0..Length(Files[i]) - 1

\* A scenario whose fields were accepted reads a file of them (validate_field_files
\* and resolve_file): the first of -inf for a field that names none.
AcceptedFieldsRead(names, defaults, spec) ==
    Resolves(names, defaults, spec) =>
        /\ ResolveFile(names, spec) \in DOMAIN names
        /\ spec = "" => ResolveFile(names, spec) <= defaults
        /\ spec \in Range(names) => names[ResolveFile(names, spec)] = spec
=============================================================================
