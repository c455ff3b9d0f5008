----------------------------- MODULE CliSession -----------------------------
(* The session files of the command line tool: agent/cli/session.py, the    *)
(* /session and /goal commands and the chat of agent/cli/cli.py. A session  *)
(* is a file of JSON lines, its metadata first. Any number of processes     *)
(* read, append to and rewrite the files, and nothing locks them; a rewrite *)
(* empties the file before it fills it.                                     *)
EXTENDS Absent, Naturals, Sequences, FiniteSets

CONSTANTS
    Procs,          \* processes of the tool
    SessionIds,     \* identifiers of sessions; a new one was never used
    GoalIds,
    MaxCommands,    \* bound of the model on the commands that are given
    MaxTurns,       \* bound of the model on the turns that are saved
    MaxLines        \* bound of the model on a file that is rewritten

(* A line is a JSON object: metadata has goals, a turn has a text, here its *)
(* number. None is a blank line. What reads the metadata takes for it what  *)
(* line 1 is. (Titles, tags and the marks of merges are left out.)          *)
Objects == [text : 0..MaxTurns, goals : [GoalIds -> {None, "active", "ended"}]]
FileLines == {lines \in Seq(Objects \cup {None}) : lines # <<>> => lines[1] # None}

Jobs ==
    [op : {"empty", "fill", "load"}, target : SessionIds, lines : FileLines, after : {"stay", "load"}]

Processes ==
    [cur : SessionIds, meta : Objects, history : Seq(Objects), goal : GoalIds \cup {None},
     auto : GoalIds \cup {None}, todo : 0..4, job : Jobs \cup {None}]

Puts == [turns : SUBSET (1..MaxTurns), by : SUBSET Procs, deleted : BOOLEAN]

ASSUME CliSessionAssumption ==
    /\ MaxCommands \in Nat /\ MaxTurns \in Nat /\ MaxLines \in Nat
    /\ None \notin Objects /\ None \notin FileLines /\ None \notin Jobs
    /\ None \notin Processes /\ None \notin Puts

VARIABLES
    files,      \* per session its lines, or None without a file
    cli,        \* per process what SessionManager holds, or None
    copy,       \* a file elsewhere: an exported session or a template
    commands,   \* history: how many commands were given
    turns,      \* history: how many turns were saved
    put         \* history: per session, what was put in it and who wrote it

sessionVars == <<files, cli, copy, commands, turns, put>>

-----------------------------------------------------------------------------
NoGoals == [g \in GoalIds |-> None]

Turn(n) == [text |-> n, goals |-> NoGoals]
NewMeta == Turn(0)

Parses(l) == l # None

Texts(lines) == {lines[i].text : i \in {j \in DOMAIN lines : Parses(lines[j])}} \ {0}

(* Lines keep their end when they are read, and get another when joined.    *)
Rewritten(meta, lines) ==
    [i \in 1..(2 * Len(lines) - 1) |->
        IF i = 1 THEN meta ELSE IF i % 2 = 0 THEN lines[(i \div 2) + 1] ELSE None]

(* The lines that parse, in their order: the loop of load_session.          *)
NonBlank(lines) ==
    LET read[n \in 0..Len(lines)] ==
          IF n = 0 THEN <<>>
          ELSE IF Parses(lines[n]) THEN Append(read[n - 1], lines[n]) ELSE read[n - 1]
    IN  read[Len(lines)]

Readable(s) == files[s] # None /\ files[s] # <<>>

(* What a process is about to do to the file of a session.                  *)
Job(op, target, lines, after) ==
    [op |-> op, target |-> target, lines |-> lines, after |-> after]

AtPrompt(p) == cli[p] # None /\ cli[p].job = None /\ cli[p].todo = 0

(* A command of the user.                                                   *)
Command(p) == AtPrompt(p) /\ commands < MaxCommands /\ commands' = commands + 1

Fresh == {s \in SessionIds : put[s] = None}

Written(p, s) ==
    IF put[s] = None THEN [turns |-> {}, by |-> {p}, deleted |-> FALSE]
    ELSE [put[s] EXCEPT !.by = @ \cup {p}]

-----------------------------------------------------------------------------
SessionInit ==
    /\ files = [s \in SessionIds |-> None]
    /\ cli = [p \in Procs |-> None]
    /\ copy = None
    /\ commands = 0 /\ turns = 0
    /\ put = [s \in SessionIds |-> None]

(* create_session: the process holds what it writes and does not read it    *)
(* back. Goals and auto-continue belong to the process, not to a session.   *)
Start(p) ==
    /\ cli[p] = None
    /\ \E s \in Fresh :
         /\ cli' = [cli EXCEPT ![p] =
                      [cur |-> s, meta |-> NewMeta, history |-> <<>>, goal |-> None,
                       auto |-> None, todo |-> 0, job |-> Job("empty", s, <<NewMeta>>, "stay")]]
         /\ put' = [put EXCEPT ![s] = Written(p, s)]
    /\ UNCHANGED <<commands, files, copy, turns>>

Loaded_MetaOnly(state, s) ==
    [state EXCEPT !.cur = s, !.meta = Head(files[s]), !.history = <<>>]

(* load_session: lines that do not parse are passed over.                   *)
Loaded(state, s) ==
    [state EXCEPT !.cur = s,
                  !.meta = Head(files[s]),
                  !.history = NonBlank(Tail(files[s]))]

(* Also how a process starts that is told to resume a session.              *)
Resume(p, s) ==
    /\ Command(p) /\ Readable(s)
    /\ cli' = [cli EXCEPT ![p] = Loaded(@, s)]
    /\ put' = [put EXCEPT ![s] = Written(p, s)]
    /\ UNCHANGED <<files, copy, turns>>

(* The commands that make a session read what they copy, write the new file *)
(* and load it.                                                             *)
Creates(p, lines) ==
    /\ Command(p)
    /\ \E s \in Fresh :
         /\ cli' = [cli EXCEPT ![p].job = Job("empty", s, lines, "load")]
         /\ put' = [put EXCEPT ![s] = Written(p, s)]
    /\ UNCHANGED <<files, copy, turns>>

NewSession(p) == Creates(p, <<NewMeta>>)

(* /session resume --fork and /session branch create.                       *)
Branch(p, s) == Readable(s) /\ Creates(p, files[s])

(* /session import and /session template use.                               *)
Import(p) == copy # None /\ Creates(p, copy)

Export(p, s) ==
    /\ Command(p) /\ files[s] # None
    /\ copy' = files[s]
    /\ UNCHANGED <<files, cli, turns, put>>

(* A template keeps the turns of the session, and not its goals.            *)
SaveTemplate(p) ==
    /\ Command(p) /\ Readable(cli[p].cur)
    /\ copy' = <<NewMeta>> \o NonBlank(Tail(files[cli[p].cur]))
    /\ UNCHANGED <<files, cli, turns, put>>

Delete(p, s) ==
    /\ Command(p) /\ files[s] # None
    /\ files' = [files EXCEPT ![s] = None]
    /\ put' = [put EXCEPT ![s].deleted = TRUE]
    /\ UNCHANGED <<cli, copy, turns>>

(* /session tag and /session branch merge change line 1 of any session.     *)
Annotate(p, s) ==
    /\ Command(p) /\ Readable(s)
    /\ 2 * Len(files[s]) - 1 <= MaxLines
    /\ cli' = [cli EXCEPT ![p].job = Job("empty", s, Rewritten(Head(files[s]), files[s]), "stay")]
    /\ put' = [put EXCEPT ![s] = Written(p, s)]
    /\ UNCHANGED <<files, copy, turns>>

Tag(p, s) == Annotate(p, s)

Merge(p, s, branch) == Readable(branch) /\ Annotate(p, s)

-----------------------------------------------------------------------------
(* Goals are read from line 1 of the file and written to it, and never to   *)
(* the metadata that the process holds. (They are read and the file is read *)
(* again to write them: one step here.)                                     *)

GoalsOf(s) ==
    IF Readable(s) THEN {g \in GoalIds : Head(files[s]).goals[g] # None} ELSE {}

SaveGoal(state, g, status) ==
    LET lines == Rewritten([Head(files[state.cur]) EXCEPT !.goals[g] = status], files[state.cur])
    IN  [state EXCEPT !.job = Job("empty", state.cur, lines, "stay")]

(* Without a file to save it in the goal is set all the same.               *)
SetGoal(p, g, continues) ==
    LET s == cli[p].cur
        state == [cli[p] EXCEPT !.goal = g, !.auto = IF continues THEN g ELSE @]
    IN  /\ Command(p)
        /\ \A t \in SessionIds : g \notin GoalsOf(t)
        /\ Readable(s) => 2 * Len(files[s]) - 1 <= MaxLines
        /\ cli' = [cli EXCEPT ![p] = IF Readable(s) THEN SaveGoal(state, g, "active") ELSE state]
        /\ put' = [put EXCEPT ![s] = Written(p, s)]
        /\ UNCHANGED <<files, copy, turns>>

(* A sub-goal is part of the current goal, which is written as it was.      *)
AddSubgoal(p) ==
    LET s == cli[p].cur
        g == cli[p].goal
    IN  /\ Command(p) /\ g \in GoalsOf(s)
        /\ 2 * Len(files[s]) - 1 <= MaxLines
        /\ cli' = [cli EXCEPT ![p] = SaveGoal(@, g, Head(files[s]).goals[g])]
        /\ put' = [put EXCEPT ![s] = Written(p, s)]
        /\ UNCHANGED <<files, copy, turns>>

(* Whichever goal ends, the current one is cleared and nothing continues.   *)
EndGoal(p, g) ==
    LET s == cli[p].cur IN
    /\ Command(p) /\ g \in GoalsOf(s)
    /\ 2 * Len(files[s]) - 1 <= MaxLines
    /\ cli' = [cli EXCEPT ![p] = [SaveGoal(@, g, "ended") EXCEPT !.goal = None, !.auto = None]]
    /\ put' = [put EXCEPT ![s] = Written(p, s)]
    /\ UNCHANGED <<files, copy, turns>>

-----------------------------------------------------------------------------
(* A chat saves what the user said and the answer, and where a goal         *)
(* continues another two turns.                                             *)
Chat(p) ==
    /\ Command(p)
    /\ turns < MaxTurns
    /\ cli' = [cli EXCEPT ![p].todo = IF cli[p].auto = None THEN 2 ELSE 4]
    /\ UNCHANGED <<files, copy, turns, put>>

(* save_turn appends the turn, then rewrites the file from memory.          *)
SaveTurn(p) ==
    LET s == cli[p].cur
        turn == Turn(turns + 1)
        history == Append(cli[p].history, turn)
    IN  /\ cli[p] # None /\ cli[p].job = None /\ cli[p].todo > 0
        /\ turns < MaxTurns /\ turns' = turns + 1
        /\ files' = [files EXCEPT ![s] = IF @ = None THEN <<turn>> ELSE Append(@, turn)]
        /\ cli' = [cli EXCEPT ![p].history = history,
                              ![p].todo = @ - 1,
                              ![p].job = Job("empty", s, <<cli[p].meta>> \o history, "stay")]
        /\ put' = [put EXCEPT ![s] = [Written(p, s) EXCEPT !.turns = @ \cup {turns + 1}]]
        /\ UNCHANGED <<commands, copy>>

(* open(..., "w"), and some time later the write.                           *)
EmptyFile(p) ==
    /\ cli[p] # None /\ cli[p].job # None /\ cli[p].job.op = "empty"
    /\ files' = [files EXCEPT ![cli[p].job.target] = <<>>]
    /\ cli' = [cli EXCEPT ![p].job.op = "fill"]
    /\ UNCHANGED <<commands, copy, turns, put>>

FillFile(p) ==
    /\ cli[p] # None /\ cli[p].job # None /\ cli[p].job.op = "fill"
    /\ files' = [files EXCEPT ![cli[p].job.target] = cli[p].job.lines]
    /\ cli' = [cli EXCEPT ![p].job = IF @.after = "load" THEN [@ EXCEPT !.op = "load"] ELSE None]
    /\ UNCHANGED <<commands, copy, turns, put>>

(* Nobody looks at whether the load went well.                              *)
LoadFile(p) ==
    /\ cli[p] # None /\ cli[p].job # None /\ cli[p].job.op = "load"
    /\ LET s == cli[p].job.target
           state == [cli[p] EXCEPT !.job = None]
       IN  cli' = [cli EXCEPT ![p] = IF Readable(s) THEN Loaded(state, s) ELSE state]
    /\ UNCHANGED <<commands, files, copy, turns, put>>

(* The process ends, or is killed between two steps.                        *)
Exit(p) ==
    /\ cli[p] # None /\ cli' = [cli EXCEPT ![p] = None]
    /\ UNCHANGED <<commands, files, copy, turns, put>>

SessionNext ==
    \E p \in Procs :
        \/ Start(p) \/ Exit(p)
        \/ NewSession(p) \/ Import(p) \/ SaveTemplate(p)
        \/ \E s \in SessionIds :
             \/ Resume(p, s) \/ Branch(p, s) \/ Export(p, s) \/ Delete(p, s)
             \/ Tag(p, s) \/ \E branch \in SessionIds : Merge(p, s, branch)
        \/ \E g \in GoalIds :
             \/ \E continues \in BOOLEAN : SetGoal(p, g, continues)
             \/ EndGoal(p, g)
        \/ AddSubgoal(p)
        \/ Chat(p) \/ SaveTurn(p) \/ EmptyFile(p) \/ FillFile(p) \/ LoadFile(p)

SessionSpec == SessionInit /\ [][SessionNext]_sessionVars

-----------------------------------------------------------------------------

SessionTypeOK ==
    /\ files \in [SessionIds -> FileLines \cup {None}]
    /\ copy \in FileLines \cup {None}
    /\ commands \in 0..MaxCommands /\ turns \in 0..MaxTurns
    /\ cli \in [Procs -> Processes \cup {None}]
    /\ put \in [SessionIds -> Puts \cup {None}]

(* In a session that one process only has written, whatever other processes *)
(* read of it or do elsewhere, no turn is lost: the file has every turn that*)
(* was saved, also while it is being written, unless a process was stopped  *)
(* before it filled the file it had emptied, or the session was deleted.    *)
(* (cli/session.py 174)                                                     *)
TurnsAreKept ==
    \A s \in SessionIds :
        (Readable(s) /\ Cardinality(put[s].by) = 1 /\ ~put[s].deleted)
            => put[s].turns \subseteq Texts(files[s])

(* goal.py 14 and 17: "persistent goals", "persistent cross-turn goals". In *)
(* a session of one process, what the process is about to write has every   *)
(* goal that the file has.                                                  *)
GoalsPersist ==
    \A p \in Procs :
        LET job == cli[p].job IN
        (cli[p] # None /\ job # None /\ job.op = "empty"
           /\ put[job.target].by = {p} /\ ~put[job.target].deleted)
            => \A g \in GoalsOf(job.target) : Head(job.lines).goals[g] # None
=============================================================================
