----------------------------- MODULE TaskGroups -----------------------------
(***************************************************************************)
(* The session groups of a loaded list (web/src/features/tasks/            *)
(* TaskList.tsx, web/src/lib/export.ts): pure functions from loaded rows   *)
(* to what is shown.  The daemon orders rows by the text of their times,   *)
(* and so does the browser.  The text is RFC3339Nano, which writes no      *)
(* trailing zeros of the fraction of a second: it is modelled by two       *)
(* digits of the fraction, since that is where text and time differ.       *)
(***************************************************************************)
EXTENDS Lists, SequencesExt

CONSTANTS
    Task, Session,
    SessionOf,    \* session_id of a task
    Instants      \* hundredths of a second at which tasks may complete

ASSUME GroupsAssumption ==
    /\ SessionOf \in [Task -> Session]
    /\ Instants \subseteq 0..99

(* The characters that matter, by their order: '.' < '0'..'9' < 'Z'.       *)
Point == -1
Zulu == 10

(* Mutant: hundredths are written without their leading zero.              *)
formatUnpadded(at) ==
    IF at = 0 THEN <<Zulu>>
    ELSE IF at < 10 THEN <<Point, at, Zulu>> ELSE <<Point, at \div 10, at % 10, Zulu>>

(* The text after the seconds: "Z", ".5Z" or ".55Z".                       *)
formatTime(at) ==
    CASE at = 0 -> <<Zulu>>
      [] at # 0 /\ at % 10 = 0 -> <<Point, at \div 10, Zulu>>
      [] OTHER -> <<Point, at \div 10, at % 10, Zulu>>

(* Text comparison; Zulu ends every text, so none is a prefix of another.  *)
TextBefore(a, b) ==
    \E i \in DOMAIN a \cap DOMAIN b :
        a[i] < b[i] /\ \A j \in 1..(i - 1) : a[j] = b[j]

(* completed_at of one row before that of another, in the database and in  *)
(* the browser.                                                            *)
Before(a, b) == TextBefore(formatTime(a), formatTime(b))

(* ORDER BY completed_at DESC                                              *)
NewestFirst(tasks, at) == Sorted(tasks, {p \in tasks \X tasks : Before(at[p[2]], at[p[1]])})

-----------------------------------------------------------------------------
(* A loaded row is a task with the name its session had when it was loaded *)

SessionsOf(rows) == {SessionOf[row.task] : row \in Range(rows)}
RowsOf(rows, s) == Within(rows, {row \in Range(rows) : SessionOf[row.task] = s})

(* Pairs of rows, the older one first.                                     *)
ByTime(rows, at) ==
    {p \in Range(rows) \X Range(rows) : Before(at[p[1].task], at[p[2].task])}

(* Pairs of rows, the newer one first.                                     *)
ByTimeDown(rows, at) ==
    {p \in Range(rows) \X Range(rows) : Before(at[p[2].task], at[p[1].task])}

LatestOf(rows, at) ==
    CHOOSE time \in {at[row.task] : row \in Range(rows)} :
        \A row \in Range(rows) : ~ Before(time, at[row.task])

(* Mutant: sessions of the same name share a group.                        *)
GroupByName(rows, at) ==
    LET names == {row.name : row \in Range(rows)}
        Named(n) == Within(rows, {row \in Range(rows) : row.name = n})
        ordered == Sorted(names, {p \in names \X names :
                                    Before(LatestOf(Named(p[2]), at), LatestOf(Named(p[1]), at))})
    IN [i \in DOMAIN ordered |->
           [session |-> SessionOf[Named(ordered[i])[1].task], displayName |-> ordered[i],
            tasks |-> Stably(Named(ordered[i]), ByTimeDown(rows, at))]]

(* Groups by session_id, each by its latest row; a group has the name of   *)
(* its first row.                                                          *)
buildTaskGroups(rows, at) ==
    LET Latest(s) == LatestOf(RowsOf(rows, s), at)
        ordered == Sorted(SessionsOf(rows), {p \in SessionsOf(rows) \X SessionsOf(rows) :
                                                Before(Latest(p[2]), Latest(p[1]))})
    IN [i \in DOMAIN ordered |->
           [session |-> ordered[i], displayName |-> RowsOf(rows, ordered[i])[1].name,
            tasks |-> Stably(RowsOf(rows, ordered[i]), ByTimeDown(rows, at))]]

(* The order in which rows are copied, the oldest first.                   *)
formatTasksAsXML(rows, at) == Stably(rows, ByTime(rows, at))
=============================================================================
