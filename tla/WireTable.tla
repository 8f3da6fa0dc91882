------------------------------- MODULE WireTable -------------------------------
(***************************************************************************)
(* A client written from the table of protocol/README.md instead of from   *)
(* the Dart package: for each command of the series group it sends the     *)
(* fields the table lists, with values the library would take.             *)
(***************************************************************************)
EXTENDS NativeCommands

\* The fields of the table, with the first of right and scalar for seriesBinary.
Listed ==
    [seriesImport    |-> {"column"},
     seriesInfo      |-> {"series"},
     seriesExport    |-> {"series"},
     seriesToFrame   |-> {"series"},
     seriesRename    |-> {"series", "name"},
     seriesCast      |-> {"series", "dtype", "strict"},
     seriesSlice     |-> {"series", "offset", "length"},
     seriesReverse   |-> {"series"},
     seriesSort      |-> {"series", "descending", "nullsLast", "maintainOrder",
                          "multithreaded"},
     seriesFilter    |-> {"series", "mask"},
     seriesDropNulls |-> {"series"},
     seriesAppend    |-> {"left", "right"},
     seriesGather    |-> {"series", "indices"},
     seriesUnique    |-> {"series", "maintainOrder"},
     seriesBinary    |-> {"left", "right", "op"},
     seriesAggregate |-> {"series", "op"}]

VARIABLES
    asked,    \* the commands sent so far
    answers   \* command -> whether the library accepted it

vars == <<asked, answers>>

Init == asked = {} /\ answers = <<>>

\* A value of the kind the library wants in a field, or a series handle.
value(command, field) ==
    LET wanted == UNION {accepted(s, field) :
                             s \in {t \in Schemas[command] :
                                        field \in DOMAIN t.required \cup DOMAIN t.optional}}
    IN  CHOOSE v \in wanted \cup Handle("series") : wanted = {} \/ v \in wanted

\* validate_fields and the reads of the command's arm.
Ask(command) ==
    /\ command \notin asked
    /\ asked' = asked \cup {command}
    /\ answers' = (command :>
                      Accepts(command, [f \in Listed[command] |-> value(command, f)]))
                  @@ answers

Next == \E command \in DOMAIN Listed : Ask(command)

Spec == Init /\ [][Next]_vars

\* "The table lists every accepted command-specific field" (protocol/README.md:68):
\* what the table lists for a command is accepted.
ListedIsAccepted == \A command \in asked : answers[command]

================================================================================
