----------------------------- MODULE NativeCommands -----------------------------
(***************************************************************************)
(* The commands the native library accepts: for each the fields it must    *)
(* have, those it may have and the values they take, and what handle it    *)
(* makes (engine.rs, bindings.rs, eager.rs, io_extended.rs,                *)
(* temporal_relational.rs, selectors.rs, sql.rs).  A command is a set of   *)
(* schemas, and a request is accepted when it fits one of them.            *)
(***************************************************************************)
EXTENDS NativeFunctions

Only(result, required) == {Schema(result, required, NoFields)}

Lazy   == [input |-> Handle("lazyFrame")]
Frame  == [frame |-> Handle("frame")]
Column == [series |-> Handle("series")]
Sides  == [left |-> Handle("lazyFrame"), right |-> Handle("lazyFrame")]

Durations == One({"duration"})

--------------------------------------------------------------------------------
(* engine.rs: commands of its own dispatch *)

CoreCommands ==
    [hello              |-> Only("value", NoFields),
     runtimeDiagnostics |-> Only("value", NoFields),
     frameImport        |-> Only("frame", [batch |-> One({"batch"})]),
     frameInfo          |-> Only("value", Frame),
     frameExport        |-> Only("value", Frame),
     frameLazy          |-> Only("lazyFrame", Frame)]

OptimizerFlags ==
    {"projectionPushdown", "predicatePushdown", "clusterWithColumns",
     "typeCoercion", "simplifyExpression", "typeCheck", "slicePushdown",
     "commonSubplanElimination", "commonSubexpressionElimination",
     "rowEstimate", "fastProjection", "checkOrderObserve", "sortCollapse",
     "partitionHive"}

Engines == One({"auto", "in-memory", "streaming"})

Execution == Each(OptimizerFlags, Flag) @@ [engine |-> Engines]

\* A job runs on the engine that can be cancelled.  A poll of a stream and a take
\* of a job make a frame only when there is one (see Jobs and BatchStream).
ExecutionCommands ==
    [lazyCollect       |-> {Schema("frame", Lazy, Execution)},
     lazySubmit        |-> {Schema("job", Lazy,
                                   [engine |-> One({"auto"})] @@ Execution)},
     lazyProfile       |-> {Schema("frames", Lazy, Each(OptimizerFlags, Flag))},
     jobPoll           |-> Only("value", [job |-> Handle("job")]),
     jobCancel         |-> Only("value", [job |-> Handle("job")]),
     jobTake           |-> Only("frame", [job |-> Handle("job")]),
     lazyBatchStream   |-> Only("batchStream",
                                Lazy @@ [batchRows |-> Positive \cap Bounded,
                                         capacity  |-> Positive \cap Bounded,
                                         engine    |-> Engines]),
     batchStreamPoll   |-> Only("frame", [stream |-> Handle("batchStream")]),
     batchStreamCancel |-> Only("value", [stream |-> Handle("batchStream")])]

ExprCommands ==
    [exprColumn    |-> Only("expr", [name |-> Text]),
     exprLiteral   |-> Only("expr", [scalar |-> One({"scalar"})]),
     exprLen       |-> Only("expr", NoFields),
     exprAlias     |-> Only("expr", [input |-> Handle("expr"), name |-> Text]),
     exprCast      |-> {Schema("expr", [input |-> Handle("expr"),
                                        dtype |-> One({"dtype"})],
                               [strict |-> Flag])},
     exprTernary   |-> Only("expr", Each({"predicate", "truthy", "falsy"},
                                         Handle("expr"))),
     exprAggregate |-> AggregateSchemas,
     exprFunction  |-> FunctionSchemas,
     exprMeta      |-> MetaSchemas]

ScanAndPlanCommands ==
    [lazyScanCsv     |-> {Schema("lazyFrame", [path |-> Path],
                                 [separator |-> Byte,
                                  skipRows |-> Unsigned, nRows |-> Unsigned]
                                 @@ Each({"hasHeader", "tryParseDates"}, Flag))},
     lazyScanParquet |-> {Schema("lazyFrame", [path |-> Path],
                                 [nRows |-> Unsigned, parallel |-> Flag])},
     lazySchema      |-> Only("value", Lazy),
     lazyExplain     |-> {Schema("value", Lazy @@ [optimized |-> Flag],
                                 [format |-> One({"plain", "tree", "dot"})])},
     lazySelectInputs      |-> Only("lazyFrame", Lazy @@
         [expressions |-> Many({"expr", "selector"}, Few)]),
     lazyWithColumnsInputs |-> Only("lazyFrame", Lazy @@
         [expressions |-> Many({"expr", "selector"}, Few)])]

--------------------------------------------------------------------------------
(* engine.rs and io_extended.rs: files *)

CsvOptions ==
    Each({"includeHeader", "includeBom", "floatScientific", "decimalComma"}, Flag)
    @@ Each({"dateFormat", "timeFormat", "datetimeFormat", "nullValue",
             "lineTerminator"}, AnyText)
    @@ Each({"separator", "quoteChar"}, Byte)
    @@ [batchSize |-> Positive, floatPrecision |-> Unsigned,
        quoteStyle |-> One({"necessary", "always", "nonNumeric", "never"})]

ParquetOptions ==
    Each({"statisticsMin", "statisticsMax", "statisticsDistinctCount",
          "statisticsNullCount"}, Flag)
    @@ Each({"rowGroupSize", "dataPageSize"}, Positive)
    @@ [statisticsBinaryTruncateLength |-> Unsigned,
        compression |-> One({"none", "uncompressed", "snappy", "gzip", "brotli",
                             "zstd", "lz4", "lz4raw"})]

IpcCompression == One({"none", "uncompressed", "lz4", "zstd"})

\* The path of an extended command is a local one.
Local == [path |-> Path \ One({"uri"})]

WriteCommands ==
    [frameWriteCsv       |-> {Schema("value", Frame @@ [path |-> Path],
                                     CsvOptions @@ [nThreads |-> Positive])},
     frameWriteParquet   |-> {Schema("value", Frame @@ [path |-> Path],
                                     ParquetOptions @@ [parallel |-> Flag])},
     frameWriteIpc       |-> {Schema("value", Frame @@ Local,
                                     [compression |-> IpcCompression,
                                      recordBatchSize |-> Unsigned] @@
                                     Each({"parallel", "recordBatchStatistics"},
                                          Flag))},
     frameWriteIpcStream |-> {Schema("value", Frame @@ Local,
                                     [compression |-> IpcCompression])},
     frameWriteJson      |-> Only("value", Frame @@ Local),
     frameWriteNdjson    |-> Only("value", Frame @@ Local)]

\* The fields read before File::create; a value of another field that is refused
\* is refused when the file is there and empty.
ReadBeforeCreate ==
    [frameWriteCsv       |-> {"frame", "path", "separator"},
     frameWriteParquet   |-> {"frame", "path", "compression"},
     frameWriteIpc       |-> {"frame", "path"},
     frameWriteIpcStream |-> {"frame", "path"},
     frameWriteJson      |-> {"frame", "path"},
     frameWriteNdjson    |-> {"frame", "path"}]

\* 0 and null are the same to the positive numbers of these options.
SinkCommands ==
    LET Sink(options) == {Schema("value", Lazy @@ Local,
                                 options @@ [maintainOrder |-> Flag])}
    IN  [lazySinkCsv     |-> Sink([batchSize |-> Positive \cup Null] @@ CsvOptions),
         lazySinkParquet |-> Sink(Each({"rowGroupSize", "dataPageSize"},
                                       Positive \cup Null) @@ ParquetOptions),
         lazySinkIpc     |-> Sink([compression |-> IpcCompression,
                                   recordBatchSize |-> Unsigned,
                                   recordBatchStatistics |-> Flag]),
         lazySinkNdjson  |-> Sink(NoFields)]

ReadCommands ==
    [lazyScanIpc        |-> {Schema("lazyFrame", Local, [nRows |-> Unsigned] @@
                                    Each({"cache", "rechunk",
                                          "recordBatchStatistics"}, Flag))},
     lazyScanNdjson     |-> {Schema("lazyFrame", Local,
                                    [nRows |-> Unsigned,
                                     inferSchemaLength |-> Positive \cup Null] @@
                                    Each({"ignoreErrors", "lowMemory", "rechunk"},
                                         Flag))},
     frameReadJson      |-> {Schema("frame", Local,
                                    [rechunk |-> Flag] @@
                                    Each({"inferSchemaLength", "batchSize"},
                                         Positive \cup Null))},
     frameReadIpcStream |-> {Schema("frame", Local,
                                    [nRows |-> Unsigned, columns |-> Names,
                                     rechunk |-> Flag])}]

--------------------------------------------------------------------------------
(* bindings.rs *)

OperatorCommands ==
    [exprUnary  |-> Only("expr", [input |-> Handle("expr"),
                                  op |-> One({"not", "negate", "neg", "isNull",
                                              "isNotNull", "isNan", "isNotNan"})]),
     exprBinary |-> Only("expr", [left |-> Handle("expr"), right |-> Handle("expr"),
         op |-> One({"eq", "eqValidity", "notEq", "notEqValidity", "lt", "ltEq",
                     "gt", "gtEq", "add", "subtract", "multiply", "trueDivide",
                     "floorDivide", "modulo", "bitAnd", "logicalAnd", "bitOr",
                     "logicalOr", "bitXor"})])]

LazyCommands ==
    [lazySelect      |-> Only("lazyFrame", Lazy @@ [expressions |-> HandleArray("expr", Few)]),
     lazyWithColumns |-> Only("lazyFrame", Lazy @@ [expressions |-> HandleArray("expr", Few)]),
     lazyFilter      |-> Only("lazyFrame", Lazy @@ [predicate |-> Handle("expr")]),
     lazySort        |-> {Schema("lazyFrame", Lazy @@ [by |-> HandleArray("expr", {n})],
                                 [descending |-> Flags(n), nullsLast |-> Flags(n),
                                  maintainOrder |-> Flag]) : n \in 1..2},
     lazySlice       |-> Only("lazyFrame",
                              Lazy @@ [offset |-> Integer, length |-> Bounded]),
     lazyGroupBy     |-> {Schema("lazyFrame",
                                 Lazy @@ Each({"keys", "aggregations"},
                                              HandleArray("expr", Few)),
                                 [maintainOrder |-> Flag])}]

\* Keys go with every join but a cross join, and as many on either side; only
\* some joins validate or coalesce; forceParallel asks for allowParallel.
Joins ==
    {[how |-> {"cross"}, keys |-> {0}, coalesce |-> {"null", "false"},
      validation |-> {"manyToMany"}],
     [how |-> {"semi", "anti"}, keys |-> 1..2, coalesce |-> {"null", "false"},
      validation |-> {"manyToMany"}],
     [how |-> {"right"}, keys |-> 1..2, coalesce |-> {"null", "false", "true"},
      validation |-> {"manyToMany"}],
     [how |-> {"inner", "left", "full", "outer"}, keys |-> 1..2,
      coalesce |-> {"null", "false", "true"},
      validation |-> {"manyToMany", "manyToOne", "oneToMany", "oneToOne"}]}

Parallel ==
    {[allowParallel |-> Flag, forceParallel |-> One({"false"})],
     [allowParallel |-> One({"true"}), forceParallel |-> Flag]}

JoinCommands ==
    [lazyJoin |->
        UNION {{Schema("lazyFrame",
                       Sides @@ [how |-> One(join.how),
                                 leftOn |-> HandleArray("expr", {n}),
                                 rightOn |-> HandleArray("expr", {n})],
                       [coalesce |-> One(join.coalesce), suffix |-> AnyText,
                        nullsEqual |-> Flag, validation |-> One(join.validation),
                        maintainOrder |-> One({"none", "left", "right",
                                               "leftRight", "rightLeft"})]
                       @@ parallel) :
                    n \in join.keys, parallel \in Parallel} : join \in Joins}]

ColumnFields == [columns |-> Names]
RenameFields(n) == Each({"existing", "new"}, Many({"text"}, {n})) @@ [strict |-> Flag]
UnpivotFields == [on |-> Names] @@ Each({"variableName", "valueName"}, Text)
DistinctFields == [subset |-> Names, maintainOrder |-> Flag,
                   keep |-> One({"first", "last", "any", "none"})]

\* Mutant of ExplodeFields: the table does not know an option the method sends.
ExplodeFieldsOld == [emptyAsNull |-> One({"true"})]

ExplodeFields == Each({"emptyAsNull", "keepNulls"}, One({"true"}))

TableCommands ==
    [lazyDistinct  |-> {Schema("lazyFrame", Lazy, DistinctFields)},
     lazyDropNulls |-> {Schema("lazyFrame", Lazy, [subset |-> Names])},
     lazyDrop      |-> Only("lazyFrame", Lazy @@ ColumnFields @@ [strict |-> Flag]),
     lazyRename    |-> {Schema("lazyFrame", Lazy @@ RenameFields(n), NoFields) :
                            n \in Few},
     lazyExplode   |-> {Schema("lazyFrame", Lazy @@ ColumnFields, ExplodeFields)},
     lazyUnnest    |-> Only("lazyFrame", Lazy @@ ColumnFields),
     lazyUnpivot   |-> {Schema("lazyFrame", Lazy @@ [index |-> Names], UnpivotFields)},
     lazyConcat    |->
        {Schema("lazyFrame", [inputs |-> HandleArray("lazyFrame", 1..2)],
                [rechunk |-> Flag,
                 how |-> One({"vertical", "verticalRelaxed", "diagonal",
                              "diagonalRelaxed"})]),
         Schema("lazyFrame", [inputs |-> HandleArray("lazyFrame", 1..2)],
                [rechunk |-> One({"false"}), how |-> One({"horizontal"})])}]

--------------------------------------------------------------------------------
(* temporal_relational.rs *)

AsOfFields ==
    Each({"leftOn", "rightOn"}, Handle("expr"))
    @@ Each({"allowEqual", "checkSortedness"}, Flag)
    @@ [strategy |-> One({"backward", "forward", "nearest"}), suffix |-> Text]

AsOfCommands ==
    [lazyJoinAsOf |->
        {Schema("lazyFrame", Sides @@ AsOfFields @@ parallel @@ by,
                [tolerance |-> Durations, coalesce |-> Null \cup Flag]) :
            parallel \in Parallel,
            by \in {NoFields} \cup {Each({"leftBy", "rightBy"}, Many({"text"}, {n})) :
                                        n \in Few}}]

JoinWhereCommands ==
    [lazyJoinWhere |->
        {Schema("lazyFrame",
                Sides @@ parallel @@ [predicates |-> HandleArray("expr", 1..2),
                                      suffix |-> Text], NoFields) :
            parallel \in Parallel}]

Closed == One({"left", "right", "both", "none"})

Grouping == Lazy @@ [indexColumn |-> Handle("expr"), closed |-> Closed]
                 @@ Each({"groupBy", "aggregations"}, HandleArray("expr", Few))

DynamicCommands ==
    [lazyGroupByDynamic |->
        {Schema("lazyFrame",
                Grouping @@
                [every |-> Durations, includeBoundaries |-> Flag,
                 label |-> One({"left", "right", "dataPoint"}),
                 startBy |-> One({"windowBound", "dataPoint", "monday", "tuesday",
                                  "wednesday", "thursday", "friday", "saturday",
                                  "sunday"})],
                Each({"period", "offset"}, Durations))}]

RollingCommands ==
    [lazyGroupByRolling |->
        {Schema("lazyFrame", Grouping @@ [period |-> Durations],
                [offset |-> Durations])}]

OverFields == Each({"orderDescending", "orderNullsLast", "orderMaintainOrder",
                    "orderMultithreaded"}, Flag)

OverCommands ==
    LET over(partitions, orders) ==
            [input |-> Handle("expr"), partitionBy |-> HandleArray("expr", partitions),
             orderBy |-> HandleArray("expr", orders),
             mapping |-> One({"groupsToRows", "explode", "join"})]
    IN  [exprOver |-> {Schema("expr", over(1..2, {0}), OverFields),
                       Schema("expr", over(Few, 1..2) @@ OverFields, NoFields)}]

--------------------------------------------------------------------------------
(* selectors.rs *)

SelectorOps == One({"union", "intersection", "symmetricDifference", "difference"})

SelectorCommands ==
    [selectorAll     |-> Only("selector", NoFields),
     selectorEmpty   |-> Only("selector", NoFields),
     selectorByName  |-> {Schema("selector", [names |-> Many({"text"}, 1..2)],
                                 Each({"strict", "expandPatterns"}, Flag))},
     selectorByIndex |-> {Schema("selector",
                                 [indices |-> Many({"negative", "zero", "natural",
                                                    "wide"}, 1..2)],
                                 [strict |-> Flag])},
     selectorMatches |-> Only("selector", [pattern |-> Text]),
     selectorBinary  |-> Only("selector", Each({"left", "right"}, Handle("selector"))
                                          @@ [op |-> SelectorOps]),
     selectorNot     |-> Only("selector", [input |-> Handle("selector")]),
     selectorAsExpr  |-> Only("expr", [input |-> Handle("selector")]),
     dtypeSelectorBinary |->
        Only("dtypeSelector", Each({"left", "right"}, Handle("dtypeSelector"))
                              @@ [op |-> SelectorOps]),
     dtypeSelectorNot        |-> Only("dtypeSelector", [input |-> Handle("dtypeSelector")]),
     dtypeSelectorAsSelector |-> Only("selector", [input |-> Handle("dtypeSelector")]),
     dtypeSelectorMatches    |-> Only("value", [input |-> Handle("dtypeSelector"),
                                                dtype |-> One({"dtype"})])]

UnitLists == Many({"nanoseconds", "microseconds", "milliseconds"}, 1..2)

DTypeSelectorKinds ==
    LET Of(kinds, required, optional) ==
            Schema("dtypeSelector", [kind |-> One(kinds)] @@ required, optional)
        Zones(modes, sizes) == Of({"datetime"},
            [units |-> UnitLists, timeZoneMode |-> One(modes),
             timeZones |-> Many({"text"}, sizes)], NoFields)
    IN  {Of({"all", "empty", "integer", "unsignedInteger", "signedInteger",
             "floating", "enum", "categorical", "nested", "struct", "decimal",
             "numeric", "temporal", "object"}, NoFields, NoFields),
         Of({"anyOf"}, [dtypes |-> Many({"dtype"}, 1..2)], NoFields),
         Of({"list"}, NoFields, [inner |-> Handle("dtypeSelector")]),
         Of({"array"}, NoFields, [inner |-> Handle("dtypeSelector"), width |-> Positive]),
         Of({"duration"}, [units |-> UnitLists], NoFields),
         Of({"datetime"}, [units |-> UnitLists,
                           timeZoneMode |-> One({"any", "anySet", "unset"})], NoFields),
         Zones({"any", "anySet", "unset"}, {0}),
         Zones({"anyOf", "unsetOrAnyOf"}, 1..2)}

DTypeSelectorCommands == [dtypeSelectorCreate |-> DTypeSelectorKinds]

--------------------------------------------------------------------------------
(* eager.rs *)

SeriesCommands ==
    [seriesImport    |-> Only("series", [column |-> One({"column"})]),
     seriesInfo      |-> Only("value", Column),
     seriesExport    |-> Only("value", Column),
     seriesToFrame   |-> Only("frame", Column),
     seriesRename    |-> Only("series", Column @@ [name |-> Text]),
     seriesCast      |-> {Schema("series", Column @@ [dtype |-> One({"dtype"})],
                                 [strict |-> Flag])},
     seriesSlice     |-> Only("series", Column @@ [offset |-> Integer,
                                                   length |-> Unsigned]),
     seriesReverse   |-> Only("series", Column),
     seriesSort      |-> {Schema("series", Column,
                                 Each({"descending", "nullsLast", "maintainOrder",
                                       "multithreaded"}, Flag))},
     seriesFilter    |-> Only("series", Column @@ [mask |-> Handle("series")]),
     seriesDropNulls |-> Only("series", Column),
     seriesAppend    |-> Only("series", Column @@ [other |-> Handle("series")]),
     seriesGather    |-> Only("series", Column @@ [indices |-> Handle("series")]),
     seriesUnique    |-> {Schema("series", Column, [maintainOrder |-> Flag])}]

SeriesOps == One({"eq", "eqValidity", "notEq", "notEqValidity", "lt", "ltEq",
                  "gt", "gtEq", "add", "subtract", "multiply", "trueDivide"})

\* Exactly one of right and scalar.
SeriesComputations ==
    [seriesBinary    |->
        {Schema("series", [left |-> Handle("series"), op |-> SeriesOps] @@ operand,
                NoFields) :
            operand \in {[right |-> Handle("series")], [scalar |-> One({"scalar"})]}},
     seriesAggregate |-> Only("value", Column @@
        [op |-> One({"count", "nUnique", "sum", "mean", "min", "max", "first",
                     "last"})])]

FrameCommands ==
    [frameColumn        |-> Only("series", Frame @@ [name |-> Text]),
     frameSelectColumns |-> Only("frame", Frame @@ ColumnFields),
     frameSelect        |-> Only("frame", Frame @@ [expressions |-> HandleArray("expr", Few)]),
     frameWithColumns   |-> Only("frame", Frame @@ [expressions |-> HandleArray("expr", Few)]),
     frameFilter        |-> Only("frame", Frame @@ [predicate |-> Handle("expr")]),
     frameFilterMask    |-> Only("frame", Frame @@ [mask |-> Handle("series")]),
     frameSort          |-> {Schema("frame",
                                    Frame @@ [by |-> HandleArray("expr", {n}),
                                              descending |-> Flags(n),
                                              nullsLast |-> Flags(n)],
                                    [maintainOrder |-> Flag]) : n \in 1..2},
     frameSlice         |-> Only("frame", Frame @@ [offset |-> Integer,
                                                    length |-> Unsigned]),
     frameReverse       |-> Only("frame", Frame),
     frameDistinct      |-> {Schema("frame", Frame, DistinctFields)}]

FrameTableCommands ==
    [frameDropNulls |-> {Schema("frame", Frame, [subset |-> Names])},
     frameExplode   |-> {Schema("frame", Frame @@ ColumnFields, ExplodeFields)},
     frameUnnest    |-> Only("frame", Frame @@ ColumnFields),
     frameUnpivot   |-> {Schema("frame", Frame @@ [index |-> Names], UnpivotFields)},
     frameTranspose |-> {Schema("frame", Frame,
                                [includeHeader |-> Flag, headerName |-> AnyText,
                                 columnNames |-> Names])},
     frameDrop      |-> Only("frame", Frame @@ ColumnFields @@ [strict |-> Flag]),
     frameRename    |-> {Schema("frame", Frame @@ RenameFields(n), NoFields) :
                             n \in Few}]

--------------------------------------------------------------------------------
(* sql.rs *)

SqlCommands ==
    LET Context == [context |-> Handle("sqlContext")]
    IN  [sqlContextNew         |-> Only("sqlContext", NoFields),
         sqlContextRegister    |-> Only("value", Context @@
             [name |-> Text, input |-> Handle("lazyFrame")]),
         sqlContextRegisterAll |-> Only("value", Context @@
             [tables |-> HandleArray("lazyFrame", Few)]),
         sqlContextUnregister  |-> Only("value", Context @@ [names |-> Names]),
         sqlContextTables      |-> Only("value", Context),
         sqlContextExecute     |-> Only("lazyFrame", Context @@ [query |-> Text])]

--------------------------------------------------------------------------------

Schemas ==
    CoreCommands @@ ExecutionCommands @@ ExprCommands @@ ScanAndPlanCommands
        @@ WriteCommands @@ SinkCommands @@ ReadCommands @@ OperatorCommands
        @@ LazyCommands @@ JoinCommands @@ TableCommands @@ AsOfCommands
        @@ JoinWhereCommands @@ DynamicCommands @@ RollingCommands @@ OverCommands
        @@ SelectorCommands @@ DTypeSelectorCommands @@ SeriesCommands
        @@ SeriesComputations @@ FrameCommands @@ FrameTableCommands @@ SqlCommands

\* Invoke: the command exists and the request fits it.
Accepts(command, fields) ==
    /\ command \in DOMAIN Schemas
    /\ \E schema \in Schemas[command] : Fits(schema, fields)

\* A request refused, but only after its file was created or emptied.
RefusedTooLate(command, fields) ==
    /\ command \in DOMAIN ReadBeforeCreate
    /\ ~Accepts(command, fields)
    /\ \E schema \in Schemas[command] :
          /\ NamesFit(schema, fields)
          /\ \A f \in DOMAIN fields \cap ReadBeforeCreate[command] :
                fields[f] \in accepted(schema, f)

================================================================================
