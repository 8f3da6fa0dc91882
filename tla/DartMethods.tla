------------------------------ MODULE DartMethods ------------------------------
(***************************************************************************)
(* The commands the methods of the Dart package send (expression*.dart,    *)
(* selectors.dart, polars.dart, plan.dart, dataframe*.dart, series.dart,   *)
(* sql.dart, io_*.dart).  A method has a class it wraps the answer in, a   *)
(* command, the fields it always sends and those it sends when an option   *)
(* is set, with the values its own checks let through; a rule across       *)
(* fields is a choice between methods.                                     *)
(*                                                                         *)
(*   lets   values it does not check although the native library does      *)
(*   made   the wrappers it makes and closes on the way, in order, as the  *)
(*          alternatives the arguments decide                              *)
(*   given  the wrappers the caller gives to a method that makes some      *)
(*                                                                         *)
(* The asynchronous twin of a method sends the same command.               *)
(***************************************************************************)
EXTENDS Wire, Sequences

Method(class, command, always, sometimes) ==
    [class |-> class, command |-> command, always |-> always,
     sometimes |-> sometimes, lets |-> NoFields, made |-> {<<>>}, given |-> {}]

Letting(method, values)        == [method EXCEPT !.lets = values @@ @]
Composite(method, given, made) == [method EXCEPT !.given = given, !.made = made]

\* Lists whose length no check of the package bounds, and paths of any length.
Uncounted(method, names) ==
    LET fields == method.always @@ method.sometimes
    IN  Letting(method, [f \in names \cap DOMAIN fields |->
                            {v \in fields[f] : v.size = TooMany}])

Unmeasured(method) == Letting(method, [path |-> One({"long"})])

AnyNumber  == 0..TooMany
AtLeastOne == 1..TooMany

--------------------------------------------------------------------------------
(* polars.dart: what the checks of an argument let through *)

\* Mutant of validatePositive: zero passes for positive.
validatePositiveLoose(numbers) == numbers \ One({"negative"})

validatePositive(numbers) == numbers \ One({"negative", "zero"})
validateUnsigned(numbers) == numbers \ One({"negative"})
validateName(texts)       == texts \ One({"empty"})
validateLocalPath(texts)  == validateName(texts) \ One({"uri"})
validateSeparator(texts)  == texts \cap Byte

\* plan.dart: _validatedNames and _broadcast; selectors.dart: _selectorNames, which
\* does count; Dart's own bound of a length.
validatedNames(lists)  == {l \in lists : l.size > 0 /\ l.class # "empty"}
broadcast(length)      == Flags(length)
selectorNames(lists)   == {l \in validatedNames(lists) : l.size # TooMany}
bounded(numbers)       == validateUnsigned(numbers) \ One({"wide"})

AnyNames == Many({"empty", "text"}, AnyNumber)

--------------------------------------------------------------------------------
(* expression*.dart *)

OfExpr(command, fields) ==
    Method("expr", command, [input |-> Handle("expr")] @@ fields, NoFields)

\* _withOperands: an operand that is no Expr becomes a temporary literal.
Literals(counts) == {[i \in 1..n |-> "expr"] : n \in counts}

Operands(method, counts) == Composite(method, {"expr"}, Literals(counts))

Fn(names, arity, options) ==
    Operands(OfExpr("exprFunction",
                    [name |-> One(names), arguments |-> HandleArray("expr", {arity})]
                    @@ options),
             0..arity)

NoOptions == NoFields

\* The operators and the named methods; unary and binary themselves are below.
ExprMethods ==
    {Method("expr", "exprColumn", [name |-> validateName(AnyText)], NoFields),
     Method("expr", "exprLiteral", [scalar |-> One({"scalar"})], NoFields),
     Method("expr", "exprLen", NoFields, NoFields),
     OfExpr("exprAlias", [name |-> validateName(AnyText)]),
     OfExpr("exprCast", [dtype |-> One({"dtype"}), strict |-> Flag]),
     OfExpr("exprUnary", [op |-> One({"not", "isNull", "isNotNull", "isNan",
                                      "isNotNan", "negate"})]),
     Operands(Method("expr", "exprBinary",
                     Each({"left", "right"}, Handle("expr")) @@
                     [op |-> One({"eq", "eqValidity", "notEq", "notEqValidity",
                                  "lt", "ltEq", "gt", "gtEq", "logicalAnd",
                                  "logicalOr", "add", "subtract", "multiply",
                                  "trueDivide", "floorDivide", "modulo",
                                  "bitAnd", "bitOr", "bitXor"})], NoFields), 0..1),
     Operands(Method("expr", "exprTernary",
                     Each({"predicate", "truthy", "falsy"}, Handle("expr")),
                     NoFields), 0..2)}

\* The methods that take the name of an operation from the caller, known or not;
\* function sends any arguments along, and no options.
GenericMethods ==
    LET named == validateName(AnyText)
        names == named \cup One({"abs", "clip", "round"})
    IN  {Letting(OfExpr("exprUnary", [op |-> named]), [op |-> named]),
         Letting(Operands(Method("expr", "exprBinary",
                                 Each({"left", "right"}, Handle("expr"))
                                 @@ [op |-> named], NoFields), 0..1),
                 [op |-> named]),
         Uncounted(Letting(OfExpr("exprFunction",
                                  [name |-> names,
                                   arguments |-> HandleArray("expr", AnyNumber)]),
                           [name |-> names]),
                   {"arguments"})}

\* The values of the map aggregate takes; an array or an object fits no option, as
\* a text fits none.
Arguments == Null \cup Flag \cup Numbers \cup One({"real", "linear"}) \cup AnyText

\* aggregate spreads its map over the request: a known operation (skew and quantile
\* have an option they need) with its own options, another's, none or one nobody
\* knows, and input, op or the command replaced.  Of the other commands only these
\* two have both fields; the answer of exprMeta has no handle: adopting it throws.
AggregateWithArguments ==
    LET named   == validateName(AnyText)
        options == Each({"ddof", "bias", "quantile", "interpolation", "other"},
                        Arguments)
        Sent(command, input, ops, added) ==
            Composite(Method("expr", command, [input |-> input, op |-> ops], added),
                      {"expr"}, {<<>>})
        other   == named \cup One({"not", "rootNames"})
    IN  {Letting(Sent("exprAggregate", Handle("expr"),
                      named \cup One({"sum", "std", "skew", "quantile"}), options),
                 options @@ [op |-> named \cup One({"skew", "quantile"})]),
         Letting(Sent("exprAggregate", Handle("expr"), Arguments, options),
                 [op |-> Arguments]),
         Letting(Sent("exprAggregate", Arguments, named, options),
                 [input |-> Arguments])}
        \cup
        {Letting(Sent(command, Handle("expr"), other, options), [op |-> other]) :
            command \in {"exprUnary", "exprMeta"}}

\* std and quantile check their own ranges.
AggregateMethods ==
    LET Aggregate(names, options) ==
            OfExpr("exprAggregate", [op |-> One(names)] @@ options)
    IN  {Aggregate({"count", "nullCount", "sum", "mean", "min", "max", "first",
                    "last", "median", "nUnique", "product", "argMin", "argMax",
                    "approximateNUnique", "nanMin", "nanMax"}, NoOptions),
         Aggregate({"mode"}, [maintainOrder |-> Flag]),
         Aggregate({"skew"}, [bias |-> Flag]),
         Aggregate({"kurtosis"}, [fisher |-> Flag, bias |-> Flag]),
         Aggregate({"any", "all"}, [ignoreNulls |-> Flag]),
         Aggregate({"std", "variance"}, [ddof |-> bounded(Numbers)]),
         Aggregate({"quantile"},
                   [quantile |-> One({"zero", "real"}),
                    interpolation |-> One({"nearest", "lower", "higher",
                                           "midpoint", "linear"})])}

FunctionMethods ==
    {Fn({"abs", "floor", "ceil", "isFinite", "isInfinite", "lowercase",
         "uppercase", "stripChars", "sqrt", "cbrt", "log1p", "exp", "sin", "cos",
         "tan", "cot", "asin", "acos", "atan", "sinh", "cosh", "tanh", "asinh",
         "acosh", "atanh", "degrees", "radians"}, 0, NoOptions),
     Fn({"fillNull", "clipMin", "clipMax", "fillNan", "stringStartsWith",
         "stringEndsWith", "stripChars", "shift", "pow", "log", "atan2",
         "interpolateBy", "pctChange"}, 1, NoOptions),
     Fn({"clip"}, 2, NoOptions),
     Fn({"coalesce"}, 1, NoOptions), Fn({"coalesce"}, 2, NoOptions),
     Uncounted(Fn({"coalesce"}, TooMany, NoOptions), {"arguments"}),
     Fn({"round"}, 0, [decimals |-> bounded(Numbers),
                       mode |-> One({"halfToEven", "halfAwayFromZero", "toZero"})]),
     Fn({"isIn"}, 1, [nullsEqual |-> Flag]),
     Fn({"stringContains"}, 1, [literal |-> One({"true"}), strict |-> One({"false"})]),
     Fn({"stringContains"}, 1, [literal |-> One({"false"}), strict |-> Flag]),
     Fn({"stringReplace"}, 2, [literal |-> Flag, replaceAll |-> Flag]),
     Fn({"cumSum", "cumMin", "cumMax"}, 0, [reverse |-> Flag]),
     Fn({"rank"}, 0, [method |-> One({"average", "min", "max", "dense", "ordinal"}),
                      descending |-> Flag]),
     Fn({"interpolate"}, 0, [method |-> One({"linear", "nearest"})]),
     Fn({"diff"}, 1, [nullBehavior |-> One({"ignore", "drop"})])}

\* expression_options.dart.  minPeriods is at most windowSize, and there are as
\* many weights; numbers of one class are taken to be in order, as in
\* NativeFunctions.  ewmMean and ewmSum leave out what they refuse.
WindowFunctionMethods ==
    LET Ewm == [alpha |-> One({"real"}), minPeriods |-> validateUnsigned(Numbers),
                ignoreNulls |-> Flag]
        Rolling(size, periods) ==
            [Fn({"rollingMin", "rollingMax", "rollingMean", "rollingSum",
                 "rollingMedian", "rollingVariance", "rollingStd"}, 0,
                [windowSize |-> One({size}), minPeriods |-> One(periods),
                 center |-> Flag])
             EXCEPT !.sometimes = [weights |-> Many({"real"}, {2})]]
    IN  {Rolling("natural", {"zero", "natural"}),
         Rolling("wide", {"zero", "natural", "wide"}),
         Fn({"ewmMean"}, 0, Ewm @@ [adjust |-> Flag]),
         Fn({"ewmSum"}, 0, Ewm),
         Fn({"ewmStd", "ewmVariance"}, 0, Ewm @@ [adjust |-> Flag, bias |-> Flag])}

\* expression_string.dart.  The format of a parse and the zone of toDatetime go
\* unchecked.
StringMethods ==
    LET Parse == Each({"strict", "exact", "cache"}, Flag)
        Format(method, optional) ==
            Letting([method EXCEPT !.sometimes = [format |-> AnyText] @@ optional],
                    Each({"format", "timeZone"}, One({"empty"})))
    IN  {Fn({"str.lenBytes", "str.lenChars", "str.toLowercase", "str.toUppercase",
             "str.stripChars", "str.stripCharsStart", "str.stripCharsEnd"},
            0, NoOptions),
         Fn({"str.startsWith", "str.endsWith", "str.extractAll", "str.stripChars",
             "str.stripCharsStart", "str.stripCharsEnd", "str.stripPrefix",
             "str.stripSuffix", "str.head", "str.tail", "str.zfill"}, 1, NoOptions),
         Fn({"str.slice"}, 2, NoOptions),
         Fn({"str.contains", "str.find"}, 1,
            [literal |-> One({"true"}), strict |-> One({"false"})]),
         Fn({"str.contains", "str.find"}, 1, [literal |-> One({"false"}), strict |-> Flag]),
         Fn({"str.extract"}, 1, [groupIndex |-> validateUnsigned(Numbers)]),
         Fn({"str.split"}, 1, Each({"inclusive", "regex", "strict"}, Flag)),
         Fn({"str.replace"}, 2, [literal |-> Flag, replaceAll |-> Flag]),
         Fn({"str.padStart", "str.padEnd"}, 1, [fill |-> Byte]),
         Format(Fn({"str.toDate", "str.toTime"}, 0, Parse), NoOptions),
         Format(Fn({"str.toDatetime"}, 1, Parse),
                [timeUnit |-> One({"nanoseconds", "microseconds", "milliseconds"}),
                 timeZone |-> AnyText])}

\* expression_nested.dart
NestedMethods ==
    {Fn({"list.len", "list.first", "list.last", "list.sum", "list.min", "list.max",
         "list.mean", "arr.len", "arr.sum", "arr.min", "arr.max", "arr.mean",
         "arr.toList", "struct.jsonEncode"}, 0, NoOptions),
     Fn({"list.slice"}, 2, NoOptions),
     Fn({"list.get", "arr.get"}, 1, [nullOnOob |-> Flag]),
     Fn({"list.contains", "arr.contains"}, 1, [nullsEqual |-> Flag]),
     Fn({"list.sort", "arr.sort"}, 0, [descending |-> Flag, nullsLast |-> Flag]),
     Fn({"arr.explode"}, 0, [emptyAsNull |-> Flag, keepNulls |-> Flag]),
     Fn({"struct.field"}, 0, [field |-> validateName(AnyText)]),
     Fn({"struct.fieldAt"}, 0, [index |-> Numbers]),
     Uncounted(Fn({"struct.renameFields"}, 0, [fields |-> validatedNames(AnyNames)]),
               {"fields"})}

\* expression_temporal.dart, expression_binary_categorical.dart,
\* expression_name_meta.dart
NamespaceMethods ==
    {Fn({"dt.year", "dt.isoYear", "dt.month", "dt.day", "dt.ordinalDay",
         "dt.weekday", "dt.week", "dt.quarter", "dt.hour", "dt.minute", "dt.second",
         "dt.millisecond", "dt.microsecond", "dt.nanosecond", "dt.date", "dt.time",
         "dt.baseUtcOffset", "dt.dstOffset", "bin.sizeBytes", "bin.hexEncode",
         "bin.base64Encode", "cat.physical", "cat.categories", "name.keep",
         "name.toLowercase", "name.toUppercase", "meta.undoAliases"}, 0, NoOptions),
     Fn({"dt.truncate", "dt.round", "dt.offsetBy", "bin.contains", "bin.startsWith",
         "bin.endsWith"}, 1, NoOptions),
     Fn({"dt.timestamp"}, 0,
        [timeUnit |-> One({"nanoseconds", "microseconds", "milliseconds"})]),
     Fn({"dt.format"}, 0, [format |-> validateName(AnyText)]),
     Fn({"dt.convertTimeZone"}, 0, [timeZone |-> validateName(AnyText)]),
     Fn({"name.prefix", "name.suffix"}, 0, [value |-> AnyText])}

MetaMethods ==
    LET Query(names, options) ==
            Method("value", "exprMeta",
                   [input |-> Handle("expr"), op |-> One(names)] @@ options, NoFields)
    IN  {Query({"rootNames", "outputName", "isColumn", "hasMultipleOutputs",
                "isRegexProjection"}, NoOptions),
         Query({"isColumnSelection", "isLiteral"}, [allowAliasing |-> Flag])}

OverMethods ==
    {Uncounted(OfExpr("exprOver",
                      [partitionBy |-> HandleArray("expr", sizes[1]),
                       orderBy |-> HandleArray("expr", sizes[2]),
                       mapping |-> One({"groupsToRows", "explode", "join"})]
                      @@ Each({"orderDescending", "orderNullsLast",
                               "orderMaintainOrder", "orderMultithreaded"}, Flag)),
               {"partitionBy", "orderBy"}) :
        sizes \in {<<AtLeastOne, {0}>>, <<AnyNumber, AtLeastOne>>}}

--------------------------------------------------------------------------------
(* selectors.dart *)

SelectorMethods ==
    LET Both(kind) == Each({"left", "right"}, Handle(kind)) @@
            [op |-> One({"union", "intersection", "symmetricDifference", "difference"})]
        Of(class, command, kind, fields) ==
            Method(class, command, [input |-> Handle(kind)] @@ fields, NoFields)
        AsSelector == Of("selector", "dtypeSelectorAsSelector", "dtypeSelector", NoFields)
    IN  {Method("selector", "selectorAll", NoFields, NoFields),
         Method("selector", "selectorEmpty", NoFields, NoFields),
         Method("selector", "selectorByName",
                [names |-> selectorNames(AnyNames)]
                @@ Each({"strict", "expandPatterns"}, Flag), NoFields),
         Method("selector", "selectorByIndex",
                [indices |-> Many({"negative", "zero", "natural", "wide"}, 1..2),
                 strict |-> Flag], NoFields),
         Method("selector", "selectorMatches",
                [pattern |-> validateName(AnyText)], NoFields),
         Method("selector", "selectorBinary", Both("selector"), NoFields),
         Of("selector", "selectorNot", "selector", NoFields),
         Of("expr", "selectorAsExpr", "selector", NoFields),
         Method("dtypeSelector", "dtypeSelectorBinary", Both("dtypeSelector"), NoFields),
         Of("dtypeSelector", "dtypeSelectorNot", "dtypeSelector", NoFields),
         Of("value", "dtypeSelectorMatches", "dtypeSelector", [dtype |-> One({"dtype"})]),
         AsSelector, Composite(AsSelector, {}, {<<"dtypeSelector">>})}

DTypeSelectorMethods ==
    LET Of(kinds, always, sometimes) ==
            Uncounted(Method("dtypeSelector", "dtypeSelectorCreate",
                             [kind |-> One(kinds)] @@ always, sometimes),
                      {"units", "timeZones"})
        Inner == [inner |-> Handle("dtypeSelector")]
        Units == [units |-> Many({"nanoseconds", "microseconds", "milliseconds"},
                                 AtLeastOne)]
        Datetime(modes, sizes) ==
            Of({"datetime"}, Units @@ [timeZoneMode |-> One(modes),
                                       timeZones |-> Many({"text"}, sizes)], NoFields)
    IN  {Of({"all", "empty", "integer", "unsignedInteger", "signedInteger",
             "floating", "enum", "categorical", "nested", "struct", "decimal",
             "numeric", "temporal", "object"}, NoFields, NoFields),
         Of({"anyOf"}, [dtypes |-> Many({"dtype"}, 1..2)], NoFields),
         Of({"list"}, NoFields, Inner),
         Of({"array"}, NoFields, Inner @@ [width |-> validatePositive(Numbers)]),
         Of({"duration"}, Units, NoFields),
         Datetime({"any", "anySet", "unset"}, {0}),
         Datetime({"anyOf", "unsetOrAnyOf"}, AtLeastOne)}

--------------------------------------------------------------------------------
(* plan.dart *)

OnLazy(command, always, sometimes) ==
    Method("lazyFrame", command, [input |-> Handle("lazyFrame")] @@ always, sometimes)

SortFields(n) == Each({"descending", "nullsLast"}, broadcast(n))
                     @@ [by |-> HandleArray("expr", {n}), maintainOrder |-> Flag]

LazyMethods ==
    {Uncounted(OnLazy(command, [expressions |-> HandleArray("expr", AnyNumber)],
                      NoFields), {"expressions"}) :
        command \in {"lazySelect", "lazyWithColumns"}}
    \cup
    {Uncounted(OnLazy(command,
                      [expressions |-> Many({"expr", "selector"}, AnyNumber)],
                      NoFields), {"expressions"}) :
        command \in {"lazySelectInputs", "lazyWithColumnsInputs"}}
    \cup
    {Uncounted(OnLazy("lazySort", SortFields(n), NoFields), {"by"}) : n \in AtLeastOne}
    \cup
    {OnLazy("lazyFilter", [predicate |-> Handle("expr")], NoFields),
     OnLazy("lazySlice", [offset |-> Numbers, length |-> bounded(Numbers)], NoFields),
     Uncounted(OnLazy("lazyGroupBy",
                      Each({"keys", "aggregations"}, HandleArray("expr", AnyNumber))
                      @@ [maintainOrder |-> Flag], NoFields),
               {"keys", "aggregations"})}

\* What LazyFrame and DataFrame share; prefix chooses the command.
TableFields ==
    [Distinct  |-> <<[keep |-> One({"first", "last", "any", "none"}),
                      maintainOrder |-> Flag],
                     [subset |-> validatedNames(AnyNames)]>>,
     DropNulls |-> <<NoFields, [subset |-> validatedNames(AnyNames)]>>,
     Drop      |-> <<[columns |-> validatedNames(AnyNames), strict |-> Flag], NoFields>>,
     Explode   |-> <<[columns |-> validatedNames(AnyNames)]
                     @@ Each({"emptyAsNull", "keepNulls"}, One({"true"})), NoFields>>,
     Unnest    |-> <<[columns |-> validatedNames(AnyNames)], NoFields>>,
     Unpivot   |-> <<[index |-> Many({"text"}, AnyNumber)],
                     [on |-> validatedNames(AnyNames)]
                     @@ Each({"variableName", "valueName"}, validateName(AnyText))>>]

RenameRows == {Each({"existing", "new"}, Many({"text"}, {n})) @@ [strict |-> Flag] :
                   n \in AtLeastOne}

NameLists == {"subset", "columns", "index", "on", "existing", "new"}

LazyTableMethods ==
    {Uncounted(OnLazy("lazy" \o name, TableFields[name][1], TableFields[name][2]),
               NameLists) : name \in DOMAIN TableFields}
    \cup
    {Uncounted(OnLazy("lazyRename", fields, NoFields), NameLists) :
        fields \in RenameRows}

\* No keys with a cross join, as many on either side with any other; forceParallel
\* asks for allowParallel.
SomeParallel ==
    {[allowParallel |-> Flag, forceParallel |-> One({"false"})],
     [allowParallel |-> One({"true"}), forceParallel |-> Flag]}

OfTwo(command, always, sometimes) ==
    Method("lazyFrame", command,
           Each({"left", "right"}, Handle("lazyFrame")) @@ always, sometimes)

JoinMethods ==
    LET Join(modes, sizes, coalesce, validation) ==
            {Uncounted(OfTwo("lazyJoin",
                             fields
                             @@ Each({"leftOn", "rightOn"}, HandleArray("expr", {n}))
                             @@ [how |-> One(modes), suffix |-> AnyText], NoFields),
                       {"leftOn", "rightOn"}) :
                n \in sizes,
                fields \in
                    {[coalesce |-> One(coalesce)]}
                    \cup
                    {parallel @@ [coalesce |-> One(coalesce) \cup Null,
                                  nullsEqual |-> Flag, validation |-> One(validation),
                                  maintainOrder |-> One({"none", "left", "right",
                                                         "leftRight", "rightLeft"})] :
                        parallel \in SomeParallel}}
    IN  Join({"cross"}, {0}, {"false"}, {"manyToMany"})
        \cup Join({"semi", "anti"}, AtLeastOne, {"false"}, {"manyToMany"})
        \cup Join({"right"}, AtLeastOne, {"false", "true"}, {"manyToMany"})
        \cup Join({"inner", "left", "full", "outer"}, AtLeastOne, {"false", "true"},
                  {"manyToMany", "manyToOne", "oneToMany", "oneToOne"})

\* PolarsDuration._toWire lets the unit of an index through, which has no meaning
\* as a tolerance; the suffix of these two joins goes unchecked.
Durations   == One({"duration"})
Tolerances  == One({"duration", "indexDuration"})

RelationalMethods ==
    {Letting(Uncounted(OfTwo("lazyJoinAsOf",
                             parallel @@ by
                             @@ Each({"leftOn", "rightOn"}, Handle("expr"))
                             @@ Each({"allowEqual", "checkSortedness"}, Flag)
                             @@ [strategy |-> One({"backward", "forward", "nearest"}),
                                 suffix |-> AnyText, coalesce |-> Null \cup Flag],
                             [tolerance |-> Tolerances]),
                       {"leftBy", "rightBy"}),
             [suffix |-> One({"empty"}), tolerance |-> One({"indexDuration"})]) :
        parallel \in SomeParallel,
        by \in {NoFields} \cup {Each({"leftBy", "rightBy"}, Many({"text"}, {n})) :
                                    n \in AtLeastOne}}
    \cup
    {Letting(Uncounted(OfTwo("lazyJoinWhere",
                             parallel
                             @@ [predicates |-> HandleArray("expr", AtLeastOne),
                                 suffix |-> AnyText], NoFields),
                       {"predicates"}),
             [suffix |-> One({"empty"})]) : parallel \in SomeParallel}

GroupMethods ==
    LET Group == [indexColumn |-> Handle("expr"),
                  closed |-> One({"left", "right", "both", "none"})]
                 @@ Each({"groupBy", "aggregations"}, HandleArray("expr", AnyNumber))
        Grouped(command, always, sometimes) ==
            Uncounted(OnLazy(command, Group @@ always, sometimes),
                      {"groupBy", "aggregations"})
    IN  {Grouped("lazyGroupByRolling", [period |-> Durations], [offset |-> Durations]),
         Grouped("lazyGroupByDynamic",
                 [every |-> Durations, includeBoundaries |-> Flag,
                  label |-> One({"left", "right", "dataPoint"}),
                  startBy |-> One({"windowBound", "dataPoint", "monday", "tuesday",
                                   "wednesday", "thursday", "friday", "saturday",
                                   "sunday"})],
                 Each({"period", "offset"}, Durations))}

\* query_options.dart: null leaves a flag out, and auto the engine.
OptimizerOptions ==
    Each({"projectionPushdown", "predicatePushdown", "clusterWithColumns",
          "typeCoercion", "simplifyExpression", "typeCheck", "slicePushdown",
          "commonSubplanElimination", "commonSubexpressionElimination",
          "rowEstimate", "fastProjection", "checkOrderObserve", "sortCollapse",
          "partitionHive"}, Flag)

\* profileSync wraps two frames; collect submits a job and takes its frame.
ExecutionMethods ==
    LET Run(class, command, sometimes) ==
            Method(class, command, [input |-> Handle("lazyFrame")], sometimes)
        Collect == Run("frame", "lazyCollect",
                       OptimizerOptions @@ [engine |-> One({"in-memory", "streaming"})])
        Take    == Method("frame", "jobTake", [job |-> Handle("job")], NoFields)
    IN  {Collect, Composite(Collect, {}, {<<"lazyFrame">>}),
         Take, Composite(Take, {"lazyFrame"}, {<<"job">>}),
         Composite(Take, {}, {<<"lazyFrame", "job">>}),
         Run("job", "lazySubmit", OptimizerOptions),
         Run("frames", "lazyProfile", OptimizerOptions),
         Run("value", "lazySchema", NoFields),
         Method("value", "jobPoll", [job |-> Handle("job")], NoFields),
         Method("value", "jobCancel", [job |-> Handle("job")], NoFields),
         Method("frame", "batchStreamPoll", [stream |-> Handle("batchStream")], NoFields),
         Method("value", "batchStreamCancel", [stream |-> Handle("batchStream")], NoFields),
         Method("value", "lazyExplain",
                [input |-> Handle("lazyFrame"), optimized |-> Flag,
                 format |-> One({"plain", "tree", "dot"})], NoFields),
         Method("batchStream", "lazyBatchStream",
                [input |-> Handle("lazyFrame"), engine |-> One({"auto", "in-memory",
                                                                "streaming"})]
                @@ Each({"batchRows", "capacity"},
                        validatePositive(Numbers) \ One({"wide"})), NoFields)}

--------------------------------------------------------------------------------
(* polars.dart and io_extended.dart: sources *)

SourceMethods ==
    LET Local   == [path |-> validateLocalPath(AnyText)]
        AnyPath == [path |-> validateName(AnyText)]
        Rows    == [nRows |-> validateUnsigned(Numbers)]
        From(class, command, always, sometimes) ==
            Uncounted(Unmeasured(Method(class, command, always, sometimes)), {"columns"})
        Concat(options) ==
            Uncounted(Method("lazyFrame", "lazyConcat",
                             [inputs |-> HandleArray("lazyFrame", AtLeastOne)] @@ options,
                             NoFields), {"inputs"})
    IN  {Method("value", "hello", NoFields, NoFields),
         Method("value", "runtimeDiagnostics", NoFields, NoFields),
         Letting(Method("frame", "frameImport", [batch |-> One({"batch", "wideBatch"})],
                        NoFields), [batch |-> One({"wideBatch"})]),
         Method("series", "seriesImport", [column |-> One({"column"})], NoFields),
         From("lazyFrame", "lazyScanCsv",
              AnyPath @@ Each({"hasHeader", "tryParseDates"}, Flag)
              @@ [separator |-> validateSeparator(AnyText)],
              Rows @@ [skipRows |-> validateUnsigned(Numbers)]),
         From("lazyFrame", "lazyScanParquet", AnyPath @@ [parallel |-> Flag], Rows),
         Concat([rechunk |-> Flag,
                 how |-> One({"vertical", "verticalRelaxed", "diagonal",
                              "diagonalRelaxed"})]),
         Concat([rechunk |-> One({"false"}), how |-> One({"horizontal"})]),
         From("lazyFrame", "lazyScanIpc",
              Local @@ Each({"cache", "rechunk", "recordBatchStatistics"}, Flag), Rows),
         From("lazyFrame", "lazyScanNdjson",
              Local @@ Each({"ignoreErrors", "lowMemory", "rechunk"}, Flag)
              @@ [inferSchemaLength |-> validatePositive(Numbers) \cup Null], Rows),
         From("frame", "frameReadJson",
              Local @@ [inferSchemaLength |-> validatePositive(Numbers) \cup Null,
                        batchSize |-> validatePositive(Numbers), rechunk |-> Flag],
              NoFields),
         From("frame", "frameReadIpcStream", Local @@ [rechunk |-> Flag],
              Rows @@ [columns |-> validatedNames(AnyNames)])}

(* dataframe.dart, io_extended.dart and io_options.dart: files *)

CsvWriteOptions ==
    <<Each({"includeHeader", "includeBom", "decimalComma"}, Flag)
      @@ [separator |-> validateSeparator(AnyText), quoteChar |-> Byte,
          batchSize |-> validatePositive(Numbers), nullValue |-> AnyText,
          lineTerminator |-> validateName(AnyText),
          quoteStyle |-> One({"necessary", "always", "nonNumeric", "never"})],
      Each({"dateFormat", "timeFormat", "datetimeFormat"}, AnyText)
      @@ [floatScientific |-> Flag, floatPrecision |-> validateUnsigned(Numbers)]>>

ParquetWriteOptions ==
    <<Each({"statisticsMin", "statisticsMax", "statisticsDistinctCount",
            "statisticsNullCount"}, Flag)
      @@ [compression |-> One({"none", "uncompressed", "snappy", "gzip", "brotli",
                               "zstd", "lz4", "lz4raw"})],
      Each({"rowGroupSize", "dataPageSize"}, validatePositive(Numbers))
      @@ [statisticsBinaryTruncateLength |-> validateUnsigned(Numbers)]>>

IpcWriteOptions ==
    <<[compression |-> One({"none", "lz4", "zstd"}), recordBatchStatistics |-> Flag],
      [recordBatchSize |-> validatePositive(Numbers)]>>

\* The lazy sinks leave out nThreads and parallel, and the CSV and Parquet writers
\* of a DataFrame take any path.
FileMethods ==
    LET AnyPath == [path |-> validateName(AnyText)]
        Local == [path |-> validateLocalPath(AnyText)]
        Write(name, path, options, always, sometimes) ==
            Unmeasured(Method("value", "frameWrite" \o name,
                              path @@ options[1] @@ always @@ [frame |-> Handle("frame")],
                              options[2] @@ sometimes))
        Sink(name, options) ==
            Unmeasured(Method("value", "lazySink" \o name,
                              Local @@ options[1] @@ [input |-> Handle("lazyFrame"),
                                                      maintainOrder |-> Flag],
                              options[2]))
        None == <<NoFields, NoFields>>
    IN  {Write("Csv", AnyPath, CsvWriteOptions, NoFields,
               [nThreads |-> validatePositive(Numbers)]),
         Write("Parquet", AnyPath, ParquetWriteOptions, [parallel |-> Flag], NoFields),
         Write("Ipc", Local, IpcWriteOptions, [parallel |-> Flag], NoFields),
         Write("IpcStream", Local, None, [compression |-> One({"none", "lz4", "zstd"})],
               NoFields),
         Write("Json", Local, None, NoFields, NoFields),
         Write("Ndjson", Local, None, NoFields, NoFields),
         Sink("Csv", CsvWriteOptions), Sink("Parquet", ParquetWriteOptions),
         Sink("Ipc", IpcWriteOptions), Sink("Ndjson", None)}

--------------------------------------------------------------------------------
(* dataframe.dart and dataframe_eager.dart *)

OnFrame(class, command, always, sometimes) ==
    Method(class, command, [frame |-> Handle("frame")] @@ always, sometimes)

Transpose(includeHeader, headerNames) ==
    Uncounted(OnFrame("frame", "frameTranspose",
                      [includeHeader |-> One(includeHeader), headerName |-> headerNames],
                      [columnNames |-> validatedNames(AnyNames)]), {"columnNames"})

FrameMethods ==
    {OnFrame("value", command, NoFields, NoFields) :
        command \in {"frameInfo", "frameExport"}}
    \cup
    {Uncounted(OnFrame("frame", command, [expressions |-> HandleArray("expr", AnyNumber)],
                       NoFields), {"expressions"}) :
        command \in {"frameSelect", "frameWithColumns"}}
    \cup
    {Uncounted(OnFrame("frame", "frame" \o name,
                       TableFields[name][1], TableFields[name][2]), NameLists) :
        name \in DOMAIN TableFields}
    \cup
    {Uncounted(OnFrame("frame", "frameRename", fields, NoFields), NameLists) :
        fields \in RenameRows}
    \cup
    {Uncounted(OnFrame("frame", "frameSort", SortFields(n), NoFields), {"by"}) :
        n \in AtLeastOne}
    \cup
    {OnFrame("lazyFrame", "frameLazy", NoFields, NoFields),
     OnFrame("series", "frameColumn", [name |-> validateName(AnyText)], NoFields),
     Uncounted(OnFrame("frame", "frameSelectColumns",
                       [columns |-> validatedNames(AnyNames)], NoFields), {"columns"}),
     OnFrame("frame", "frameFilter", [predicate |-> Handle("expr")], NoFields),
     OnFrame("frame", "frameFilterMask", [mask |-> Handle("series")], NoFields),
     OnFrame("frame", "frameSlice", [offset |-> Numbers, length |-> bounded(Numbers)],
             NoFields),
     OnFrame("frame", "frameReverse", NoFields, NoFields),
     Transpose({"true"}, validateName(AnyText)), Transpose({"false"}, AnyText)}

--------------------------------------------------------------------------------
(* series.dart *)

\* Mutant of SeriesToFrame: sent through _input, which wraps a Series.
SeriesToFrameAsInput ==
    Method("series", "seriesToFrame", [series |-> Handle("series")], NoFields)

SeriesToFrame ==
    Method("frame", "seriesToFrame", [series |-> Handle("series")], NoFields)

SeriesMethods ==
    LET Of(class, command, fields) ==
            Method(class, command, [series |-> Handle("series")] @@ fields, NoFields)
        Compute(operand) ==
            Method("series", "seriesBinary",
                   operand @@ [left |-> Handle("series"),
                               op |-> One({"eq", "eqValidity", "notEq", "notEqValidity",
                                           "lt", "ltEq", "gt", "gtEq", "add",
                                           "subtract", "multiply", "trueDivide"})],
                   NoFields)
    IN  {Of("series", command, NoFields) : command \in {"seriesReverse", "seriesDropNulls"}}
        \cup {Of("value", command, NoFields) : command \in {"seriesInfo", "seriesExport"}}
        \cup
        {SeriesToFrame,
         Of("series", "seriesRename", [name |-> validateName(AnyText)]),
         Of("series", "seriesCast", [dtype |-> One({"dtype"}), strict |-> Flag]),
         Of("series", "seriesSlice",
            [offset |-> Numbers, length |-> validateUnsigned(Numbers)]),
         Of("series", "seriesSort",
            Each({"descending", "nullsLast", "maintainOrder", "multithreaded"}, Flag)),
         Of("series", "seriesUnique", [maintainOrder |-> Flag]),
         Of("series", "seriesFilter", [mask |-> Handle("series")]),
         Of("series", "seriesAppend", [other |-> Handle("series")]),
         Of("series", "seriesGather", [indices |-> Handle("series")]),
         Compute([right |-> Handle("series")]), Compute([scalar |-> One({"scalar"})]),
         Of("value", "seriesAggregate",
            [op |-> One({"count", "nUnique", "sum", "mean", "min", "max", "first",
                         "last"})])}

--------------------------------------------------------------------------------
(* sql.dart *)

\* register and registerAll make a LazyFrame of each DataFrame they are given.
SqlMethods ==
    LET Of(class, command, fields) ==
            Method(class, command, [context |-> Handle("sqlContext")] @@ fields, NoFields)
        Register == Of("value", "sqlContextRegister",
                       [name |-> validateName(AnyText), input |-> Handle("lazyFrame")])
        RegisterAll(n) == Of("value", "sqlContextRegisterAll",
                             [tables |-> HandleArray("lazyFrame", {n})])
        FromFrames(method, n) ==
            Composite(method, {"sqlContext", "frame"}, {[i \in 1..n |-> "lazyFrame"]})
    IN  {Register, FromFrames(Register, 1),
         RegisterAll(0), RegisterAll(1), RegisterAll(2),
         FromFrames(RegisterAll(1), 1), FromFrames(RegisterAll(2), 2),
         Method("sqlContext", "sqlContextNew", NoFields, NoFields),
         Of("value", "sqlContextUnregister", [names |-> selectorNames(AnyNames)]),
         Of("value", "sqlContextTables", NoFields),
         Of("lazyFrame", "sqlContextExecute", [query |-> validateName(AnyText)])}

--------------------------------------------------------------------------------

Methods ==
    ExprMethods \cup GenericMethods \cup AggregateWithArguments
        \cup AggregateMethods \cup FunctionMethods \cup WindowFunctionMethods
        \cup StringMethods \cup NestedMethods
        \cup NamespaceMethods \cup MetaMethods \cup OverMethods
        \cup SelectorMethods \cup DTypeSelectorMethods \cup LazyMethods
        \cup LazyTableMethods \cup JoinMethods \cup RelationalMethods
        \cup GroupMethods \cup ExecutionMethods \cup SourceMethods \cup FileMethods
        \cup FrameMethods \cup SeriesMethods \cup SqlMethods

\* The requests of a method: its usual one, with one field after the other given
\* any of its values, Deviations times over.
Varied(method, requests) ==
    LET fields == method.always @@ method.sometimes
    IN  requests \cup
        UNION {{(f :> v) @@ r : r \in requests, v \in fields[f]} : f \in DOMAIN fields}

Requests(method, deviations) ==
    LET usual == [f \in DOMAIN method.always |->
                     CHOOSE v \in method.always[f] : TRUE]
        after[n \in 0..deviations] ==
            IF n = 0 THEN {usual} ELSE Varied(method, after[n - 1])
    IN  after[deviations]

================================================================================
