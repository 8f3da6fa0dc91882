----------------------------- MODULE NativeFunctions -----------------------------
(***************************************************************************)
(* The functions, aggregates and metadata queries of an expression that    *)
(* the native library knows, with the options and the number of arguments  *)
(* of each: the tables of bindings.rs, namespace_expr.rs, advanced_expr.rs *)
(* and engine.rs under the commands exprFunction, exprAggregate and        *)
(* exprMeta.  Everything else is refused.                                  *)
(***************************************************************************)
EXTENDS Wire

\* Functions that differ in nothing but their name.
Row(names, arity, required, optional) ==
    [names |-> names, arity |-> arity,
     required |-> required, optional |-> optional]

Plain(names, arity) == Row(names, {arity}, NoFields, NoFields)

TimeUnits == One({"nanoseconds", "microseconds", "milliseconds"})

--------------------------------------------------------------------------------
(* bindings.rs *)

ValueFunctions ==
    {Plain({"isNull", "isNotNull", "isNan", "isNotNan", "abs", "floor", "ceil",
            "isFinite", "isInfinite"}, 0),
     Plain({"fillNull", "clipMin", "clipMax", "fillNan"}, 1),
     Plain({"clip"}, 2),
     Row({"coalesce"}, 1..2, NoFields, NoFields),
     Row({"round"}, {0},
         [decimals |-> Bounded,
          mode |-> One({"halfToEven", "halfAwayFromZero", "toZero"})], NoFields)}

\* A literal pattern cannot be a strict one.
TextAndSeriesFunctions ==
    {Plain({"lowercase", "uppercase"}, 0),
     Plain({"stringStartsWith", "stringEndsWith", "shift"}, 1),
     Row({"stripChars"}, 0..1, NoFields, NoFields),
     Row({"cumSum", "cumMin", "cumMax"}, {0}, [reverse |-> Flag], NoFields),
     Row({"isIn"}, {1}, [nullsEqual |-> Flag], NoFields),
     Row({"stringContains"}, {1},
         [literal |-> One({"true"}), strict |-> One({"false"})], NoFields),
     Row({"stringContains"}, {1},
         [literal |-> One({"false"}), strict |-> Flag], NoFields),
     Row({"stringReplace"}, {2},
         [literal |-> Flag, replaceAll |-> Flag], NoFields)}

--------------------------------------------------------------------------------
(* namespace_expr.rs *)

ParseOptions == Each({"strict", "exact", "cache"}, Flag)

StringFunctions ==
    {Plain({"str.lenBytes", "str.lenChars", "str.toLowercase",
            "str.toUppercase"}, 0),
     Plain({"str.startsWith", "str.endsWith", "str.extractAll",
            "str.stripPrefix", "str.stripSuffix", "str.head", "str.tail",
            "str.zfill"}, 1),
     Plain({"str.slice"}, 2),
     Row({"str.stripChars", "str.stripCharsStart", "str.stripCharsEnd"}, 0..1,
         NoFields, NoFields),
     Row({"str.contains", "str.find"}, {1},
         [literal |-> Flag, strict |-> Flag], NoFields),
     Row({"str.extract"}, {1}, [groupIndex |-> Unsigned], NoFields),
     Row({"str.padStart", "str.padEnd"}, {1}, [fill |-> Byte], NoFields),
     Row({"str.replace"}, {2}, [literal |-> Flag, replaceAll |-> Flag], NoFields)}

\* strict is only read when the separator is a regular expression.
ParsingFunctions ==
    {Row({"str.split"}, {1},
         [inclusive |-> Flag, regex |-> One({"true"}), strict |-> Flag], NoFields),
     Row({"str.split"}, {1},
         [inclusive |-> Flag, regex |-> One({"false"})], [strict |-> Flag]),
     Row({"str.toDate", "str.toTime"}, {0}, ParseOptions, [format |-> Text]),
     Row({"str.toDatetime"}, {1}, ParseOptions,
         [format |-> Text, timeUnit |-> TimeUnits, timeZone |-> Text])}

StructAndBinaryFunctions ==
    {Row({"struct.field"}, {0}, [field |-> Text], NoFields),
     Row({"struct.fieldAt"}, {0}, [index |-> Integer], NoFields),
     Row({"struct.renameFields"}, {0}, [fields |-> Names], NoFields),
     Plain({"struct.jsonEncode", "bin.sizeBytes", "bin.hexEncode",
            "bin.base64Encode", "cat.physical", "cat.categories"}, 0),
     Plain({"bin.contains", "bin.startsWith", "bin.endsWith"}, 1),
     Row({"name.prefix", "name.suffix"}, {0}, [value |-> AnyText], NoFields),
     Plain({"name.keep", "name.toLowercase", "name.toUppercase",
            "meta.undoAliases"}, 0)}

DateTimeFunctions ==
    {Plain({"dt.year", "dt.isoYear", "dt.month", "dt.day", "dt.ordinalDay",
            "dt.weekday", "dt.week", "dt.quarter", "dt.hour", "dt.minute",
            "dt.second", "dt.millisecond", "dt.microsecond", "dt.nanosecond",
            "dt.date", "dt.time", "dt.baseUtcOffset", "dt.dstOffset"}, 0),
     Plain({"dt.truncate", "dt.round", "dt.offsetBy"}, 1),
     Row({"dt.timestamp"}, {0}, [timeUnit |-> TimeUnits], NoFields),
     Row({"dt.format"}, {0}, [format |-> Text], NoFields),
     Row({"dt.convertTimeZone"}, {0}, [timeZone |-> Text], NoFields)}

SortOptions == [descending |-> Flag, nullsLast |-> Flag]

ListFunctions ==
    {Plain({"list.len", "list.first", "list.last", "list.sum", "list.min",
            "list.max", "list.mean"}, 0),
     Plain({"list.slice"}, 2),
     Row({"list.get"}, {1}, [nullOnOob |-> Flag], NoFields),
     Row({"list.contains"}, {1}, [nullsEqual |-> Flag], NoFields),
     Row({"list.sort"}, {0}, SortOptions, NoFields)}

ArrayFunctions ==
    {Plain({"arr.len", "arr.sum", "arr.min", "arr.max", "arr.mean",
            "arr.toList"}, 0),
     Row({"arr.get"}, {1}, [nullOnOob |-> Flag], NoFields),
     Row({"arr.contains"}, {1}, [nullsEqual |-> Flag], NoFields),
     Row({"arr.sort"}, {0}, SortOptions, NoFields),
     Row({"arr.explode"}, {0},
         [emptyAsNull |-> Flag, keepNulls |-> Flag], NoFields)}

--------------------------------------------------------------------------------
(* advanced_expr.rs *)

\* min_periods <= window_size, where numbers of the same class are taken to be in
\* order; as many weights as the window is wide are two.
RollingOptions ==
    {[windowSize |-> One({size}), center |-> Flag,
      minPeriods |-> One(IF size = "wide" THEN {"zero", "natural", "wide"}
                                          ELSE {"zero", "natural"})] :
        size \in {"natural", "wide"}}

EwmOptions ==
    [alpha |-> One({"real"}), minPeriods |-> Unsigned,
     ignoreNulls |-> Flag]

AdvancedFunctions ==
    {Plain({"sqrt", "cbrt", "log1p", "exp", "sin", "cos", "tan", "cot", "asin",
            "acos", "atan", "sinh", "cosh", "tanh", "asinh", "acosh", "atanh",
            "degrees", "radians"}, 0),
     Plain({"pow", "log", "atan2", "interpolateBy", "pctChange"}, 1),
     Row({"diff"}, {1}, [nullBehavior |-> One({"ignore", "drop"})], NoFields),
     Row({"rank"}, {0},
         [method |-> One({"average", "min", "max", "dense", "ordinal"}),
          descending |-> Flag], NoFields),
     Row({"interpolate"}, {0}, [method |-> One({"linear", "nearest"})], NoFields),
     Row({"ewmMean"}, {0}, EwmOptions, [adjust |-> Flag]),
     Row({"ewmSum"}, {0}, EwmOptions, NoFields),
     Row({"ewmStd", "ewmVariance"}, {0}, EwmOptions,
         [adjust |-> Flag, bias |-> Flag])}
    \cup
    {Row({"rollingMin", "rollingMax", "rollingMean", "rollingSum",
          "rollingMedian", "rollingVariance", "rollingStd"}, {0}, options,
         [weights |-> Many({"real"}, {2})]) : options \in RollingOptions}

--------------------------------------------------------------------------------

FunctionRows ==
    ValueFunctions \cup TextAndSeriesFunctions \cup StringFunctions
        \cup ParsingFunctions \cup StructAndBinaryFunctions
        \cup DateTimeFunctions \cup ListFunctions \cup ArrayFunctions
        \cup AdvancedFunctions

FunctionSchemas ==
    {Schema("expr",
            [input |-> Handle("expr"), name |-> One(row.names),
             arguments |-> HandleArray("expr", row.arity)] @@ row.required,
            row.optional) : row \in FunctionRows}

\* validate_aggregate_fields: no option but those of the operation.
AggregateOptions ==
    {Row({"std", "variance"}, {0}, NoFields, [ddof |-> Bounded]),
     Row({"quantile"}, {0}, [quantile |-> One({"zero", "real"})],
         [interpolation |->
             One({"nearest", "lower", "higher", "midpoint", "linear"})]),
     Row({"mode"}, {0}, [maintainOrder |-> Flag], NoFields),
     Row({"skew"}, {0}, [bias |-> Flag], NoFields),
     Row({"kurtosis"}, {0}, [fisher |-> Flag, bias |-> Flag], NoFields),
     Row({"any", "all"}, {0}, [ignoreNulls |-> Flag], NoFields)}

PlainAggregates ==
    {"count", "nullCount", "sum", "mean", "min", "max", "first", "last",
     "median", "nUnique", "product"}

AdvancedAggregates ==
    {"argMin", "argMax", "approximateNUnique", "nanMin", "nanMax"}

AggregateSchemas ==
    {Schema("expr",
            [input |-> Handle("expr"), op |-> One(row.names)] @@ row.required,
            row.optional) :
        row \in AggregateOptions
                    \cup {Plain(PlainAggregates \cup AdvancedAggregates, 0)}}

MetaSchemas ==
    {Schema("value",
            [input |-> Handle("expr"),
             op |-> One({"rootNames", "outputName", "isColumn",
                         "hasMultipleOutputs", "isRegexProjection"})], NoFields),
     Schema("value",
            [input |-> Handle("expr"), op |-> One({"isColumnSelection", "isLiteral"}),
             allowAliasing |-> Flag], NoFields)}

================================================================================
