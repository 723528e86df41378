-------------------------------- MODULE Sqlite3 --------------------------------
(***************************************************************************)
(* The values that pass through sqlite::query: an argument of a request is *)
(* bound to a parameter of a prepared statement, and a column of a row is  *)
(* put to the response.                                                    *)
(*                                                                         *)
(* A value of the protocol is a pair <<case of the oneof, datum>>, one of  *)
(* SQLite a pair <<storage class, datum>>, and one of the variant          *)
(* query::column_value a pair <<column_type, datum>>.                      *)
(***************************************************************************)
EXTENDS Naturals, Sequences

CONSTANT Data  \* the data: numbers, texts and blobs, and "nan"

NullValue == <<"v_null", "NULL_">>
NULL == <<"NULL", "none">>
ct_null == <<"ct_null", "nullptr">>

\* SQLite (external): it has no NaN and stores NULL.
Stored(class, datum) ==
    IF class = "FLOAT" /\ datum = "nan" THEN NULL ELSE <<class, datum>>

\* The overload of query::bind() that db_server::bind() calls for each case;
\* the others, "not_set" and "v_null", are bound as nullptr.
BindClass ==
    [v_int64 |-> "INTEGER", v_double |-> "FLOAT", v_text |-> "TEXT",
     v_blob |-> "BLOB"]

bind(v) == IF v[1] \in DOMAIN BindClass THEN Stored(BindClass[v[1]], v[2])
                                        ELSE NULL

\* What a request may have as an argument: the oneof is unset, or has one case.
Value == ({"v_int64", "v_double", "v_text", "v_blob"} \X Data)
             \cup {NullValue, <<"not_set", "none">>}

\* What a parameter of a statement may be bound to
SqlValue == ({"INTEGER", "FLOAT", "TEXT", "BLOB"} \X Data) \cup {NULL}

\* query::get_column()
ColumnType == [INTEGER |-> "ct_int64", FLOAT |-> "ct_double",
               TEXT |-> "ct_string", BLOB |-> "ct_blob"]

get_column(s) == IF s[1] \in DOMAIN ColumnType THEN <<ColumnType[s[1]], s[2]>>
                                               ELSE ct_null

\* What execute_query() adds to the row for a column
ValueCase == [ct_int64 |-> "v_int64", ct_double |-> "v_double",
              ct_string |-> "v_text", ct_blob |-> "v_blob"]

add_column(val) == IF val[1] \in DOMAIN ValueCase
                   THEN <<ValueCase[val[1]], val[2]>> ELSE NullValue

\* Faulty: the bindings of the previous execution are kept.
start_KeepsAll(restart, bound) == bound

\* Faulty: the bindings are also cleared before a retry.
start_ClearsAll(restart, bound) == [i \in DOMAIN bound |-> NULL]

\* The bindings of a statement after query::start()
start(restart, bound) == IF restart THEN bound ELSE [i \in DOMAIN bound |-> NULL]

\* The bindings after the loop over the arguments.  Parameters without an
\* argument are left as they are; the first argument without a parameter makes
\* bind() throw, when all parameters have been bound.
bind_all(args, bound) ==
    [i \in DOMAIN bound |-> IF i <= Len(args) THEN bind(args[i]) ELSE bound[i]]

bind_throws(args, bound) == Len(args) > Len(bound)
==============================================================================
