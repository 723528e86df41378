----------------------------- MODULE Configuration -----------------------------
(***************************************************************************)
(* configuration: validate() and the conversions of what the file says to  *)
(* the settings that the other components use.                             *)
(*                                                                         *)
(* A configuration is a flat record.  A message that is not present in the *)
(* file is one with all fields 0: validate() accepts these and every       *)
(* conversion gives them the same default.  Integers keep their width, and *)
(* the widths are parameters.  A float is a multiple of 1 / FloatUnit      *)
(* seconds, or NaN, which JSON can express; one that no ulp is large       *)
(* enough for stands for infinity.                                         *)
(***************************************************************************)
EXTENDS Integers, FiniteSets

CONSTANTS
    INT_MAX,                \* numeric_limits<int>::max()
    UINT32,                 \* 2^32, the number of values of uint32_t
    PORT_MAX,               \* 65535
    http_port_default,      \* 80
    REP_MAX,                \* numeric_limits<nanoseconds::rep>::max()
    NanoPerSecond,          \* 1e9F
    FloatUnit,              \* see above, a power of 2
    FloatRange,             \* 2^24, the integers that a float has exactly
    Ulps,                   \* the distances between floats: powers of 2
    max_retry_wait,         \* db_server::max_retry_wait
    hardware_concurrency,   \* what std::thread::hardware_concurrency() returns
    NaN,
    None                    \* std::nullopt

ASSUME WidthsAssumption ==
    /\ {INT_MAX, UINT32, PORT_MAX, http_port_default, REP_MAX, NanoPerSecond,
        FloatUnit, FloatRange, max_retry_wait} \subseteq Nat \ {0}
    /\ hardware_concurrency \in Nat
    /\ http_port_default <= PORT_MAX /\ PORT_MAX < UINT32 /\ INT_MAX < UINT32
    /\ max_retry_wait <= REP_MAX

\* There is an ulp for the largest rep, which is less than the largest float.
ASSUME FloatAssumption ==
    /\ NaN \notin Int /\ None \notin Int
    /\ Ulps \subseteq Nat \ {0} /\ 1 \in Ulps
    /\ \A u \in Ulps : u = 1 \/ \E v \in Ulps : u = 2 * v
    /\ \A u, v \in Ulps : u <= v => \E c \in 1 .. v : v = c * u
    /\ \E u \in Ulps : REP_MAX * FloatUnit < FloatRange * u

uint32 == 0 .. UINT32 - 1
float == Int \cup {NaN}

Configuration ==
    [level : Int, main_threads : Int, control_threads : Int, database_threads : Int,
     main_pools : Int, accept_pool : BOOLEAN, port : uint32, listen_queue : uint32,
     max_connections : uint32, keepalive_requests : uint32,
     max_request_headers : Nat, max_request_body : Nat,
     idle_timeout : float, keepalive_timeout : float, retry_wait : float]

------------------------------------------------------------------------------
(* Times                                                                   *)

Finite(x) == \E u \in Ulps : x < FloatRange * u

\* The distance between the floats around x
ulp(x) == CHOOSE u \in Ulps : /\ x < FloatRange * u
                              /\ \A v \in Ulps : x < FloatRange * v => u <= v

\* The nearest float to x, ties to the even one (external)
RoundFloat(x) ==
    LET q == x \div ulp(x)
        low == q * ulp(x)
        up == \/ 2 * (x - low) > ulp(x)
              \/ 2 * (x - low) = ulp(x) /\ q % 2 = 1
    IN  IF ~Finite(x) THEN x ELSE IF up THEN low + ulp(x) ELSE low

\* The conversion of a float to rep; out of range it is undefined, and the
\* processor gives the minimum.
rep(x) == IF x \div FloatUnit <= REP_MAX THEN x \div FloatUnit ELSE -REP_MAX - 1

float_max == RoundFloat(REP_MAX * FloatUnit)

\* The largest rep is rounded up, to a power of 2.
ASSUME MaxAssumption == float_max >= REP_MAX * FloatUnit

\* Faulty: float(max), which is rounded up, passes for a value of rep.
InRange_Inclusive(x) == x <= float_max

InRange(x) == x < float_max

\* Faulty: a time that is not positive is a time.
IsTime_Any(t) == t # NaN

IsTime(t) == t # NaN /\ t > 0

get_time(t) ==
    IF ~IsTime(t) THEN None
    ELSE LET x == RoundFloat(t * NanoPerSecond)
         IN  IF InRange(x) THEN rep(x) ELSE REP_MAX

------------------------------------------------------------------------------
(* validate(): the complaints that it logs; there must be none.            *)

PortRefused(cfg) == cfg.port > PORT_MAX

Negative(t) == t # NaN /\ t < 0

\* log_level::off .. log_level::debug
valid_level(l) == l \in -1 .. 7

LevelRefused(cfg) == cfg.level # 0 /\ ~valid_level(cfg.level - 2)

Complaints(cfg) ==
    {c \in {"level", "threads", "port", "idle_timeout", "keepalive_timeout"} :
        \/ c = "level" /\ LevelRefused(cfg)
        \/ c = "threads" /\ (cfg.main_threads < 0 \/ cfg.control_threads < 0)
        \/ c = "port" /\ PortRefused(cfg)
        \/ c = "idle_timeout" /\ Negative(cfg.idle_timeout)
        \/ c = "keepalive_timeout" /\ Negative(cfg.keepalive_timeout)}

validate(cfg) == Complaints(cfg) = {}

get_log_level(cfg) ==
    IF cfg.level # 0 /\ ~LevelRefused(cfg) THEN cfg.level - 2 ELSE None

------------------------------------------------------------------------------
(* The settings of the other components                                    *)

Larger(a, b) == IF a > b THEN a ELSE b
Smaller(a, b) == IF a < b THEN a ELSE b

http_port(cfg) ==
    IF 1 <= cfg.port /\ cfg.port <= PORT_MAX THEN cfg.port ELSE http_port_default

main_pools(cfg) == Larger(1, cfg.main_pools)

num_threads(n) == Larger(IF n = 0 THEN hardware_concurrency ELSE n, 1)

use_workers(cfg) ==
    IF main_pools(cfg) > 1 /\ cfg.accept_pool THEN main_pools(cfg) - 1
                                              ELSE main_pools(cfg)

listen_queue(cfg) ==
    IF cfg.listen_queue = 0 THEN None ELSE Smaller(cfg.listen_queue, INT_MAX)

\* A limit is an optional<uint32_t>, also those that are configured as uint64.
limit(v) == IF v = 0 THEN None ELSE v % UINT32

\* db_server::run(): wait_for() must not overflow.
retry_wait(t) ==
    LET w == get_time(t) IN IF w = None THEN 0 ELSE Smaller(w, max_retry_wait)

settings(cfg) ==
    [port |-> http_port(cfg),
     pools |-> main_pools(cfg),
     use_workers |-> use_workers(cfg),
     main_threads |-> num_threads(cfg.main_threads),
     control_threads |-> num_threads(cfg.control_threads),
     database_threads |-> num_threads(cfg.database_threads),
     listen_queue |-> listen_queue(cfg),
     max_connections |-> limit(cfg.max_connections),
     keepalive_requests |-> limit(cfg.keepalive_requests),
     max_request_headers |-> limit(cfg.max_request_headers),
     max_request_body |-> limit(cfg.max_request_body),
     idle_timeout |-> get_time(cfg.idle_timeout),
     keepalive_timeout |-> get_time(cfg.keepalive_timeout),
     retry_wait |-> retry_wait(cfg.retry_wait)]
==============================================================================
