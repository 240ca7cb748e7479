---------------------------- MODULE Durations ----------------------------
(***************************************************************************)
(* Lengths of time given as text, and what becomes of them:                *)
(* parse_interval of src/use_cases/filtering/mod.rs, parse_interval_secs   *)
(* of server_operations.rs and of seed.rs, parse_cache_ttl_secs, the text  *)
(* that config_from_db.rs makes of a stored number, and parse_duration of  *)
(* src/frameworks/acme/mod.rs.                                             *)
(*                                                                         *)
(* A text is a number and the letter after it.  The program's u64 and i64  *)
(* are words of Width bits here; products wrap as in a release build.      *)
(***************************************************************************)
EXTENDS Integers

CONSTANTS
  Width,            \* bits of a machine word; 64 in the code
  DEFAULT_INTERVAL, \* 12 hours, in seconds
  NotANumber        \* a text in the place of the number that is none

ASSUME WidthAssumption == Width \in Nat \ {0}

\* No duration: the parser returned an error.
Err == -1

Units == {"s", "m", "h", "d", "w", "none"}

Text(num, unit) == [num |-> num, unit |-> unit]

IsU64(n) == n # NotANumber /\ n >= 0 /\ n < 2^Width

IsI64(n) == n # NotANumber /\ n >= -(2^(Width - 1)) /\ n < 2^(Width - 1)

AsU64(n) == n % 2^Width

\* The signed word with the bits of n.
AsI64(n) == LET u == n % 2^Width IN IF u < 2^(Width - 1) THEN u ELSE u - 2^Width

Factor == [s |-> 1, m |-> 60, h |-> 3600, d |-> 86400]

(* The last character is the unit.  A number without a unit has a digit    *)
(* there, which is no unit.                                                *)
parse_interval(t) ==
  IF IsU64(t.num) /\ t.unit \in DOMAIN Factor THEN AsU64(t.num * Factor[t.unit]) ELSE Err

(* The calls and the seeding store the interval of a list as a number of   *)
(* seconds.  What they cannot read, days included, counts as no interval.  *)
parse_interval_secs(t) ==
  IF IsI64(t.num) /\ t.unit \in {"h", "m", "s", "none"}
  THEN AsI64(t.num * (IF t.unit = "none" THEN 1 ELSE Factor[t.unit]))
  ELSE DEFAULT_INTERVAL

\* Mutant: what does not fit is stored as it is.
parse_cache_ttl_secs_Unchecked(t) == AsI64(parse_interval(t))

\* A time to live given in a call; Err also when it does not fit an i64.
parse_cache_ttl_secs(t) ==
  IF IsI64(parse_interval(t)) THEN parse_interval(t) ELSE Err

\* "{}s" of a stored number.
FromRow(secs) == Text(secs, "s")

\* The renewal time of a certificate.
parse_duration(t) ==
  IF IsU64(t.num) /\ t.unit \in {"d", "h", "m", "s"} THEN AsU64(t.num * Factor[t.unit]) ELSE Err

-----------------------------------------------------------------------------
(* A list is refreshed as often as its interval says, although the text    *)
(* goes through a number of seconds in the database and is made a text     *)
(* again when the engine is built: what seed.rs or a call stores and       *)
(* build_runtimes reads is what reading the text at once would give.  Left *)
(* out are days, which parse_interval_secs does not know, and products     *)
(* that do not fit.                                                        *)
IntervalSurvivesDatabase(t) ==
  t.unit \in {"s", "m", "h"} /\ IsU64(t.num) /\ IsI64(t.num * Factor[t.unit])
    => parse_interval(FromRow(parse_interval_secs(t))) = parse_interval(t)

(* A time to live that update_resolver_config accepted is read back from   *)
(* the row as the same duration; it cannot make a later reload fail.       *)
TtlSurvivesDatabase(t) ==
  parse_cache_ttl_secs(t) # Err
    => parse_interval(FromRow(parse_cache_ttl_secs(t))) = parse_interval(t)

(* A text means the same as the interval of a list and as the time before  *)
(* expiry at which a certificate is renewed, whichever of the two readers  *)
(* it is given to, also where the product does not fit.                    *)
ReadersAgree(t) == parse_duration(t) = parse_interval(t)
=============================================================================
