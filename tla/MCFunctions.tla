--------------------------- MODULE MCFunctions ---------------------------
(***************************************************************************)
(* The functions that a model checks best on many inputs: a step gives one *)
(* of them an input, and the invariants compare what it returns with what  *)
(* is meant.                                                               *)
(***************************************************************************)
EXTENDS Naturals, Sequences, SequencesExt, TLC

CONSTANTS NotANumber, Bad

VARIABLE input

D == INSTANCE Durations WITH Width <- 18, DEFAULT_INTERVAL <- 43200
C == INSTANCE CertExpiry
Z == INSTANCE ZoneSearch WITH Lower <- ("LAN" :> "lan" @@ "FORWARD" :> "forward")
L == INSTANCE ListParsers WITH Names <- {"d", "e"}, Capital <- ("D" :> "d"), Ips <- {"ip"}
P == INSTANCE ChrootPaths
Y == INSTANCE ConfigMerge

-----------------------------------------------------------------------------
\* Around the largest numbers of a word, and what people write.
Durations ==
  {D!Text(n, u) : n \in 0 .. 100 \cup {1440, 2184, 2185, 4368, 4369} \cup {NotANumber}, u \in D!Units}
    \cup {D!Text(n, u) : n \in {131071, 131072, 262143, 262144}, u \in {"s", "m", "none"}}

When(year, month, day, hour, minute, second) ==
  [year |-> year, month |-> month, day |-> day, hour |-> hour, minute |-> minute, second |-> second]

Zeros(n) == [i \in 1 .. n |-> 0]

Certificate(version, serial, issuer, rest, after) ==
  [version |-> version, serial |-> Zeros(serial), algorithm |-> Zeros(9), issuer |-> Zeros(issuer),
   before |-> [after EXCEPT !.year = 1990], after |-> after,
   rest |-> C!Tlv(48, Zeros(rest)), signature |-> C!Tlv(48, Zeros(9)) \o C!Tlv(3, Zeros(rest))]

\* Certificates: every kind of year and month, and fields on both sides of each form of length.
Certificates ==
  {Certificate(TRUE, 5, 20, 10, t) :
     t \in {When(y, m, d, 0, 0, 0) : y \in {1999, 2000, 2023, 2024, 2049, 2050, 2100}, m \in 1 .. 12, d \in {1, 28}}
             \cup {When(y, 2, 29, 23, 59, 59) : y \in {2000, 2024}}
             \cup {When(y, 12, 31, 23, 59, 59) : y \in {1970, 2025, 2099}}}
    \cup {Certificate(v, s, i, r, When(2026, 2, 3, 4, 5, 6)) :
             v \in BOOLEAN, s \in {0, 20, 127, 128}, i \in {0, 127, 128, 255, 256, 300}, r \in {0, 100, 200, 300}}
    \cup {Certificate(TRUE, 20, 300, 65536, When(2026, 2, 3, 4, 5, 6))}

Name(labels) == [labels |-> labels, dot |-> FALSE]

Dotted(labels) == [labels |-> labels, dot |-> TRUE]

Record(name, type, target) == [name |-> name, type |-> type, fits |-> TRUE, target |-> target]

ZoneRecords ==
  {Record(n, t, Name(<<"x">>)) : n \in {Z!At, Name(<<"a">>), Dotted(<<"a", "LAN">>)}, t \in {"A", "CNAME", "SOA"}}
    \cup {Record(n, "NS", Name(<<"a", "lan">>)) : n \in {Z!At, Name(<<"b">>)}}

Doc(zone, records) == [zone |-> zone, records |-> records]

Broken == Doc(Name(<<"lan">>), <<[Record(Z!At, "A", Name(<<"x">>)) EXCEPT !.fits = FALSE]>>)

ZoneDocs == {Doc(Name(<<"LAN">>), rs) : rs \in {<<>>} \cup [1 .. 1 -> ZoneRecords] \cup [1 .. 2 -> ZoneRecords]}

Indexes ==
  {[is_url |-> TRUE, allowed_types |-> ts, fetched |-> f,
    zones |-> <<[name |-> n, type |-> t, doc |-> doc], [name |-> Name(<<"b">>), type |-> "reverse", doc |-> Doc(Name(<<"b">>), <<>>)]>>] :
     ts \in {{}, {"forward"}, {"x"}}, f \in BOOLEAN, n \in {Name(<<"lan">>), Dotted(<<"LAN">>)},
     t \in {"forward", "FORWARD"}, doc \in {Doc(Name(<<"lan">>), <<>>), Broken}}

\* Two zones with a few records each, all ways their names can match, and limits.
Zone(name, records) == Z!load_snapshot(Name(<<name>>), Doc(Name(<<name>>), records))

Searches ==
  [zones: {<<Zone("lan", rs), Zone("b", <<Record(Z!At, "A", Name(<<"x">>))>>)>> :
             rs \in {<<>>} \cup [1 .. 2 -> {Record(n, "A", Name(<<"x">>)) : n \in {Z!At, Name(<<"a">>)}}]},
   score: [{<<"lan">>, <<"a", "lan">>, <<"b">>} -> 0 .. 2],
   zone: {<<>>, <<"lan">>, <<"c">>}, type: {"A", "SOA", "X"}, limit: 0 .. 4]

Formats == {"adguard", "hosts", "rpz", "domains", "wildcard"}

Pieces == {"d", "D", "ip", ".", "*", " ", "#", "@@", "||", "^", "$", "important", "third-party", "##", "!"}

Lines(n) == UNION {[1 .. k -> Pieces] : k \in 0 .. n}

Parts(set, n) == UNION {[1 .. k -> set] : k \in 0 .. n}

Paths(set, n) == {P!Path(abs, ps) : abs \in BOOLEAN, ps \in Parts(set, n)}

Configs ==
  {[chroot_dir |-> dir, socket |-> path, database |-> [kind |-> kind, path |-> path],
    listeners |-> {[enabled |-> TRUE, cert_path |-> path, key_path |-> path]}] :
     dir \in Paths({"a", "b", ".."}, 2), path \in Paths({"a", "b", "..", "."}, 3),
     kind \in {"sqlite", "server"}}

Scalar(x) == [scalar |-> x]

\* All mappings with some of the keys, each with a value of its own set.
Maps(values) == {[map |-> f] : f \in UNION {{f \in [keys -> UNION {values[k] : k \in keys}] :
                   \A k \in keys : f[k] \in values[k]} : keys \in SUBSET DOMAIN values}}

\* A configuration with one or two listeners; x says whose values it has.
Yamls(x, listeners) ==
  LET section == {Scalar(x)} \cup Maps([address |-> {Scalar(x)}, addresses |-> {[seq |-> <<Scalar(x), Scalar(x)>>]}, port |-> {Scalar(x)}])
  IN Maps([listen |-> {Scalar(x)} \cup Maps([l \in listeners |-> section]), api |-> {Scalar(x)} \cup Maps([port |-> {Scalar(x)}])])

YamlPaths ==
  {<<>>, <<"listen">>, <<"api">>, <<"api", "port">>}
    \cup {<<"listen", l>> : l \in {"dns", "dot"}}
    \cup {<<"listen", l, k>> : l \in {"dns", "dot"}, k \in {"address", "addresses", "port"}}

-----------------------------------------------------------------------------
Init == input = [of |-> "nothing"]

Give(of, in) == input' = [of |-> of, in |-> in]

Next ==
  /\ input.of = "nothing"
  /\ \/ \E t \in Durations : Give("duration", t)
     \/ \E c \in Certificates : Give("certificate", c)
     \/ \E doc \in ZoneDocs, next \in {Broken, Doc(Name(<<"lan">>), <<>>)},
           name \in {<<"lan">>, <<"a", "lan">>, <<"b", "lan">>}, type \in {"A", "NS", "SOA", "ANY"} :
          Give("query", [doc |-> doc, next |-> next, name |-> name, type |-> type])
     \/ \E s \in Searches : Give("search", s)
     \/ \E i, j \in Indexes : Give("index", <<i, j>>)
     \/ \E f \in Formats, v \in {"block", "allow"}, t \in {"d", "D", "e"} :
          Give("entry", [format |-> f, verdict |-> v, text |-> t])
     \/ \E line \in Lines(4) : Give("line", line)
     \/ \E c \in Configs : Give("paths", c)
     \/ \E example \in Yamls("example", {"dns"}), user \in Yamls("user", {"dns", "dot"}) :
          Give("yaml", <<example, user>>)

Spec == Init /\ [][Next]_input

-----------------------------------------------------------------------------
(* What was set is what the daemon goes by.  A refresh interval or a time  *)
(* to live means in the running daemon what it meant where it was given,   *)
(* although parse_interval_secs or parse_cache_ttl_secs made it a number   *)
(* for the database and config_from_db.rs a text again; and the user's     *)
(* settings come through merge_with_example: see UserSettingsWin.          *)
SettingsAreKept ==
  /\ input.of = "duration" => /\ D!IntervalSurvivesDatabase(input.in)
                              /\ D!TtlSurvivesDatabase(input.in)
                              /\ D!ReadersAgree(input.in)
  /\ input.of = "yaml" => Y!UserSettingsWin(input.in[1], input.in[2], YamlPaths)

(* The expiry that renewal goes by is the one in the certificate: see      *)
(* ExpiryIsTheCertificates, of parse_x509_not_after.                       *)
ExpiryIsRead == input.of = "certificate" => C!ExpiryIsTheCertificates(input.in)

(* A zone that the daemon answers itself is answered as its document says, *)
(* and a search finds its records: see ZoneAnswersAsWritten, of            *)
(* load_snapshot and resolve, and SearchFindsBest, of search_records.      *)
ZonesAnswerAsWritten ==
  /\ input.of = "query" =>
       Z!ZoneAnswersAsWritten(Name(<<"lan">>), input.in.doc, input.in.next, input.in.name, input.in.type)
  /\ input.of = "search" =>
       Z!SearchFindsBest(input.in.zones, input.in.score, input.in.zone, input.in.type, input.in.limit)

(* Discovered zones never stand beside a configured one: see               *)
(* DiscoveryKeepsManualZones, of build_zone_discovery_entries.             *)
ManualZonesStay == input.of = "index" => Z!DiscoveryKeepsManualZones(<<Name(<<"lan">>)>>, input.in)

(* Entries are read as they are written, in each format, and the formats   *)
(* agree on lines they share: see ListsReadAsWritten and FormatsAgree, of  *)
(* parse_list_content and the five line parsers.                           *)
ListsAreReadAsWritten ==
  /\ input.of = "entry" => L!ListsReadAsWritten(input.in.format, input.in.verdict, input.in.text)
  /\ input.of = "line" => L!FormatsAgree(input.in)

(* The daemon in its chroot and the programs outside mean the same files:  *)
(* see SameFileInsideAndOut, of validate_config and the path functions.    *)
PathsMeetInChroot == input.of = "paths" => P!SameFileInsideAndOut(input.in)
=============================================================================
