--------------------------- MODULE ListParsers ---------------------------
(***************************************************************************)
(* The five formats of filter lists: parse_list_content of                 *)
(* src/use_cases/filtering/mod.rs and adguard.rs, hosts.rs, rpz.rs,        *)
(* domains.rs, wildcard.rs and common.rs beside it.                        *)
(*                                                                         *)
(* A line is a sequence of pieces: names, keywords, signs, blanks.  The    *)
(* result of a line is the sequence of its entries.                        *)
(***************************************************************************)
EXTENDS Naturals, Sequences, SequencesExt

CONSTANTS
  Names,    \* domain names, in lower case
  Capital,  \* Capital[t]: the name that t is with capitals
  Ips       \* addresses

COSMETIC_MARKERS ==
  {"#@$?#", "#$?#", "#@?#", "#?#", "#@$#", "#@%#", "#@#", "##", "#$#", "#%#", "$@$", "$$"}

\* The pieces that begin with a hash.
Hash == {"#"} \cup (COSMETIC_MARKERS \ {"$@$", "$$"})

Cosmetic(s) == \/ ToSet(s) \cap COSMETIC_MARKERS # {}
               \/ \E i \in 1 .. Len(s) - 1 : s[i] = s[i + 1] /\ s[i] \in {"#", "$"}

Numbers == {"300"}

Classes == {"IN", "CH", "HS"}

Skipped == [verdict |-> "skip", name |-> <<>>]

\* Name::from_ascii: labels of letters, digits, "-", "_" and "*", none of them empty.
IsName(s) ==
  /\ s # <<>>
  /\ ToSet(s) \subseteq Names \cup Ips \cup Numbers \cup Classes
       \cup {".", "*", "CNAME", "A", "AAAA", "TXT", "SOA", "NS", "rpz-passthru", "important", "third-party"}
  /\ s[1] # "." /\ \A i \in 2 .. Len(s) : ~(s[i - 1] = "." /\ s[i] = ".")

RECURSIVE TrimStart(_, _)
TrimStart(s, p) == IF IsPrefix(p, s) THEN TrimStart(SubSeq(s, Len(p) + 1, Len(s)), p) ELSE s

TrimEnd(s, p) == Reverse(TrimStart(Reverse(s), p))

Trim(s) == TrimEnd(TrimStart(s, <<" ">>), <<" ">>)

RECURSIVE Before(_, _)
Before(s, ps) == IF s = <<>> \/ Head(s) \in ps THEN <<>> ELSE <<Head(s)>> \o Before(Tail(s), ps)

After(s, ps) == SubSeq(s, Len(Before(s, ps)) + 2, Len(s))

RECURSIVE Split(_, _)
Split(s, p) == IF p \notin ToSet(s) THEN <<s>> ELSE <<Before(s, {p})>> \o Split(After(s, {p}), p)

\* split_whitespace
Words(s) == SelectSeq(Split(s, " "), LAMBDA w : w # <<>>)

to_ascii_lowercase(s) == [i \in DOMAIN s |-> IF s[i] \in DOMAIN Capital THEN Capital[s[i]] ELSE s[i]]

normalize_domain(s) == TrimStart(to_ascii_lowercase(TrimEnd(Trim(s), <<".">>)), <<"*", ".">>)

\* normalize_domain_opt, and what a parser makes of its result.
Entry(verdict, s) ==
  LET d == normalize_domain(s)
  IN IF IsName(d) THEN [verdict |-> verdict, name |-> d] ELSE Skipped

is_ip_like(s) == Len(s) = 1 /\ s[1] \in Ips

skip_comment_line(line) ==
  IF Trim(line) = <<>> \/ Head(Trim(line)) \in Hash \cup {"!"} THEN <<>> ELSE Trim(line)

\* The words of a line before an inline comment.
Plain(line) == Words(Before(Trim(line), Hash))

\* An address and the names it stands for, or names.
parse_hosts_line(line) ==
  LET w     == Plain(line)
      hosts == IF is_ip_like(w[1]) THEN Tail(w) ELSE w
  IN IF skip_comment_line(line) = <<>> \/ w = <<>> THEN <<>>
     ELSE IF hosts = <<>> THEN <<Skipped>>
     ELSE [i \in DOMAIN hosts |-> Entry("block", hosts[i])]

parse_domain_list_line(line) ==
  IF skip_comment_line(line) = <<>> \/ Plain(line) = <<>> THEN <<>>
  ELSE <<Entry("block", Plain(line)[1])>>

parse_wildcard_line(line) ==
  IF skip_comment_line(line) = <<>> \/ Plain(line) = <<>> THEN <<>>
  ELSE <<Entry("block", Plain(line)[1])>>

\* The domain and the modifiers of a rule, without its "||".
split_domain_and_modifiers(s) ==
  IF "^" \in ToSet(s)
  THEN LET after == After(s, {"^"})
       IN <<Before(s, {"^"}), IF after # <<>> /\ after[1] = "$" THEN Tail(after) ELSE <<>>>>
  ELSE IF "$" \in ToSet(s) THEN <<Before(s, {"$"}), After(s, {"$"})>>
  ELSE <<s, <<>>>>

\* Some modifier is not one that means nothing for a name.
restricting_modifier(modifiers) ==
  LET pieces == Split(modifiers, ",")
      key(m) == Trim(Before(TrimStart(Trim(m), <<"~">>), {"="}))
  IN \E i \in DOMAIN pieces :
       key(pieces[i]) \notin {<<>>, <<"important">>, <<"match-case">>, <<"all">>, <<"_">>}

\* Mutant: "@@" is not looked at.
parse_adguard_line_NoException(line) ==
  LET t     == skip_comment_line(line)
      rule  == IF t # <<>> /\ t[1] = "@@" THEN Tail(t) ELSE t
      parts == split_domain_and_modifiers(Tail(rule))
      w     == Plain(line)
  IN IF t = <<>> THEN <<>>
     ELSE IF Cosmetic(t) THEN <<Skipped>>
     ELSE IF rule # <<>> /\ rule[1] = "||"
     THEN IF restricting_modifier(parts[2]) THEN <<Skipped>> ELSE <<Entry("block", parts[1])>>
     ELSE IF w = <<>> THEN <<>>
     ELSE <<Entry("block", IF Len(w) > 1 /\ is_ip_like(w[1]) THEN w[2] ELSE w[1])>>

(* Rules about pages are skipped.  A rule is "||" and a domain, with "@@"  *)
(* before it an exception; other lines are read as hosts or plain domains. *)
parse_adguard_line(line) ==
  LET t         == skip_comment_line(line)
      exception == t[1] = "@@"
      rule      == IF exception THEN Tail(t) ELSE t
      parts     == split_domain_and_modifiers(Tail(rule))
      w         == Plain(line)
  IN IF t = <<>> THEN <<>>
     ELSE IF Cosmetic(t) THEN <<Skipped>>
     ELSE IF rule # <<>> /\ rule[1] = "||"
     THEN IF restricting_modifier(parts[2]) THEN <<Skipped>>
          ELSE <<Entry(IF exception THEN "allow" ELSE "block", parts[1])>>
     ELSE IF exception THEN <<Skipped>>
     ELSE IF w = <<>> THEN <<>>
     ELSE <<Entry("block", IF Len(w) > 1 /\ is_ip_like(w[1]) THEN w[2] ELSE w[1])>>

(* The words from the record type on; nothing for "@" or without a type.   *)
find_rtype_index(w) ==
  LET types == {i \in 2 .. Len(w) : w[i] \notin {<<p>> : p \in Numbers \cup Classes}}
  IN IF w[1] = <<"@">> \/ types = {} THEN <<>>
     ELSE SubSeq(w, CHOOSE i \in types : \A j \in types : i <= j, Len(w))

parse_rpz_line(line) ==
  LET t    == Trim(line)
      w    == Words(t)
      from == find_rtype_index(w)
      type == from[1]
  IN IF t = <<>> \/ t[1] \in {";", "$TTL", "$ORIGIN", "$INCLUDE"} THEN <<>>
     ELSE IF Len(w) < 2 THEN <<Skipped>>
     ELSE IF from = <<>> \/ type \in {<<"SOA">>, <<"NS">>} THEN <<>>
     ELSE IF type = <<"CNAME">> /\ Len(from) > 1
     THEN <<Entry(IF TrimEnd(from[2], <<".">>) = <<"rpz-passthru">> THEN "allow" ELSE "block", w[1])>>
     ELSE IF type \in {<<"A">>, <<"AAAA">>} THEN <<Entry("block", w[1])>>
     ELSE <<Skipped>>

parse_list_content(lines, format) ==
  LET parse(line) == CASE format = "adguard"  -> parse_adguard_line(line)
                       [] format = "hosts"    -> parse_hosts_line(line)
                       [] format = "rpz"      -> parse_rpz_line(line)
                       [] format = "domains"  -> parse_domain_list_line(line)
                       [] format = "wildcard" -> parse_wildcard_line(line)
      all     == FlattenSeq([i \in DOMAIN lines |-> parse(lines[i])])
      of(v)   == SelectSeq(all, LAMBDA e : e.verdict = v)
      names(v) == {of(v)[i].name : i \in DOMAIN of(v)}
  IN [blocks |-> names("block"), exceptions |-> names("allow"), skipped |-> Len(of("skip"))]

-----------------------------------------------------------------------------
\* The ways to write that d is blocked, or allowed, in a format.
Writings(format, verdict, d) ==
  CASE format = "adguard" /\ verdict = "block" ->
         {<<"||", d, "^">>, <<"||", d, "^", "$", "important">>, <<"||", d>>, <<d>>}
    [] format = "adguard" /\ verdict = "allow" -> {<<"@@", "||", d, "^">>, <<"@@", "||", d>>}
    [] format = "hosts" /\ verdict = "block" -> {<<ip, " ", d>> : ip \in Ips} \cup {<<d>>}
    [] format = "rpz" /\ verdict = "block" ->
         {<<d, " ", "CNAME", " ", ".">>,
          <<"*", ".", d, " ", "300", " ", "IN", " ", "CNAME", " ", "*", ".">>}
           \cup {<<d, " ", "A", " ", ip>> : ip \in Ips}
    [] format = "rpz" /\ verdict = "allow" -> {<<d, " ", "IN", " ", "CNAME", " ", "rpz-passthru", ".">>}
    [] format = "domains" /\ verdict = "block" -> {<<d>>, <<d, ".">>}
    [] format = "wildcard" /\ verdict = "block" -> {<<"*", ".", d>>}
    [] OTHER -> {}

(* However an entry is written in a format, in capitals or not, with       *)
(* blanks around it, beside other lines: the list has exactly that entry.  *)
ListsReadAsWritten(format, verdict, t) ==
  LET d    == to_ascii_lowercase(<<t>>)
      none == {}
  IN \A line \in Writings(format, verdict, t) :
       parse_list_content(<<<<>>, <<" ">> \o line \o <<" ">>, <<";">>>>, format)
         \in [blocks: {IF verdict = "block" THEN {d} ELSE none},
              exceptions: {IF verdict = "allow" THEN {d} ELSE none},
              skipped: 0 .. 1]

(* Lines without signs of their own mean the same in the formats that have *)
(* them: "domains" and "wildcard" read alike, "adguard" reads the name     *)
(* that "hosts" reads first, and an exception, whatever follows its "@@",  *)
(* never blocks.                                                           *)
FormatsAgree(line) ==
  LET h == parse_hosts_line(line)
      a == parse_adguard_line(line)
      w == Plain(line)
  IN /\ parse_wildcard_line(line) = parse_domain_list_line(line)
     /\ ToSet(line) \cap {"@@", "||"} = {} /\ ~Cosmetic(line) =>
          /\ (a = <<>>) = (h = <<>>)
          /\ a # <<>> => \/ a[1] = h[1]
                         \/ h = <<Skipped>> /\ Len(w) = 1 /\ is_ip_like(w[1])
     /\ Trim(line) # <<>> /\ Trim(line)[1] = "@@" => \A i \in DOMAIN a : a[i].verdict # "block"
=============================================================================
