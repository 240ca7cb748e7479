---------------------------- MODULE CertExpiry ----------------------------
(***************************************************************************)
(* How long a certificate lasts: the reading of its notAfter in            *)
(* src/frameworks/acme/mod.rs (parse_x509_not_after and what it calls).    *)
(*                                                                         *)
(* A certificate is a sequence of bytes.  A point in time is a day, from   *)
(* 1 January 1970, and a second of the day.                                *)
(***************************************************************************)
EXTENDS Integers, Sequences, FiniteSets

\* None: the expiry cannot be told.
NoTime == <<>>

Byte(der, pos) == IF pos < Len(der) THEN der[pos + 1] ELSE -1

\* The number that the n bytes at pos make, n up to four.
Unsigned(der, pos, n) ==
  LET Shifted(length, i) == IF i <= n THEN 256 * length + der[pos + i] ELSE length
  IN Shifted(Shifted(Shifted(Shifted(0, 1), 2), 3), 4)

\* Mutant: every length is taken to be one byte.
parse_asn1_length_Short(der, pos) ==
  IF pos >= Len(der) THEN NoTime
  ELSE <<Byte(der, pos), pos + 1>>

(* The length at pos and the position after it.  More than four length     *)
(* bytes are refused.                                                      *)
parse_asn1_length(der, pos) ==
  LET first == Byte(der, pos)
      n     == first - 128
  IN IF first < 0 THEN NoTime
     ELSE IF first < 128 THEN <<first, pos + 1>>
     ELSE IF n > 4 \/ pos + 1 + n > Len(der) THEN NoTime
     ELSE <<Unsigned(der, pos + 1, n), pos + 1 + n>>

\* Into the value of a sequence; -1 when there is none at pos.
skip_tag_and_length(der, pos, tag) ==
  IF pos < 0 \/ Byte(der, pos) # tag \/ parse_asn1_length(der, pos + 1) = NoTime THEN -1
  ELSE parse_asn1_length(der, pos + 1)[2]

\* Past a value of any kind.
skip_tlv(der, pos) ==
  IF pos < 0 \/ parse_asn1_length(der, pos + 1) = NoTime THEN -1
  ELSE parse_asn1_length(der, pos + 1)[1] + parse_asn1_length(der, pos + 1)[2]

\* Days since 1 March of year 0: a year is taken to begin in March.
days_from_civil(year, month, day) ==
  LET y   == IF month <= 2 THEN year - 1 ELSE year
      era == y \div 400
      yoe == y - era * 400
      m   == IF month > 2 THEN month - 3 ELSE month + 9
      doy == (153 * m + 2) \div 5 + day - 1
  IN era * 146097 + yoe * 365 + yoe \div 4 - yoe \div 100 + doy

\* A sign, which parse takes too, does not occur in a certificate.
Digits(s, from, n) ==
  IF Len(s) < from + n - 1 \/ \E i \in from .. from + n - 1 : s[i] \notin 48 .. 57 THEN -1
  ELSE LET d(i) == s[from + i] - 48
       IN IF n = 2 THEN 10 * d(0) + d(1)
          ELSE 1000 * d(0) + 100 * d(1) + 10 * d(2) + d(3)

\* UTCTime has a year of two digits, GeneralizedTime one of four.
YearIn(tag, s) ==
  LET yy == Digits(s, 1, 2)
  IN IF tag = 24 THEN Digits(s, 1, 4)
     ELSE IF yy = -1 THEN -1 ELSE IF yy >= 50 THEN 1900 + yy ELSE 2000 + yy

Epoch == days_from_civil(1970, 1, 1)

\* So many days and seconds make a negative number of seconds.
Negative(days, secs) == days + secs \div 86400 < 0

\* A time before 1970 is no time.
SinceEpoch(year, part) ==
  LET days == days_from_civil(year, part[0], part[1]) - Epoch
      secs == 3600 * part[2] + 60 * part[3] + part[4]
  IN IF Negative(days, secs) THEN NoTime ELSE <<days, secs>>

parse_asn1_time(tag, s) ==
  LET year == YearIn(tag, s)
      from == IF tag = 24 THEN 5 ELSE 3
      part == [i \in 0 .. 4 |-> Digits(s, from + 2 * i, 2)]
  IN IF tag \notin {23, 24} \/ year = -1 \/ (\E i \in 0 .. 4 : part[i] = -1) THEN NoTime
     ELSE SinceEpoch(year, part)

(* The outer sequence, the first in it, past the version (if there is one),*)
(* serial number, algorithm and issuer, into the validity, past notBefore. *)
parse_x509_not_after(der) ==
  LET tbs    == skip_tag_and_length(der, skip_tag_and_length(der, 0, 48), 48)
      serial == IF tbs >= 0 /\ Byte(der, tbs) = 160 THEN skip_tlv(der, tbs) ELSE tbs
      issuer == skip_tlv(der, skip_tlv(der, serial))
      after  == skip_tlv(der, skip_tag_and_length(der, skip_tlv(der, issuer), 48))
      length == parse_asn1_length(der, after + 1)
  IN IF after < 0 \/ Byte(der, after) = -1 \/ length = NoTime THEN NoTime
     ELSE IF length[1] + length[2] > Len(der) THEN NoTime
     ELSE parse_asn1_time(Byte(der, after), SubSeq(der, length[2] + 1, length[1] + length[2]))

-----------------------------------------------------------------------------
(* What a certificate is, independently of the code: DER as the authority  *)
(* writes it, and days counted one year and one month after the other.     *)

\* The fewest bytes that hold the length, which is below MaxLength.
MaxLength == 16777216

DerLength(n) ==
  IF n < 128 THEN <<n>>
  ELSE IF n < 256 THEN <<129, n>>
  ELSE IF n < 65536 THEN <<130, n \div 256, n % 256>>
  ELSE <<131, n \div 65536, (n \div 256) % 256, n % 256>>

Tlv(tag, value) == <<tag>> \o DerLength(Len(value)) \o value

TwoDigits(n) == <<48 + (n \div 10), 48 + (n % 10)>>

\* RFC 5280: UTCTime through the year 2049.
DerTime(t) ==
  LET rest == TwoDigits(t.month) \o TwoDigits(t.day) \o TwoDigits(t.hour)
                \o TwoDigits(t.minute) \o TwoDigits(t.second) \o <<90>>
  IN IF t.year < 2050 THEN Tlv(23, TwoDigits(t.year % 100) \o rest)
     ELSE Tlv(24, TwoDigits(t.year \div 100) \o TwoDigits(t.year % 100) \o rest)

(* c.rest is what follows the validity, c.signature what follows the       *)
(* signed part.                                                            *)
TbsCertificate(c) ==
  (IF c.version THEN Tlv(160, Tlv(2, <<2>>)) ELSE <<>>)
    \o Tlv(2, c.serial) \o Tlv(48, c.algorithm) \o Tlv(48, c.issuer)
    \o Tlv(48, DerTime(c.before) \o DerTime(c.after)) \o c.rest

Certificate(c) == Tlv(48, Tlv(48, TbsCertificate(c)) \o c.signature)

Leap(y) == y % 4 = 0 /\ (y % 100 = 0 => y % 400 = 0)

MonthLength(y, m) ==
  IF m = 2 THEN (IF Leap(y) THEN 29 ELSE 28) ELSE IF m \in {4, 6, 9, 11} THEN 30 ELSE 31

DaysToYear(y) == 365 * (y - 1970) + Cardinality({k \in 1970 .. y - 1 : Leap(k)})

DaysToMonth(y, m) ==
  LET Past(k) == IF k < m THEN MonthLength(y, k) ELSE 0
  IN Past(1) + Past(2) + Past(3) + Past(4) + Past(5) + Past(6)
       + Past(7) + Past(8) + Past(9) + Past(10) + Past(11)

(* The expiry that parse_x509_not_after finds in a certificate is the one  *)
(* the authority put there, whatever the lengths of the fields before it   *)
(* and whether it has a version: renewal begins at the right time.         *)
ExpiryIsTheCertificates(c) ==
  parse_x509_not_after(Certificate(c))
    = <<DaysToYear(c.after.year) + DaysToMonth(c.after.year, c.after.month) + c.after.day - 1,
        3600 * c.after.hour + 60 * c.after.minute + c.after.second>>
=============================================================================
