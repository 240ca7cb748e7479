---------------------------- MODULE AcmeRenewal ----------------------------
(***************************************************************************)
(* Certificates from an ACME authority: src/frameworks/acme/mod.rs (the    *)
(* order, the DNS-01 challenges, the files and the renewal task),          *)
(* cloudflare.rs (the challenge records), cert_resolver.rs (the key that   *)
(* TLS handshakes use) and the part of src/main.rs that starts them.       *)
(*                                                                         *)
(* Time passes in steps of the renewal task's sleeps; an order is short    *)
(* against them and takes no time.  A certificate is known by the number   *)
(* of its issue and by the time it has left; the key issued with it has    *)
(* the same number.  The process may stop anywhere, also between or in the *)
(* middle of two writes.                                                   *)
(***************************************************************************)
EXTENDS Integers, Sequences, FiniteSets

CONSTANTS
  Domains,        \* the names of the certificate, each a sequence of labels
  Zones,          \* the active zones of the Cloudflare account
  ZoneId,         \* the zone given in the configuration, or NoZone
  NoZone,
  Issues,         \* numbers of issues
  Lifetime,       \* of an issued certificate
  Window,         \* renew_before_expiry
  CheckInterval,  \* 12 hours in the code
  FirstBackoff,   \* 1 hour
  MaxBackoff      \* 24 hours

ASSUME DomainsAssumption == Domains \subseteq Seq(STRING) /\ Domains # {}
ASSUME IssuesAssumption == Issues \subseteq Nat \ {0}
ASSUME TimesAssumption ==
  /\ Lifetime \in Nat /\ Window \in Nat /\ CheckInterval \in Nat \ {0}
  /\ FirstBackoff \in Nat \ {0} /\ MaxBackoff \in Nat \ {0} /\ FirstBackoff <= MaxBackoff

VARIABLES
  phase,    \* "down", "startup" (obtaining), "sleep", "backoff" or "renew"
  wait,     \* time left to sleep
  backoff,  \* the renewal task's variable
  flow,     \* run_acme_flow: how far it is, its variables
  order,    \* order[d]: the authority's state of the authorization of d
  txt,      \* this order's challenge records at the provider; "stuck" if they
            \* cannot be deleted.  Those of earlier orders are not followed
  account,  \* the credentials file: "none", "saved" or "torn"
  disk,     \* the certificate file and the key file
  served,   \* what the SharedCertResolver holds
  halved,   \* history: certificate and key were not saved together
  fails,    \* history: failed renewals of the certificate served
  due       \* history: time the certificate served has been in the window

vars == <<phase, wait, backoff, flow, order, txt, account, disk, served,
          halved, fails, due>>

history == <<halved, fails, due>>

None == 0   \* no such file
Torn == -1  \* a file whose writing was interrupted
Self == -2  \* the temporary self-signed certificate and its key

File == Issues \cup {None, Torn}

Flows ==
  [pc: {"idle", "account", "order", "authz", "ready", "cleanup", "poll", "finalize",
        "save_cert", "save_key"},
   todo: SUBSET Domains, ids: SUBSET Domains, ok: BOOLEAN, issue: Issues \cup {None}]

NoFlow == [pc |-> "idle", todo |-> {}, ids |-> {}, ok |-> TRUE, issue |-> None]

\* generate_temp_certified_key; such a certificate is valid for centuries.
Temporary == [cert |-> Self, key |-> Self, left |-> 0]

NoOrder == [d \in Domains |-> "none"]

Up == phase # "down"

\* cert_time_remaining is at most Window, or unknown because it has expired.
InWindow(s) == s.cert # Self /\ s.left <= Window

-----------------------------------------------------------------------------
(* load_cert_from_disk: both files are there and parse.  Whether the key   *)
(* belongs to the certificate is not looked at.                            *)
Loadable == disk.cert \in Issues /\ disk.key \in Issues

\* The candidates for a zone: the domain and its parents, but no single label.
find_zone_id(d) ==
  LET hits == {i \in 1..(Len(d) - 1) : SubSeq(d, i, Len(d)) \in Zones}
  IN  IF hits = {} THEN NoZone
      ELSE LET i == CHOOSE i \in hits : \A j \in hits : i <= j IN SubSeq(d, i, Len(d))

resolve_zone_id(d) == IF ZoneId # NoZone THEN ZoneId ELSE find_zone_id(d)

\* Numbers that no file and no key in use has.
Fresh == Issues \ {disk.cert, disk.key, served.cert, served.key}

Init ==
  /\ phase = "down" /\ wait = 0 /\ backoff = FirstBackoff
  /\ flow = NoFlow /\ order = NoOrder
  /\ txt = {} /\ account = "none"
  /\ disk = [cert |-> None, key |-> None, left |-> 0]
  /\ served = Temporary
  /\ halved = FALSE /\ fails = 0 /\ due = 0

\* Up to the order, if there has to be one.
obtain_or_load_certificate ==
  IF Loadable /\ disk.left > Window
  THEN phase' = "sleep" /\ wait' = CheckInterval /\ flow' = NoFlow
  ELSE phase' = "startup" /\ wait' = 0 /\ flow' = [NoFlow EXCEPT !.pc = "account"]

\* run_daemon: the initial key, and AcmeManager::new.
Start ==
  /\ phase = "down"
  /\ served' = IF Loadable THEN disk ELSE Temporary
  /\ obtain_or_load_certificate
  /\ UNCHANGED <<backoff, order, txt, account, disk, history>>

(* The process stops, on a signal or not, and its variables are gone; a    *)
(* file being written may be left torn.                                    *)
Exit ==
  /\ Up
  /\ phase' = "down" /\ wait' = 0 /\ backoff' = FirstBackoff
  /\ flow' = NoFlow /\ order' = NoOrder /\ served' = Temporary
  /\ \/ UNCHANGED <<disk, account>>
     \/ flow.pc = "account" /\ account = "none" /\ account' = "torn" /\ UNCHANGED disk
     \/ flow.pc = "save_cert" /\ disk' = [disk EXCEPT !.cert = Torn] /\ UNCHANGED account
     \/ flow.pc = "save_key" /\ disk' = [disk EXCEPT !.key = Torn] /\ UNCHANGED account
  /\ halved' = (halved \/ flow.pc \in {"save_cert", "save_key"})
  /\ txt' = {} /\ fails' = 0 /\ due' = 0

-----------------------------------------------------------------------------
(* How run_acme_flow ends: at start its error is logged, in the renewal    *)
(* task it makes the task wait.  What becomes of the order no longer       *)
(* matters.                                                                *)
Finish(ok) ==
  /\ flow' = NoFlow /\ order' = NoOrder
  /\ phase' = IF phase = "renew" /\ ~ok THEN "backoff" ELSE "sleep"
  /\ wait' = IF phase = "renew" /\ ~ok THEN backoff ELSE CheckInterval
  /\ backoff' = IF ok THEN FirstBackoff ELSE backoff

Fail ==
  /\ Finish(FALSE)
  /\ fails' = IF phase = "renew" /\ served.left > 0 THEN fails + 1 ELSE fails
  /\ UNCHANGED due

Goto(pc) == flow' = [flow EXCEPT !.pc = pc] /\ UNCHANGED <<phase, wait, backoff>>

\* Restored from the file, or created and saved.
get_or_create_account ==
  /\ flow.pc = "account" /\ account # "torn"
  /\ account' = "saved"
  /\ Goto("order")
  /\ UNCHANGED <<order, txt, disk, served, history>>

\* The authority may know some of the names already.
NewOrder ==
  /\ flow.pc = "order"
  /\ order' \in [Domains -> {"pending", "valid"}]
  /\ txt' = {}
  /\ flow' = [flow EXCEPT !.pc = "authz", !.todo = Domains]
  /\ UNCHANGED <<phase, wait, backoff, account, disk, served, history>>

\* Any of the requests of these steps fails, and a torn file always does.
RequestFails ==
  /\ flow.pc \in {"account", "order", "poll", "finalize"}
  /\ Fail
  /\ UNCHANGED <<txt, account, disk, served, halved>>

-----------------------------------------------------------------------------
(* process_authorizations, one name after the other.                       *)

SkipValid(d) ==
  /\ flow.pc = "authz" /\ d \in flow.todo /\ order[d] = "valid"
  /\ flow' = [flow EXCEPT !.todo = @ \ {d}]
  /\ UNCHANGED <<phase, wait, backoff, order, txt, account, disk, served, history>>

create_txt_record(d) ==
  /\ flow.pc = "authz" /\ d \in flow.todo /\ order[d] = "pending"
  /\ resolve_zone_id(d) # NoZone
  /\ txt' = txt \cup {<<d, "now">>}
  /\ flow' = [flow EXCEPT !.pc = "ready", !.todo = @ \ {d}, !.ids = @ \cup {d}]
  /\ UNCHANGED <<phase, wait, backoff, order, account, disk, served, history>>

(* Another status, no DNS-01 challenge, no zone or an error from the       *)
(* provider, which may have made the record all the same.                  *)
AuthorizationFails ==
  /\ flow.pc = "authz" /\ flow.todo # {}
  /\ flow' = [flow EXCEPT !.pc = "cleanup", !.ok = FALSE]
  /\ txt' \in {txt} \cup {txt \cup {<<d, "stuck">>} : d \in flow.todo}
  /\ UNCHANGED <<phase, wait, backoff, order, account, disk, served, history>>

\* After a minute for the record to spread.
set_ready(d) ==
  /\ flow.pc = "ready" /\ order[d] = "pending" /\ d \in flow.ids
  /\ \/ order' = [order EXCEPT ![d] = "ready"] /\ Goto("authz")
     \/ UNCHANGED <<order, phase, wait, backoff>> /\ flow' = [flow EXCEPT !.pc = "cleanup", !.ok = FALSE]
  /\ UNCHANGED <<txt, account, disk, served, history>>

AuthorizationsDone ==
  /\ flow.pc = "authz" /\ flow.todo = {}
  /\ Goto("cleanup")
  /\ UNCHANGED <<order, txt, account, disk, served, history>>

\* The authority looks the record up, sooner or later.
Validate(d) ==
  /\ order[d] = "ready"
  /\ order' = [order EXCEPT ![d] = IF \E r \in txt : r[1] = d THEN "valid" ELSE "invalid"]
  /\ UNCHANGED <<phase, wait, backoff, flow, txt, account, disk, served, history>>

(* The records are deleted as soon as all challenges were announced, and   *)
(* also when that failed; an error is logged.                              *)
delete_txt_record(d) ==
  /\ flow.pc = "cleanup" /\ d \in flow.ids
  /\ flow' = [flow EXCEPT !.ids = @ \ {d}]
  /\ txt' \in {txt \ {<<d, "now">>}, (txt \ {<<d, "now">>}) \cup {<<d, "stuck">>}}
  /\ UNCHANGED <<phase, wait, backoff, order, account, disk, served, history>>

\* Mutant: the error of process_authorizations returns before the records are deleted.
CleanedUp_EarlyReturn ==
  /\ flow.pc = "cleanup" /\ (flow.ids = {} \/ ~flow.ok)
  /\ IF flow.ok THEN Goto("poll") /\ UNCHANGED <<order, fails, due>> ELSE Fail
  /\ UNCHANGED <<txt, account, disk, served, halved>>

CleanedUp ==
  /\ flow.pc = "cleanup" /\ flow.ids = {}
  /\ IF flow.ok THEN Goto("poll") /\ UNCHANGED <<order, fails, due>> ELSE Fail
  /\ UNCHANGED <<txt, account, disk, served, halved>>

-----------------------------------------------------------------------------
PollReady ==
  /\ flow.pc = "poll" /\ \A d \in Domains : order[d] = "valid"
  /\ Goto("finalize")
  /\ UNCHANGED <<order, txt, account, disk, served, history>>

finalize ==
  /\ flow.pc = "finalize"
  /\ \E i \in Fresh : /\ \A j \in Fresh : i <= j
                     /\ flow' = [flow EXCEPT !.pc = "save_cert", !.issue = i]
  /\ UNCHANGED <<phase, wait, backoff, order, txt, account, disk, served, history>>

\* Mutant: the new certificate is used with the old key until the key is saved.
SaveCert_UpdateEarly ==
  /\ flow.pc = "save_cert"
  /\ disk' = [disk EXCEPT !.cert = flow.issue, !.left = Lifetime]
  /\ served' = [served EXCEPT !.cert = flow.issue, !.left = Lifetime]
  /\ Goto("save_key")
  /\ UNCHANGED <<order, txt, account, history>>

\* save_cert_to_disk writes the certificate first.
SaveCert ==
  /\ flow.pc = "save_cert"
  /\ disk' = [disk EXCEPT !.cert = flow.issue, !.left = Lifetime]
  /\ Goto("save_key")
  /\ UNCHANGED <<order, txt, account, served, history>>

\* Mutant: the resolver is not told about the new certificate.
SaveKey_NoUpdate ==
  /\ flow.pc = "save_key"
  /\ disk' = [disk EXCEPT !.key = flow.issue]
  /\ Finish(TRUE)
  /\ halved' = FALSE /\ fails' = 0 /\ due' = 0
  /\ UNCHANGED <<txt, account, served>>

\* Then the key, and both go into the resolver.
SaveKey ==
  /\ flow.pc = "save_key"
  /\ disk' = [disk EXCEPT !.key = flow.issue]
  /\ served' = [cert |-> flow.issue, key |-> flow.issue, left |-> Lifetime]
  /\ Finish(TRUE)
  /\ halved' = FALSE /\ fails' = 0 /\ due' = 0
  /\ UNCHANGED <<txt, account>>

SaveFails ==
  /\ flow.pc \in {"save_cert", "save_key"}
  /\ Fail
  /\ disk' \in {disk, IF flow.pc = "save_cert" THEN [disk EXCEPT !.cert = Torn] ELSE [disk EXCEPT !.key = Torn]}
  /\ halved' = TRUE
  /\ UNCHANGED <<txt, account, served>>

run_acme_flow ==
  \/ get_or_create_account \/ NewOrder \/ RequestFails
  \/ \E d \in Domains : SkipValid(d) \/ create_txt_record(d) \/ set_ready(d) \/ delete_txt_record(d)
  \/ AuthorizationFails \/ AuthorizationsDone \/ CleanedUp
  \/ PollReady \/ finalize \/ SaveCert \/ SaveKey \/ SaveFails

-----------------------------------------------------------------------------
(* spawn_renewal_task.                                                     *)

\* Time passes while the task sleeps or the process is down.
Tick ==
  /\ (phase \in {"sleep", "backoff"} /\ wait > 0) \/ phase = "down"
  /\ wait' = IF phase = "down" THEN wait ELSE wait - 1
  /\ disk' = [disk EXCEPT !.left = IF @ > 0 THEN @ - 1 ELSE 0]
  /\ served' = [served EXCEPT !.left = IF @ > 0 THEN @ - 1 ELSE 0]
  /\ due' = IF Up /\ InWindow(served) /\ served.left > 0 THEN due + 1 ELSE due
  /\ UNCHANGED <<phase, backoff, flow, order, txt, account, halved, fails>>

\* Mutant: only a certificate that has expired is renewed.
Check_Expired ==
  /\ phase = "sleep" /\ wait = 0
  /\ IF served.cert # Self /\ served.left = 0
     THEN phase' = "renew" /\ flow' = [NoFlow EXCEPT !.pc = "account"] /\ UNCHANGED <<wait, backoff>>
     ELSE wait' = CheckInterval /\ backoff' = FirstBackoff /\ UNCHANGED <<phase, flow>>
  /\ UNCHANGED <<order, txt, account, disk, served, history>>

Check ==
  /\ phase = "sleep" /\ wait = 0
  /\ IF InWindow(served)
     THEN phase' = "renew" /\ flow' = [NoFlow EXCEPT !.pc = "account"] /\ UNCHANGED <<wait, backoff>>
     ELSE wait' = CheckInterval /\ backoff' = FirstBackoff /\ UNCHANGED <<phase, flow>>
  /\ UNCHANGED <<order, txt, account, disk, served, history>>

\* Mutant: the task leaves its loop after a failed renewal.
Wake_Return ==
  /\ phase = "backoff" /\ wait = 0
  /\ UNCHANGED vars

\* After the backoff the loop begins again with its sleep.
Wake ==
  /\ phase = "backoff" /\ wait = 0
  /\ backoff' = IF 2 * backoff < MaxBackoff THEN 2 * backoff ELSE MaxBackoff
  /\ phase' = "sleep" /\ wait' = CheckInterval
  /\ UNCHANGED <<flow, order, txt, account, disk, served, history>>

RenewalTask == Tick \/ Check \/ Wake \/ run_acme_flow

Next ==
  \/ Start \/ Exit
  \/ RenewalTask
  \/ \E d \in Domains : Validate(d)

Spec == Init /\ [][Next]_vars

(* The task keeps running and the authority looks records up.              *)
FairSpec ==
  /\ Spec
  /\ WF_vars(RenewalTask)
  /\ \A d \in Domains : WF_vars(Validate(d))

-----------------------------------------------------------------------------
(* Types of the files, the order, the records and the renewal task.        *)
TypeOK ==
  /\ phase \in {"down", "startup", "sleep", "backoff", "renew"}
  /\ wait \in Nat /\ backoff \in FirstBackoff..MaxBackoff
  /\ flow \in Flows
  /\ order \in [Domains -> {"none", "pending", "ready", "valid", "invalid"}]
  /\ txt \subseteq Domains \X {"now", "stuck"}
  /\ account \in {"none", "saved", "torn"}
  /\ disk \in [cert: File, key: File, left: 0..Lifetime]
  /\ served \in [cert: File \cup {Self}, key: File \cup {Self}, left: 0..Lifetime]
  /\ halved \in BOOLEAN /\ fails \in Nat /\ due \in Nat

(* "Always clean up DNS records, even on failure": whichever request or    *)
(* name an order failed at, it leaves no record behind that the code knows *)
(* of and never tried to delete.                                           *)
RecordsCleanedUp ==
  flow.pc \notin {"authz", "ready", "cleanup"} => \A d \in Domains : <<d, "now">> \notin txt

(* Handshakes never use a certificate with another one's key, unless the   *)
(* two files had been written only by half when the process last started.  *)
ServedPairMatches == served.cert = served.key \/ halved

(* A restart goes on with the certificate in use: outside of a save, if    *)
(* the files are complete they are what is served, so a renewal survives a *)
(* restart and a restart never brings an older certificate back.           *)
RestartKeepsCertificate ==
  Up /\ flow.pc # "save_key" /\ ~halved /\ Loadable => served = disk

\* The first backoff, doubled n times, and as far as its limit allows.
Doubled[n \in Nat] == IF n = 0 THEN FirstBackoff ELSE 2 * Doubled[n - 1]
Limited(n) == IF Doubled[n] < MaxBackoff THEN Doubled[n] ELSE MaxBackoff

\* The longest time that n failed renewals in a row can take.
Spent[n \in Nat] == IF n = 0 THEN 0 ELSE Spent[n - 1] + CheckInterval + Limited(n - 1)

(* Renewal keeps pace: the time a certificate spends in the renewal window *)
(* while the daemon runs is accounted for by one check interval and the    *)
(* waits after the failed renewals, with the backoff doubling up to its    *)
(* limit.  So a certificate expires in service only after as many failures *)
(* as fit into the window.                                                 *)
RenewalKeepsPace == due <= CheckInterval + Spent[fails]

(* A certificate in the renewal window is renewed or another attempt is    *)
(* made, for ever, as long as the daemon runs, however often that fails.   *)
RenewalIsTried ==
  (Up /\ InWindow(served)) ~> (flow.pc # "idle" \/ ~InWindow(served) \/ ~Up)
=============================================================================
