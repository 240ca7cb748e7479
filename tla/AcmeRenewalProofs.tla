------------------------- MODULE AcmeRenewalProofs -------------------------
(***************************************************************************)
(* For any names, lifetimes and intervals, and a process that may stop at  *)
(* every step: challenge records are cleaned up, a certificate is served   *)
(* with its own key, a restart goes on with the certificate in use, and    *)
(* renewal keeps pace with the window.                                     *)
(***************************************************************************)
EXTENDS AcmeRenewal, WellFoundedInduction, TLAPS

Pair == [cert: File \cup {Self}, key: File \cup {Self}, left: Nat]

Busy == {"authz", "ready", "cleanup"}

Types ==
  /\ phase \in {"down", "startup", "sleep", "backoff", "renew"}
  /\ flow \in Flows /\ disk \in Pair /\ served \in Pair /\ halved \in BOOLEAN

\* Time passes only between the orders.
Awake == phase \in {"down", "sleep", "backoff"} => flow.pc = "idle"

\* The records to delete are those that there are.
RecordsInv ==
  /\ \A d \in Domains : <<d, "now">> \in txt => d \in flow.ids
  /\ flow.pc \notin Busy => flow.ids = {}

(* The files belong together unless a save was interrupted; in the middle  *)
(* of one the new certificate is there.                                    *)
PairInv ==
  /\ flow.pc = "save_key" => disk.cert = flow.issue /\ disk.left = Lifetime
  /\ Loadable /\ ~halved /\ flow.pc # "save_key" => disk.cert = disk.key
  /\ served.cert = served.key \/ halved
  /\ Up /\ flow.pc # "save_key" /\ ~halved /\ Loadable => served = disk

IInv == Types /\ Awake /\ RecordsInv /\ PairInv

LEMMA IdleFlow == NoFlow \in Flows /\ NoFlow.pc = "idle" /\ NoFlow.ids = {}
  BY DEF NoFlow, Flows

LEMMA InitInv == ASSUME Init PROVE IInv
<1>1. Types
  BY IdleFlow, Zenon DEF Init, Types, Pair, File, Temporary
<1>2. Awake /\ RecordsInv
  BY IdleFlow DEF Init, Awake, RecordsInv, Busy
<1>3. PairInv
  BY IdleFlow, IssuesAssumption DEF Init, PairInv, Loadable, None, Up, Temporary
<1> QED  BY <1>1, <1>2, <1>3 DEF IInv

\* Steps that touch neither the files nor what is served.
LEMMA FilesStay ==
  ASSUME IInv, UNCHANGED <<disk, served, halved>>,
         flow' \in Flows, flow.pc # "save_key", flow'.pc # "save_key",
         phase' \in {"down", "startup", "sleep", "backoff", "renew"}, Up' = Up
  PROVE  Types' /\ PairInv'
  BY DEF IInv, Types, PairInv, Loadable, Up

\* A step within the order: where it goes, and with what.
LEMMA FlowTypes ==
  ASSUME flow \in Flows, NEW d \in Domains
  PROVE  /\ \A pc \in {"authz", "ready", "cleanup", "poll", "finalize", "order", "save_key"} :
              /\ [flow EXCEPT !.pc = pc] \in Flows
              /\ [flow EXCEPT !.pc = pc].pc = pc
              /\ [flow EXCEPT !.pc = pc].ids = flow.ids
              /\ [flow EXCEPT !.pc = pc].issue = flow.issue
         /\ [flow EXCEPT !.pc = "cleanup", !.ok = FALSE] \in Flows
         /\ [flow EXCEPT !.pc = "cleanup", !.ok = FALSE].pc = "cleanup"
         /\ [flow EXCEPT !.pc = "cleanup", !.ok = FALSE].ids = flow.ids
         /\ [flow EXCEPT !.pc = "authz", !.todo = Domains] \in Flows
         /\ [flow EXCEPT !.pc = "authz", !.todo = Domains].pc = "authz"
         /\ [flow EXCEPT !.pc = "authz", !.todo = Domains].ids = flow.ids
         /\ [flow EXCEPT !.todo = @ \ {d}] \in Flows
         /\ [flow EXCEPT !.todo = @ \ {d}].pc = flow.pc
         /\ [flow EXCEPT !.todo = @ \ {d}].ids = flow.ids
         /\ [flow EXCEPT !.ids = @ \ {d}] \in Flows
         /\ [flow EXCEPT !.ids = @ \ {d}].pc = flow.pc
         /\ [flow EXCEPT !.ids = @ \ {d}].ids = flow.ids \ {d}
  BY Zenon DEF Flows

\* The order ends, well or not.
LEMMA Ends ==
  ASSUME IInv, NEW ok \in BOOLEAN, Finish(ok)
  PROVE  /\ flow' \in Flows /\ flow'.pc = "idle" /\ flow'.ids = {}
         /\ phase' \in {"sleep", "backoff"}
  BY IdleFlow DEF Finish

\* Steps before the files are written.
LEMMA RequestSteps ==
  ASSUME IInv,
         get_or_create_account \/ NewOrder \/ RequestFails \/ AuthorizationFails
           \/ AuthorizationsDone \/ CleanedUp \/ PollReady
  PROVE  IInv'
<1>0. PICK e \in Domains : TRUE
  BY DomainsAssumption
<1>1. flow \in Flows /\ phase # "down" /\ phase \notin {"sleep", "backoff"} /\ flow.pc # "save_key"
  BY DEF IInv, Types, Awake, get_or_create_account, NewOrder, RequestFails, AuthorizationFails,
         AuthorizationsDone, CleanedUp, PollReady
<1>2. CASE RequestFails
  <2>1. flow' \in Flows /\ flow'.pc = "idle" /\ flow'.ids = {} /\ phase' \in {"sleep", "backoff"}
    BY <1>2, Ends, Zenon DEF RequestFails, Fail
  <2>2. UNCHANGED <<disk, served, halved, txt>> /\ flow.ids = {}
    BY <1>2 DEF RequestFails, IInv, RecordsInv, Busy
  <2>3. Awake' /\ RecordsInv'
    BY <2>1, <2>2 DEF IInv, Awake, RecordsInv
  <2>4. Up' = Up
    BY <1>1, <2>1 DEF Up
  <2>5. Types' /\ PairInv'
    BY <1>1, <2>1, <2>2, <2>4, FilesStay
  <2> QED  BY <2>3, <2>5 DEF IInv
<1>3. CASE CleanedUp /\ ~flow.ok
  <2>1. flow' \in Flows /\ flow'.pc = "idle" /\ flow'.ids = {} /\ phase' \in {"sleep", "backoff"}
    BY <1>3, Ends, Zenon DEF CleanedUp, Fail
  <2>2. UNCHANGED <<disk, served, halved, txt>> /\ flow.ids = {}
    BY <1>3 DEF CleanedUp
  <2>3. Awake' /\ RecordsInv'
    BY <2>1, <2>2 DEF IInv, Awake, RecordsInv
  <2>4. Up' = Up
    BY <1>1, <2>1 DEF Up
  <2>5. Types' /\ PairInv'
    BY <1>1, <2>1, <2>2, <2>4, FilesStay
  <2> QED  BY <2>3, <2>5 DEF IInv
<1>4. CASE \/ get_or_create_account \/ NewOrder \/ AuthorizationFails
           \/ AuthorizationsDone \/ PollReady
           \/ (CleanedUp /\ flow.ok)
  <2>1. /\ UNCHANGED <<disk, served, halved, phase>>
        /\ \A d \in Domains : <<d, "now">> \in txt' => <<d, "now">> \in txt
    BY <1>4 DEF get_or_create_account, NewOrder, AuthorizationFails, AuthorizationsDone, PollReady,
                CleanedUp, Goto, history
  <2>2. /\ flow' \in Flows /\ flow'.ids = flow.ids
        /\ flow'.pc \notin {"save_key", "idle"} /\ (flow'.pc \notin Busy => flow.ids = {})
    <3>1. CASE get_or_create_account
      BY <1>0, <1>1, <3>1, FlowTypes, Zenon DEF get_or_create_account, Goto, IInv, RecordsInv, Busy
    <3>2. CASE PollReady
      BY <1>0, <1>1, <3>2, FlowTypes, Zenon DEF PollReady, Goto, IInv, RecordsInv, Busy
    <3>3. CASE CleanedUp /\ flow.ok
      BY <1>0, <1>1, <3>3, FlowTypes, ZenonT(40) DEF CleanedUp, Goto
    <3>4. CASE NewOrder
      BY <1>0, <1>1, <3>4, FlowTypes, Zenon DEF NewOrder, Busy
    <3>5. CASE AuthorizationFails
      BY <1>0, <1>1, <3>5, FlowTypes, Zenon DEF AuthorizationFails, Busy
    <3>6. CASE AuthorizationsDone
      BY <1>0, <1>1, <3>6, FlowTypes, Zenon DEF AuthorizationsDone, Goto, Busy
    <3> QED  BY <1>4, <3>1, <3>2, <3>3, <3>4, <3>5, <3>6
  <2>3. Awake' /\ RecordsInv'
    BY <1>1, <2>1, <2>2 DEF IInv, Awake, RecordsInv
  <2>4. Up' = Up /\ phase' \in {"down", "startup", "sleep", "backoff", "renew"}
    BY <2>1 DEF Up, IInv, Types
  <2>5. Types' /\ PairInv'
    BY <1>1, <2>1, <2>2, <2>4, FilesStay
  <2> QED  BY <2>3, <2>5 DEF IInv
<1> QED  BY <1>2, <1>3, <1>4

\* Within the order of the challenges, the files are left alone.
LEMMA WithinOrder ==
  ASSUME IInv, UNCHANGED <<disk, served, halved, phase>>,
         flow.pc \notin {"idle", "save_key"}, flow'.pc \notin {"idle", "save_key"}, flow' \in Flows,
         RecordsInv'
  PROVE  IInv'
<1>1. Awake'
  BY DEF IInv, Awake
<1>2. Up' = Up /\ phase' \in {"down", "startup", "sleep", "backoff", "renew"}
  BY DEF Up, IInv, Types
<1>3. Types' /\ PairInv'
  BY <1>2, FilesStay
<1> QED  BY <1>1, <1>3 DEF IInv

\* process_authorizations and the deletions.
LEMMA ChallengeSteps ==
  ASSUME IInv, NEW d \in Domains,
         SkipValid(d) \/ create_txt_record(d) \/ set_ready(d) \/ delete_txt_record(d)
  PROVE  IInv'
<1>1. flow \in Flows
  BY DEF IInv, Types
<1>2. /\ \A e \in Domains : <<e, "now">> \in txt => e \in flow.ids
      /\ flow.pc \in Busy
  BY DEF IInv, RecordsInv, Busy, SkipValid, create_txt_record, set_ready, delete_txt_record
<1>3. CASE SkipValid(d)
  <2>1. flow' \in Flows /\ flow'.pc = flow.pc /\ flow'.ids = flow.ids
    BY <1>1, <1>3, FlowTypes, Zenon DEF SkipValid
  <2>2. UNCHANGED <<disk, served, halved, phase, txt>>
    BY <1>3 DEF SkipValid, history
  <2>3. RecordsInv'
    BY <1>2, <2>1, <2>2 DEF RecordsInv
  <2> QED  BY <1>2, <2>1, <2>2, <2>3, WithinOrder DEF Busy
<1>4. CASE create_txt_record(d)
  <2>1. flow' \in Flows /\ flow'.pc = "ready" /\ flow'.ids = flow.ids \cup {d}
    <3> DEFINE g == [pc |-> "ready", todo |-> flow.todo \ {d}, ids |-> flow.ids \cup {d},
                     ok |-> flow.ok, issue |-> flow.issue]
    <3>1. flow' = g
      BY <1>1, <1>4, Zenon DEF create_txt_record, Flows
    <3>2. g \in Flows /\ g.pc = "ready" /\ g.ids = flow.ids \cup {d}
      BY <1>1 DEF Flows
    <3> QED  BY <3>1, <3>2
  <2>2. UNCHANGED <<disk, served, halved, phase>> /\ txt' = txt \cup {<<d, "now">>}
    BY <1>4 DEF create_txt_record, history
  <2>3. RecordsInv'
    BY <1>2, <2>1, <2>2 DEF RecordsInv, Busy
  <2> QED  BY <1>2, <2>1, <2>2, <2>3, WithinOrder DEF Busy
<1>5. CASE set_ready(d)
  <2>1. flow' \in Flows /\ flow'.pc \in {"authz", "cleanup"} /\ flow'.ids = flow.ids
    <3>1. \/ flow' = [flow EXCEPT !.pc = "authz"]
          \/ flow' = [flow EXCEPT !.pc = "cleanup", !.ok = FALSE]
      BY <1>5 DEF set_ready, Goto
    <3>2. CASE flow' = [flow EXCEPT !.pc = "authz"]
      BY <1>1, <3>2, FlowTypes, Zenon
    <3>3. CASE flow' = [flow EXCEPT !.pc = "cleanup", !.ok = FALSE]
      BY <1>1, <3>3, FlowTypes, Zenon
    <3> QED  BY <3>1, <3>2, <3>3
  <2>2. UNCHANGED <<disk, served, halved, phase, txt>>
    BY <1>5 DEF set_ready, Goto, history
  <2>3. RecordsInv'
    BY <1>2, <2>1, <2>2 DEF RecordsInv, Busy
  <2> QED  BY <1>2, <2>1, <2>2, <2>3, WithinOrder DEF Busy
<1>6. CASE delete_txt_record(d)
  <2>1. flow' \in Flows /\ flow'.pc = "cleanup" /\ flow'.ids = flow.ids \ {d}
    BY <1>1, <1>6, FlowTypes, Zenon DEF delete_txt_record
  <2>2. /\ UNCHANGED <<disk, served, halved, phase>>
        /\ \A e \in Domains : <<e, "now">> \in txt' => e # d /\ <<e, "now">> \in txt
    BY <1>6 DEF delete_txt_record, history
  <2>3. RecordsInv'
    BY <1>2, <2>1, <2>2 DEF RecordsInv, Busy
  <2> QED  BY <1>2, <2>1, <2>2, <2>3, WithinOrder DEF Busy
<1> QED  BY <1>3, <1>4, <1>5, <1>6

\* The certificate is issued and its files are written.
LEMMA SaveSteps ==
  ASSUME IInv, finalize \/ SaveCert \/ SaveKey \/ SaveFails
  PROVE  IInv'
<1>1. /\ flow \in Flows /\ disk \in Pair /\ served \in Pair /\ Lifetime \in Nat
      /\ flow.ids = {} /\ phase \in {"startup", "renew"} /\ \A d \in Domains : <<d, "now">> \notin txt
  BY TimesAssumption, Zenon
     DEF IInv, Types, RecordsInv, Awake, Busy, finalize, SaveCert, SaveKey, SaveFails
<1>2. CASE finalize
  <2>1. PICK i \in Issues : flow' = [flow EXCEPT !.pc = "save_cert", !.issue = i]
    BY <1>2, Zenon DEF finalize, Fresh
  <2>2. flow' \in Flows /\ flow'.pc = "save_cert" /\ flow'.ids = flow.ids
    BY <1>1, <2>1, Zenon DEF Flows
  <2>3. UNCHANGED <<disk, served, halved, phase, txt>> /\ flow.pc = "finalize"
    BY <1>2, Zenon DEF finalize, history
  <2>4. RecordsInv'
    BY <1>1, <2>2, <2>3 DEF RecordsInv
  <2> QED  BY <2>2, <2>3, <2>4, WithinOrder
<1>3. CASE SaveCert
  <2>1. /\ flow' \in Flows /\ flow'.pc = "save_key" /\ flow'.ids = flow.ids /\ flow'.issue = flow.issue
        /\ UNCHANGED <<served, halved, phase, txt>>
    <3>1. PICK e \in Domains : TRUE
      BY DomainsAssumption
    <3> QED  BY <1>1, <1>3, <3>1, FlowTypes, Zenon DEF SaveCert, Goto, history
  <2>2. disk' \in Pair /\ disk'.cert = flow.issue /\ disk'.left = Lifetime
    <3>1. flow.issue \in File \cup {Self}
      BY <1>1 DEF Flows, File
    <3>2. disk' = [cert |-> flow.issue, key |-> disk.key, left |-> Lifetime]
      BY <1>1, <1>3, Zenon DEF SaveCert, Pair
    <3> QED  BY <1>1, <3>1, <3>2 DEF Pair
  <2>3. Types' /\ Awake' /\ RecordsInv'
    BY <1>1, <2>1, <2>2 DEF IInv, Types, Awake, RecordsInv
  <2>4. PairInv'
    BY <2>1, <2>2 DEF IInv, PairInv
  <2> QED  BY <2>3, <2>4 DEF IInv
<1>4. CASE SaveKey
  <2> DEFINE new == [cert |-> flow.issue, key |-> flow.issue, left |-> Lifetime]
  <2>1. disk' = new /\ served' = new
    <3>1. disk.cert = flow.issue /\ disk.left = Lifetime
      BY <1>4 DEF SaveKey, IInv, PairInv
    <3> QED  BY <1>1, <1>4, <3>1 DEF SaveKey, Pair
  <2>2. new \in Pair /\ new.cert = new.key
    <3>1. flow.issue \in File \cup {Self}
      BY <1>1 DEF Flows, File
    <3> QED  BY <1>1, <3>1 DEF Pair
  <2> HIDE DEF new
  <2>3. flow' \in Flows /\ flow'.pc = "idle" /\ flow'.ids = {} /\ phase' \in {"sleep", "backoff"}
    BY <1>4, Ends, Zenon DEF SaveKey
  <2>4. halved' = FALSE /\ UNCHANGED txt
    BY <1>4 DEF SaveKey
  <2>5. Types' /\ Awake' /\ RecordsInv'
    BY <1>1, <2>1, <2>2, <2>3, <2>4, Zenon DEF Types, Awake, RecordsInv
  <2>6. PairInv'
    BY <2>1, <2>2, <2>3 DEF PairInv
  <2> QED  BY <2>5, <2>6 DEF IInv
<1>5. CASE SaveFails
  <2>1. flow' \in Flows /\ flow'.pc = "idle" /\ flow'.ids = {} /\ phase' \in {"sleep", "backoff"}
    BY <1>5, Ends, Zenon DEF SaveFails, Fail
  <2>2. halved' = TRUE /\ UNCHANGED <<txt, served>>
    BY <1>5 DEF SaveFails
  <2>3. disk' \in Pair
    BY <1>1, <1>5 DEF SaveFails, Pair, File
  <2>4. Types' /\ Awake' /\ RecordsInv'
    BY <1>1, <2>1, <2>2, <2>3 DEF Types, Awake, RecordsInv
  <2>5. PairInv'
    BY <2>1, <2>2 DEF PairInv
  <2> QED  BY <2>4, <2>5 DEF IInv
<1> QED  BY <1>2, <1>3, <1>4, <1>5

\* The renewal task between the orders, start, stop and the authority.
LEMMA TaskSteps ==
  ASSUME IInv, Tick \/ Check \/ Wake \/ \E d \in Domains : Validate(d)
  PROVE  IInv'
<1>1. CASE \E d \in Domains : Validate(d)
  BY <1>1 DEF Validate, history, IInv, Types, Awake, RecordsInv, PairInv, Loadable, Up
<1>2. CASE Wake
  BY <1>2 DEF Wake, history, IInv, Types, Awake, RecordsInv, PairInv, Loadable, Up
<1>3. CASE Check
  <2>1. flow.pc = "idle" /\ flow.ids = {} /\ phase = "sleep" /\ UNCHANGED <<txt, disk, served, halved>>
    BY <1>3 DEF Check, IInv, Awake, RecordsInv, Busy, history
  <2>2. /\ flow' \in Flows /\ flow'.pc \in {"idle", "account"} /\ flow'.ids = {}
        /\ phase' \in {"sleep", "renew"} /\ (phase' = "sleep" => flow'.pc = "idle")
    <3>1. \/ phase' = "renew" /\ flow' = [NoFlow EXCEPT !.pc = "account"]
          \/ UNCHANGED <<phase, flow>>
      BY <1>3 DEF Check
    <3>2. CASE phase' = "renew" /\ flow' = [NoFlow EXCEPT !.pc = "account"]
      BY <3>2, Zenon DEF NoFlow, Flows
    <3>3. CASE UNCHANGED <<phase, flow>>
      BY <2>1, <3>3 DEF IInv, Types
    <3> QED  BY <3>1, <3>2, <3>3
  <2>3. Up' = Up
    BY <2>1, <2>2 DEF Up
  <2>4. Types' /\ PairInv'
    BY <2>1, <2>2, <2>3, FilesStay
  <2>5. Awake' /\ RecordsInv'
    BY <2>1, <2>2 DEF Awake, RecordsInv, IInv
  <2> QED  BY <2>4, <2>5 DEF IInv
<1>4. CASE Tick
  <2> DEFINE Older(n) == IF n > 0 THEN n - 1 ELSE 0
  <2>1. /\ UNCHANGED <<phase, flow, txt, halved>>
        /\ disk \in Pair /\ served \in Pair /\ flow.pc = "idle"
    BY <1>4 DEF Tick, IInv, Types, Awake
  <2>2. \A n \in Nat : Older(n) \in Nat
    OBVIOUS
  <2>3. /\ disk' = [disk EXCEPT !.left = Older(disk.left)]
        /\ served' = [served EXCEPT !.left = Older(served.left)]
    BY <1>4, <2>1 DEF Tick, Pair
  <2> HIDE DEF Older
  <2>4. /\ disk' \in Pair /\ disk'.cert = disk.cert /\ disk'.key = disk.key
        /\ served' \in Pair /\ served'.cert = served.cert /\ served'.key = served.key
        /\ (served = disk => served' = disk')
    BY <2>1, <2>2, <2>3 DEF Pair
  <2>5. Types' /\ Awake' /\ RecordsInv'
    BY <2>1, <2>4 DEF IInv, Types, Awake, RecordsInv
  <2>6. PairInv'
    BY <2>1, <2>4 DEF IInv, PairInv, Loadable, Up
  <2> QED  BY <2>5, <2>6 DEF IInv
<1> QED  BY <1>1, <1>2, <1>3, <1>4

LEMMA StartKeepsInv == ASSUME IInv, Start PROVE IInv'
<1>1. /\ flow.pc = "idle" /\ flow.ids = {} /\ UNCHANGED <<disk, txt, halved>>
      /\ disk \in Pair /\ \A d \in Domains : <<d, "now">> \notin txt
  BY DEF Start, IInv, Types, Awake, RecordsInv, Busy, history
<1>2. /\ flow' \in Flows /\ flow'.pc \in {"idle", "account"} /\ flow'.ids = {}
      /\ phase' \in {"sleep", "startup"} /\ (phase' = "sleep" => flow'.pc = "idle")
  <2>1. \/ phase' = "sleep" /\ flow' = NoFlow
        \/ phase' = "startup" /\ flow' = [NoFlow EXCEPT !.pc = "account"]
    BY DEF Start, obtain_or_load_certificate
  <2>2. CASE phase' = "sleep" /\ flow' = NoFlow
    BY <2>2, IdleFlow
  <2>3. CASE phase' = "startup" /\ flow' = [NoFlow EXCEPT !.pc = "account"]
    BY <2>3, Zenon DEF NoFlow, Flows
  <2> QED  BY <2>1, <2>2, <2>3
<1>3. CASE Loadable
  <2>1. served' = disk
    BY <1>3 DEF Start
  <2> QED  BY <1>1, <1>2, <1>3, <2>1 DEF IInv, Types, Awake, RecordsInv, PairInv, Loadable, Up
<1>4. CASE ~Loadable
  <2>1. served' = Temporary
    BY <1>4 DEF Start
  <2>2. Temporary \in Pair /\ Temporary.cert = Temporary.key
    BY DEF Temporary, Pair
  <2>3. ~Loadable'
    BY <1>1, <1>4 DEF Loadable
  <2> QED  BY <1>1, <1>2, <2>1, <2>2, <2>3 DEF IInv, Types, Awake, RecordsInv, PairInv
<1> QED  BY <1>3, <1>4

LEMMA ExitKeepsInv == ASSUME IInv, Exit PROVE IInv'
<1>1. flow' \in Flows /\ flow'.pc = "idle" /\ flow'.ids = {} /\ phase' = "down" /\ txt' = {}
  BY IdleFlow DEF Exit
<1>2. Temporary \in Pair /\ Temporary.cert = Temporary.key /\ served' = Temporary
  BY DEF Temporary, Pair, Exit
<1>3. disk' \in Pair /\ halved' \in BOOLEAN
  BY DEF Exit, IInv, Types, Pair, File
<1>4. Types' /\ Awake' /\ RecordsInv'
  BY <1>1, <1>2, <1>3 DEF Types, Awake, RecordsInv
<1>5. Loadable' /\ ~halved' => disk'.cert = disk'.key
  <2>1. SUFFICES ASSUME Loadable', ~halved' PROVE disk'.cert = disk'.key
    OBVIOUS
  <2>2. ~halved /\ flow.pc \notin {"save_cert", "save_key"} /\ UNCHANGED disk
    BY <2>1, Zenon DEF Exit
  <2> QED  BY <2>1, <2>2 DEF IInv, PairInv, Loadable
<1>6. PairInv'
  BY <1>1, <1>2, <1>5 DEF PairInv, Up
<1> QED  BY <1>4, <1>6 DEF IInv

LEMMA StutterKeepsInv == ASSUME IInv, UNCHANGED vars PROVE IInv'
  BY DEF vars, IInv, Types, Awake, RecordsInv, PairInv, Loadable, Up

LEMMA InvHolds == Spec => []IInv
<1>1. Init => IInv
  BY InitInv
<1>2. IInv /\ [Next]_vars => IInv'
  <2> SUFFICES ASSUME IInv, [Next]_vars PROVE IInv'
    OBVIOUS
  <2>1. CASE run_acme_flow
    BY <2>1, RequestSteps, ChallengeSteps, SaveSteps DEF run_acme_flow
  <2>2. CASE Next /\ ~run_acme_flow
    BY <2>2, TaskSteps, StartKeepsInv, ExitKeepsInv DEF Next, RenewalTask
  <2> QED  BY <2>1, <2>2, StutterKeepsInv
<1> QED  BY <1>1, <1>2, PTL DEF Spec

(* Whatever an order fails at, and wherever the process stops, no order    *)
(* ends with a challenge record that it made and did not try to delete:    *)
(* run_acme_flow cleans up before it looks at the result.                  *)
THEOREM ChallengesCleanedUp == Spec => []RecordsCleanedUp
<1>1. IInv => RecordsCleanedUp
  BY Zenon DEF IInv, RecordsInv, RecordsCleanedUp, Busy
<1> QED  BY <1>1, InvHolds, PTL

(* The resolver never holds a certificate with the key of another, unless  *)
(* the process stopped, or failed, between the two writes of               *)
(* save_cert_to_disk.                                                      *)
THEOREM PairsMatch == Spec => []ServedPairMatches
<1>1. IInv => ServedPairMatches
  BY DEF IInv, PairInv, ServedPairMatches
<1> QED  BY <1>1, InvHolds, PTL

(* What a restart would load is what handshakes use, with the same time    *)
(* left, unless the files are incomplete.                                  *)
THEOREM RestartsKeep == Spec => []RestartKeepsCertificate
<1>1. IInv => RestartKeepsCertificate
  BY DEF IInv, PairInv, RestartKeepsCertificate
<1> QED  BY <1>1, InvHolds, PTL

-----------------------------------------------------------------------------
(* Induction, for sets of numbers.                                         *)

LEMMA SetInduction ==
  ASSUME NEW S, S \subseteq Nat, 0 \in S, \A k \in S : k + 1 \in S
  PROVE  S = Nat
<1> DEFINE T == Nat \ S
           R == OpToRel(<, Nat)
<1>1. IsWellFoundedOn(R, Nat)
  BY NatLessThanWellFounded, Zenon
<1>2. \A i, j \in Nat : <<j, i>> \in R <=> j < i
  BY DEF OpToRel
<1> HIDE DEF R
<1>3. ASSUME T # {} PROVE FALSE
  <2>1. T \subseteq Nat
    OBVIOUS
  <2>2. PICK m \in T : \A j \in T : ~(<<j, m>> \in R)
    <3> HIDE DEF T
    <3> QED  BY <1>1, <1>3, <2>1, WFMin, Zenon
  <2>3. m \in Nat /\ m \notin S
    OBVIOUS
  <2>4. m # 0
    BY <2>3
  <2>5. m - 1 \in Nat /\ m - 1 < m /\ (m - 1) + 1 = m
    BY <2>3, <2>4
  <2>6. m - 1 \in S
    BY <1>2, <2>2, <2>3, <2>5, Zenon
  <2> QED  BY <2>3, <2>5, <2>6
<1>4. \A k \in Nat : k \in S
  BY <1>3
<1> QED  BY <1>4, Zenon

(* A sequence of numbers can be given by its first and by how each follows *)
(* from the one before.                                                    *)
LEMMA Recursion ==
  ASSUME NEW a \in Nat, NEW G \in [Nat \X Nat -> Nat]
  PROVE  \E f \in [Nat -> Nat] : f[0] = a /\ \A k \in Nat : f[k + 1] = G[<<f[k], k>>]
<1> DEFINE Fits(f, m) == f[0] = a /\ \A k \in 0 .. (m - 1) : f[k + 1] = G[<<f[k], k>>]
           S == {m \in Nat : \E f \in [Nat -> Nat] : Fits(f, m)}
<1>1. S = Nat
  <2>1. 0 \in S
    <3>1. [k \in Nat |-> a] \in [Nat -> Nat] /\ Fits([k \in Nat |-> a], 0)
      OBVIOUS
    <3> QED  BY <3>1, Zenon
  <2>2. ASSUME NEW m \in S PROVE m + 1 \in S
    <3>1. PICK f \in [Nat -> Nat] : Fits(f, m)
      OBVIOUS
    <3> DEFINE g == [f EXCEPT ![m + 1] = G[<<f[m], m>>]]
    <3>2. m \in Nat /\ <<f[m], m>> \in Nat \X Nat
      OBVIOUS
    <3>3. G[<<f[m], m>>] \in Nat
      BY <3>2
    <3>4. /\ g \in [Nat -> Nat] /\ g[m + 1] = G[<<f[m], m>>]
          /\ \A k \in Nat : k # m + 1 => g[k] = f[k]
      BY <3>2, <3>3
    <3> HIDE DEF g
    <3>5. g[0] = a
      BY <3>1, <3>2, <3>4
    <3>6. ASSUME NEW k \in 0 .. m PROVE g[k + 1] = G[<<g[k], k>>]
      <4>1. g[k] = f[k]
        BY <3>2, <3>4
      <4>2. CASE k = m
        BY <3>4, <4>1, <4>2
      <4>3. CASE k # m
        <5>1. k \in 0 .. (m - 1) /\ k + 1 # m + 1 /\ k + 1 \in Nat
          BY <3>2, <4>3
        <5>2. g[k + 1] = f[k + 1]
          BY <3>4, <5>1
        <5>3. f[k + 1] = G[<<f[k], k>>]
          BY <3>1, <5>1
        <5> QED  BY <4>1, <5>2, <5>3
      <4> QED  BY <4>2, <4>3
    <3>7. Fits(g, m + 1)
      BY <3>2, <3>5, <3>6
    <3>8. m + 1 \in Nat
      BY <3>2
    <3> HIDE DEF Fits
    <3>9. \E e \in [Nat -> Nat] : Fits(e, m + 1)
      BY <3>4, <3>7, Zenon
    <3> QED  BY <3>8, <3>9, Zenon
  <2>3. S \subseteq Nat
    OBVIOUS
  <2> HIDE DEF S
  <2> QED  BY <2>1, <2>2, <2>3, SetInduction, Zenon
<1>2. ASSUME NEW m \in Nat PROVE \E f \in [Nat -> Nat] : Fits(f, m)
  BY <1>1, Zenon
<1> DEFINE pick == [m \in Nat |-> CHOOSE f \in [Nat -> Nat] : Fits(f, m)]
           h == [m \in Nat |-> pick[m][m]]
<1>3. ASSUME NEW m \in Nat PROVE pick[m] \in [Nat -> Nat] /\ Fits(pick[m], m)
  BY <1>2, Zenon
<1> HIDE DEF pick, Fits
<1>4. h \in [Nat -> Nat]
  BY <1>3
<1>5. h[0] = a
  BY <1>3 DEF Fits
<1>6. ASSUME NEW k \in Nat PROVE h[k + 1] = G[<<h[k], k>>]
  <2>1. k + 1 \in Nat /\ k <= k + 1 /\ k <= k /\ k \in 0 .. ((k + 1) - 1)
    OBVIOUS
  <2>2. pick[k + 1][k] = pick[k][k]
    <3>1. /\ pick[k + 1] \in [Nat -> Nat] /\ Fits(pick[k + 1], k + 1)
          /\ pick[k] \in [Nat -> Nat] /\ Fits(pick[k], k)
      BY <1>3, <2>1, Zenon
    <3> DEFINE f == pick[k + 1]
               g == pick[k]
               A == {i \in Nat : i <= k => f[i] = g[i]}
    <3>2. /\ f[0] = a /\ \A i \in 0 .. k : f[i + 1] = G[<<f[i], i>>]
          /\ g[0] = a /\ \A i \in 0 .. (k - 1) : g[i + 1] = G[<<g[i], i>>]
      BY <3>1 DEF Fits
    <3> HIDE DEF f, g
    <3>3. 0 \in A
      BY <3>2
    <3>4. ASSUME NEW i \in A PROVE i + 1 \in A
      <4>1. SUFFICES ASSUME i + 1 <= k PROVE f[i + 1] = g[i + 1]
        OBVIOUS
      <4>2. i \in 0 .. (k - 1) /\ i \in 0 .. k /\ f[i] = g[i]
        BY <4>1
      <4> QED  BY <3>2, <4>2, Zenon
    <3>5. A \subseteq Nat
      OBVIOUS
    <3>6. A = Nat
      <4> HIDE DEF A
      <4> QED  BY <3>3, <3>4, <3>5, SetInduction, Zenon
    <3>7. f[k] = g[k]
      BY <2>1, <3>6
    <3> QED  BY <3>7 DEF f, g
  <2>3. pick[k + 1][k + 1] = G[<<pick[k + 1][k], k>>]
    BY <1>3, <2>1 DEF Fits
  <2> QED  BY <2>1, <2>2, <2>3
<1> QED  BY <1>4, <1>5, <1>6, Zenon

(* What the time that a certificate has been due is made of: the sleep or  *)
(* the backoff that is running is still to be added, and the next backoff  *)
(* is the one that the failures so far lead to.  A certificate that has    *)
(* expired is no longer counted.                                           *)
PaceInv ==
  /\ wait \in Nat /\ backoff \in Nat /\ fails \in Nat /\ due \in Nat
  /\ served.cert = Self => served.left = 0
  /\ served.left > Window => due = 0
  /\ phase \in {"down", "startup"} => due = 0 /\ fails = 0 /\ backoff = FirstBackoff
  /\ due <= CheckInterval + Spent[fails]
  /\ served.left > 0 /\ phase = "sleep" =>
       due + wait <= CheckInterval + Spent[fails] /\ backoff <= Limited(fails)
  /\ served.left > 0 /\ phase = "renew" => backoff <= Limited(fails)
  /\ served.left > 0 /\ phase = "backoff" =>
       fails > 0 /\ due + wait <= Spent[fails] /\ backoff <= Limited(fails - 1)

LEMMA DoubledIs ==
  /\ Doubled \in [Nat -> Nat] /\ Doubled[0] = FirstBackoff
  /\ \A n \in Nat : Doubled[n + 1] = 2 * Doubled[n]
<1> DEFINE G == [x \in Nat \X Nat |-> 2 * x[1]]
<1>1. G \in [Nat \X Nat -> Nat] /\ \A m, n \in Nat : G[<<m, n>>] = 2 * m
  OBVIOUS
<1> HIDE DEF G
<1>2. PICK f \in [Nat -> Nat] : f[0] = FirstBackoff /\ \A k \in Nat : f[k + 1] = G[<<f[k], k>>]
  <2>1. FirstBackoff \in Nat
    BY TimesAssumption
  <2> QED  BY <1>1, <2>1, Recursion, Zenon
<1>3. \A k \in Nat : f[k + 1] = 2 * f[k]
  <2> SUFFICES ASSUME NEW k \in Nat PROVE f[k + 1] = 2 * f[k]
    OBVIOUS
  <2>1. f[k] \in Nat
    OBVIOUS
  <2> QED  BY <1>1, <1>2, <2>1, Zenon
<1>4. f = [n \in Nat |-> IF n = 0 THEN FirstBackoff ELSE 2 * f[n - 1]]
  <2>1. ASSUME NEW n \in Nat PROVE f[n] = IF n = 0 THEN FirstBackoff ELSE 2 * f[n - 1]
    <3>1. CASE n = 0
      BY <1>2, <3>1
    <3>2. CASE n # 0
      <4>1. n - 1 \in Nat /\ (n - 1) + 1 = n
        BY <3>2
      <4>2. f[(n - 1) + 1] = 2 * f[n - 1]
        BY <1>3, <4>1
      <4> QED  BY <3>2, <4>1, <4>2
    <3> QED  BY <3>1, <3>2
  <2> QED  BY <2>1
<1>5. Doubled = [n \in Nat |-> IF n = 0 THEN FirstBackoff ELSE 2 * Doubled[n - 1]]
  BY <1>4 DEF Doubled
<1>6. Doubled = f
  <2> DEFINE A == {n \in Nat : Doubled[n] = f[n]}
  <2>1. 0 \in A
    BY <1>2, <1>5
  <2>2. ASSUME NEW n \in A PROVE n + 1 \in A
    <3>1. n \in Nat /\ n + 1 \in Nat /\ n + 1 # 0 /\ (n + 1) - 1 = n
      OBVIOUS
    <3>2. Doubled[n + 1] = 2 * Doubled[n]
      BY <1>5, <3>1
    <3> QED  BY <1>3, <3>1, <3>2
  <2>3. A \subseteq Nat
    OBVIOUS
  <2>4. A = Nat
    <3> HIDE DEF A
    <3> QED  BY <2>1, <2>2, <2>3, SetInduction, Zenon
  <2>5. \A n \in Nat : Doubled[n] = f[n]
    BY <2>4
  <2>6. f = [n \in Nat |-> f[n]]
    OBVIOUS
  <2>7. Doubled = [n \in Nat |-> Doubled[n]]
    BY <1>5
  <2> QED  BY <2>5, <2>6, <2>7, Zenon
<1> QED  BY <1>2, <1>3, <1>6

LEMMA LimitedIs ==
  ASSUME NEW n \in Nat
  PROVE  /\ Limited(n) \in Nat /\ Limited(0) = FirstBackoff
         /\ Limited(n + 1) = IF 2 * Limited(n) < MaxBackoff THEN 2 * Limited(n) ELSE MaxBackoff
  BY DoubledIs, TimesAssumption DEF Limited

LEMMA SpentIs ==
  /\ Spent \in [Nat -> Nat] /\ Spent[0] = 0
  /\ \A n \in Nat : Spent[n + 1] = Spent[n] + CheckInterval + Limited(n)
<1> DEFINE G == [x \in Nat \X Nat |-> x[1] + CheckInterval + Limited(x[2])]
<1>1. G \in [Nat \X Nat -> Nat] /\ \A m, n \in Nat : G[<<m, n>>] = m + CheckInterval + Limited(n)
  BY LimitedIs, TimesAssumption
<1> HIDE DEF G
<1>2. PICK f \in [Nat -> Nat] : f[0] = 0 /\ \A k \in Nat : f[k + 1] = G[<<f[k], k>>]
  <2> DEFINE a == 0
  <2>1. a \in Nat
    OBVIOUS
  <2> HIDE DEF a
  <2>2. \E f \in [Nat -> Nat] : f[0] = a /\ \A k \in Nat : f[k + 1] = G[<<f[k], k>>]
    BY <1>1, <2>1, Recursion, Zenon
  <2> QED  BY <2>2 DEF a
<1>3. \A k \in Nat : f[k + 1] = f[k] + CheckInterval + Limited(k)
  <2> SUFFICES ASSUME NEW k \in Nat PROVE f[k + 1] = f[k] + CheckInterval + Limited(k)
    OBVIOUS
  <2>1. f[k] \in Nat
    OBVIOUS
  <2> QED  BY <1>1, <1>2, <2>1, Zenon
<1>4. f = [n \in Nat |-> IF n = 0 THEN 0 ELSE f[n - 1] + CheckInterval + Limited(n - 1)]
  <2>1. ASSUME NEW n \in Nat PROVE f[n] = IF n = 0 THEN 0 ELSE f[n - 1] + CheckInterval + Limited(n - 1)
    <3>1. CASE n = 0
      BY <1>2, <3>1
    <3>2. CASE n # 0
      <4>1. n - 1 \in Nat /\ (n - 1) + 1 = n
        BY <3>2
      <4>2. f[(n - 1) + 1] = f[n - 1] + CheckInterval + Limited(n - 1)
        BY <1>3, <4>1
      <4> QED  BY <3>2, <4>1, <4>2
    <3> QED  BY <3>1, <3>2
  <2> QED  BY <2>1
<1>5. Spent = [n \in Nat |-> IF n = 0 THEN 0 ELSE Spent[n - 1] + CheckInterval + Limited(n - 1)]
  BY <1>4 DEF Spent
<1>6. Spent = f
  <2> DEFINE A == {n \in Nat : Spent[n] = f[n]}
  <2>1. 0 \in A
    BY <1>2, <1>5
  <2>2. ASSUME NEW n \in A PROVE n + 1 \in A
    <3>1. n \in Nat /\ n + 1 \in Nat /\ n + 1 # 0 /\ (n + 1) - 1 = n
      OBVIOUS
    <3>2. Spent[n + 1] = Spent[n] + CheckInterval + Limited(n)
      BY <1>5, <3>1
    <3> QED  BY <1>3, <3>1, <3>2
  <2>3. A \subseteq Nat
    OBVIOUS
  <2>4. A = Nat
    <3> HIDE DEF A
    <3> QED  BY <2>1, <2>2, <2>3, SetInduction, Zenon
  <2>5. \A n \in Nat : Spent[n] = f[n]
    BY <2>4
  <2>6. f = [n \in Nat |-> f[n]]
    OBVIOUS
  <2>7. Spent = [n \in Nat |-> Spent[n]]
    BY <1>5
  <2> QED  BY <2>5, <2>6, <2>7, Zenon
<1> QED  BY <1>2, <1>3, <1>6

\* What a failed renewal adds, and how the backoff goes on after it.
LEMMA Failures ==
  ASSUME NEW n \in Nat
  PROVE  /\ Spent[n] \in Nat /\ Limited(n) \in Nat
         /\ FirstBackoff <= Limited(n)
         /\ Spent[n + 1] = Spent[n] + CheckInterval + Limited(n)
         /\ \A b \in Nat : b <= Limited(n) =>
              (IF 2 * b < MaxBackoff THEN 2 * b ELSE MaxBackoff) <= Limited(n + 1)
<1>1. Spent[n] \in Nat /\ Limited(n) \in Nat /\ Limited(n + 1) \in Nat
  BY SpentIs, LimitedIs
<1>2. FirstBackoff <= Limited(n)
  <2> DEFINE A == {k \in Nat : FirstBackoff <= Doubled[k]}
  <2>1. 0 \in A
    BY DoubledIs, TimesAssumption
  <2>2. ASSUME NEW k \in A PROVE k + 1 \in A
    BY DoubledIs, TimesAssumption
  <2>3. A \subseteq Nat
    OBVIOUS
  <2>4. A = Nat
    <3> HIDE DEF A
    <3> QED  BY <2>1, <2>2, <2>3, SetInduction, Zenon
  <2>5. FirstBackoff <= Doubled[n]
    BY <2>4
  <2> QED  BY <2>5, TimesAssumption DEF Limited
<1>3. ASSUME NEW b \in Nat, b <= Limited(n)
      PROVE  (IF 2 * b < MaxBackoff THEN 2 * b ELSE MaxBackoff) <= Limited(n + 1)
  BY <1>1, <1>3, LimitedIs, TimesAssumption
<1> QED  BY <1>1, <1>2, <1>3, SpentIs

LEMMA PaceInit == ASSUME Init PROVE PaceInv
<1>1. due = 0 /\ fails = 0 /\ wait = 0 /\ backoff = FirstBackoff /\ phase = "down"
  BY DEF Init
<1>2. served.left = 0
  BY DEF Init, Temporary
<1> QED  BY <1>1, <1>2, Failures, TimesAssumption DEF PaceInv

LEMMA PaceFrame ==
  ASSUME PaceInv, UNCHANGED <<phase, wait, backoff, served, fails, due>>
  PROVE  PaceInv'
  BY DEF PaceInv, Limited

\* The renewal fails, or the first order of a process.
LEMMA PaceFail ==
  ASSUME PaceInv, IInv, Fail, UNCHANGED served, phase \in {"startup", "renew"}
  PROVE  PaceInv'
<1>0. /\ wait \in Nat /\ backoff \in Nat /\ fails \in Nat /\ due \in Nat /\ served.left \in Nat
      /\ CheckInterval \in Nat /\ FirstBackoff \in Nat
  BY TimesAssumption DEF PaceInv, IInv, Types, Pair
<1>1. due' = due /\ backoff' = backoff /\ served' = served
  BY DEF Fail, Finish
<1>2. CASE phase = "startup"
  <2>1. due = 0 /\ fails = 0 /\ backoff = FirstBackoff
    BY <1>2 DEF PaceInv
  <2>2. phase' = "sleep" /\ wait' = CheckInterval /\ fails' = fails
    BY <1>2 DEF Fail, Finish
  <2> QED  BY <1>0, <1>1, <2>1, <2>2, Failures DEF PaceInv, Limited
<1>3. CASE phase = "renew" /\ served.left > 0
  <2>1. phase' = "backoff" /\ wait' = backoff /\ fails' = fails + 1
    BY <1>3 DEF Fail, Finish
  <2>2. due <= CheckInterval + Spent[fails] /\ backoff <= Limited(fails)
    BY <1>3 DEF PaceInv
  <2>3. /\ Spent[fails] \in Nat /\ Limited(fails) \in Nat
        /\ Spent[fails + 1] = Spent[fails] + CheckInterval + Limited(fails)
    BY <1>0, Failures
  <2>4. /\ due' + wait' <= Spent[fails'] /\ due' <= CheckInterval + Spent[fails']
        /\ fails' > 0 /\ fails' - 1 = fails /\ fails' \in Nat
    BY <1>0, <1>1, <2>1, <2>2, <2>3
  <2>5. backoff' <= Limited(fails' - 1)
    BY <1>1, <2>2, <2>4
  <2> QED  BY <1>0, <1>1, <2>1, <2>4, <2>5 DEF PaceInv, Limited
<1>4. CASE phase = "renew" /\ ~(served.left > 0)
  <2>1. phase' = "backoff" /\ wait' = backoff /\ fails' = fails
    BY <1>4 DEF Fail, Finish
  <2> QED  BY <1>0, <1>1, <1>4, <2>1 DEF PaceInv
<1> QED  BY <1>2, <1>3, <1>4

LEMMA PaceTypes ==
  ASSUME PaceInv, IInv
  PROVE  /\ wait \in Nat /\ backoff \in Nat /\ fails \in Nat /\ due \in Nat
         /\ served.left \in Nat /\ Spent[fails] \in Nat
         /\ CheckInterval \in Nat /\ FirstBackoff \in Nat /\ Window \in Nat /\ MaxBackoff \in Nat
  BY Failures, TimesAssumption DEF PaceInv, IInv, Types, Pair

\* An order within a process changes nothing of this until it ends.
LEMMA PaceOrder ==
  ASSUME PaceInv, IInv, run_acme_flow
  PROVE  PaceInv'
<1>1. phase \in {"startup", "renew"}
  <2>1. flow.pc # "idle"
    BY Zenon DEF run_acme_flow, get_or_create_account, NewOrder, RequestFails, SkipValid, create_txt_record,
           set_ready, delete_txt_record, AuthorizationFails, AuthorizationsDone, CleanedUp, PollReady,
           finalize, SaveCert, SaveKey, SaveFails
  <2> QED  BY <2>1 DEF IInv, Types, Awake
<1>2. CASE RequestFails \/ SaveFails \/ (CleanedUp /\ ~flow.ok)
  <2>1. Fail /\ UNCHANGED served
    BY <1>2 DEF RequestFails, SaveFails, CleanedUp
  <2> QED  BY <1>1, <2>1, PaceFail
<1>3. CASE SaveKey
  <2>1. /\ fails' = 0 /\ due' = 0 /\ phase' = "sleep" /\ wait' = CheckInterval
        /\ backoff' = FirstBackoff /\ served'.cert = flow.issue
    BY <1>3 DEF SaveKey, Finish
  <2>2. flow.issue # Self
    BY IssuesAssumption DEF IInv, Types, Flows, None, Self
  <2>3. Limited(0) = FirstBackoff /\ Spent[0] = 0
    BY LimitedIs, SpentIs, Zenon
  <2> QED  BY <2>1, <2>2, <2>3, PaceTypes DEF PaceInv, Limited
<1>4. CASE \/ get_or_create_account \/ NewOrder
           \/ \E d \in Domains : SkipValid(d) \/ create_txt_record(d) \/ set_ready(d) \/ delete_txt_record(d)
           \/ AuthorizationFails \/ AuthorizationsDone \/ (CleanedUp /\ flow.ok)
           \/ PollReady \/ finalize \/ SaveCert
  <2>1. UNCHANGED <<phase, wait, backoff, served, fails, due>>
    BY <1>4, Zenon DEF get_or_create_account, NewOrder, SkipValid, create_txt_record, set_ready,
                delete_txt_record, AuthorizationFails, AuthorizationsDone, CleanedUp, PollReady,
                finalize, SaveCert, Goto, history
  <2> QED  BY <2>1, PaceFrame
<1> QED  BY <1>2, <1>3, <1>4, Zenon DEF run_acme_flow

LEMMA PaceTick == ASSUME PaceInv, IInv, Tick PROVE PaceInv'
<1>1. /\ UNCHANGED <<phase, backoff, fails>>
      /\ served' = [served EXCEPT !.left = IF served.left > 0 THEN served.left - 1 ELSE 0]
  BY DEF Tick
<1>2. served'.cert = served.cert /\ served'.left = IF served.left > 0 THEN served.left - 1 ELSE 0
  BY <1>1 DEF IInv, Types, Pair
<1>3. CASE phase = "down"
  <2>1. wait' = wait /\ due' = due
    BY <1>3 DEF Tick, Up
  <2> QED  BY <1>1, <1>2, <1>3, <2>1, PaceTypes DEF PaceInv, Limited
<1>4. CASE phase \in {"sleep", "backoff"} /\ wait > 0
  <2>1. /\ wait' = wait - 1 /\ wait' \in Nat
        /\ due' = IF InWindow(served) /\ served.left > 0 THEN due + 1 ELSE due
    BY <1>4, PaceTypes DEF Tick, Up
  <2>2. due' \in Nat /\ due' + wait' <= due + wait
    BY <2>1, PaceTypes
  <2>3. due' <= CheckInterval + Spent[fails]
    BY <1>4, <2>1, PaceTypes DEF PaceInv
  <2>4. served'.left > Window => due' = 0
    BY <1>2, <2>1, PaceTypes DEF PaceInv, InWindow
  <2>5. CASE phase = "sleep"
    BY <1>1, <1>2, <2>1, <2>2, <2>3, <2>4, <2>5, PaceTypes DEF PaceInv, Limited
  <2>6. CASE phase = "backoff"
    BY <1>1, <1>2, <2>1, <2>2, <2>3, <2>4, <2>6, PaceTypes DEF PaceInv, Limited
  <2> QED  BY <1>4, <2>5, <2>6
<1> QED  BY <1>3, <1>4 DEF Tick

LEMMA PaceCheck == ASSUME PaceInv, IInv, Check PROVE PaceInv'
<1>1. /\ UNCHANGED <<served, fails, due>> /\ phase = "sleep" /\ wait = 0
  BY DEF Check, history
<1>2. CASE InWindow(served)
  <2>1. phase' = "renew" /\ wait' = wait /\ backoff' = backoff
    BY <1>2 DEF Check
  <2> QED  BY <1>1, <2>1, PaceTypes DEF PaceInv, Limited
<1>3. CASE ~InWindow(served)
  <2>1. phase' = "sleep" /\ wait' = CheckInterval /\ backoff' = FirstBackoff
    BY <1>1, <1>3 DEF Check
  <2>2. served.left > 0 => due = 0
    BY <1>3, PaceTypes DEF InWindow, PaceInv
  <2>3. FirstBackoff <= Limited(fails)
    BY Failures, PaceTypes
  <2> QED  BY <1>1, <2>1, <2>2, <2>3, PaceTypes DEF PaceInv, Limited
<1> QED  BY <1>2, <1>3

LEMMA PaceWake == ASSUME PaceInv, IInv, Wake PROVE PaceInv'
<1>1. /\ UNCHANGED <<served, fails, due>> /\ phase = "backoff" /\ wait = 0
      /\ phase' = "sleep" /\ wait' = CheckInterval
      /\ backoff' = IF 2 * backoff < MaxBackoff THEN 2 * backoff ELSE MaxBackoff
  BY DEF Wake, history
<1>2. backoff' \in Nat
  BY <1>1, PaceTypes
<1>3. ASSUME served.left > 0
      PROVE  due' + wait' <= CheckInterval + Spent[fails] /\ backoff' <= Limited(fails)
  <2>1. fails - 1 \in Nat /\ (fails - 1) + 1 = fails /\ backoff <= Limited(fails - 1)
    BY <1>1, <1>3, PaceTypes DEF PaceInv
  <2>2. backoff' <= Limited((fails - 1) + 1)
    BY <1>1, <2>1, PaceTypes, Failures, Zenon
  <2>3. due' + wait' <= CheckInterval + Spent[fails]
    BY <1>1, <1>3, PaceTypes DEF PaceInv
  <2> QED  BY <2>1, <2>2, <2>3
<1> QED  BY <1>1, <1>2, <1>3, PaceTypes DEF PaceInv, Limited

LEMMA PaceStart == ASSUME PaceInv, IInv, Start PROVE PaceInv'
<1>1. /\ UNCHANGED <<backoff, fails, due>> /\ due = 0 /\ fails = 0 /\ backoff = FirstBackoff
  BY DEF Start, history, PaceInv
<1>2. \/ phase' = "sleep" /\ wait' = CheckInterval
      \/ phase' = "startup" /\ wait' = 0
  BY DEF Start, obtain_or_load_certificate
<1>3. served'.cert = Self => served'.left = 0
  BY IssuesAssumption DEF Start, Loadable, Temporary, Self
<1>4. Limited(0) = FirstBackoff /\ Spent[0] = 0
  BY LimitedIs, SpentIs, Zenon
<1> QED  BY <1>1, <1>2, <1>3, <1>4, PaceTypes DEF PaceInv, Limited

LEMMA PaceExit == ASSUME PaceInv, IInv, Exit PROVE PaceInv'
<1>1. /\ fails' = 0 /\ due' = 0 /\ backoff' = FirstBackoff /\ phase' = "down" /\ wait' = 0
      /\ served'.left = 0
  BY DEF Exit, Temporary
<1>2. Spent[0] = 0
  BY SpentIs
<1> QED  BY <1>1, <1>2, PaceTypes DEF PaceInv, Limited

LEMMA PaceHolds == Spec => []PaceInv
<1>1. Init => PaceInv
  BY PaceInit
<1>2. IInv /\ PaceInv /\ [Next]_vars => PaceInv'
  <2> SUFFICES ASSUME IInv, PaceInv, [Next]_vars PROVE PaceInv'
    OBVIOUS
  <2>1. CASE RenewalTask
    BY <2>1, PaceTick, PaceCheck, PaceWake, PaceOrder DEF RenewalTask
  <2>2. CASE \E d \in Domains : Validate(d)
    BY <2>2, PaceFrame DEF Validate, history
  <2>3. CASE UNCHANGED vars
    BY <2>3, PaceFrame DEF vars
  <2> QED  BY <2>1, <2>2, <2>3, PaceStart, PaceExit DEF Next
<1> QED  BY <1>1, <1>2, InvHolds, PTL DEF Spec

(* spawn_renewal_task keeps pace for any window, interval and backoff:     *)
(* the time a certificate is due for renewal while the daemon runs is at   *)
(* most one check interval and what the failed renewals account for.       *)
THEOREM RenewalPaced == Spec => []RenewalKeepsPace
<1>1. PaceInv => RenewalKeepsPace
  BY DEF PaceInv, RenewalKeepsPace
<1> QED  BY <1>1, PaceHolds, PTL
=============================================================================
