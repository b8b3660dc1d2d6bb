--------------------------- MODULE QrLoginProofs ---------------------------
(***************************************************************************)
(* What QrLogin promises for every number of logins and QR codes.  A       *)
(* login's own variables are related by Local, which no other writer can   *)
(* disturb; the two locks are related by Torn, which needs to know who is  *)
(* between its two writes.                                                 *)
(***************************************************************************)
EXTENDS QrLogin, TLAPS

OnQr == {"polling", "handling", "verifying"}

\* While a QR code is displayed: it is one of the allowed ones, what the loop
\* keeps belongs to it, and its last status has been reported.
Local(l) ==
    /\ pc[l] = "idle" => qr[l] = 0
    /\ pc[l] \in OnQr =>
          /\ qr[l] \in 0..MaxQrRefresh
          /\ pending[l] \in {0, qr[l]}
          /\ host[l] \in {0, qr[l]}
          /\ seen[l] = answer[l]
          /\ status[l] = answer[l]
    /\ creds.token = l => pc[l] \in {"installing", "confirmed", "dropped"}

\* Who is disturbed is between its writes, and who is not is alone there; then both
\* halves of what it installs are known.
Torn ==
    /\ disturbed \subseteq Between
    /\ \A w \in Between : w \notin disturbed => Between = {w}
    /\ \A l \in Logins :
          pc[l] = "installing" /\ l \notin disturbed => creds.base = base[l]
    /\ setter.at = "half" /\ Loaded \notin disturbed => setter.base = baseUrl
    /\ Between = {} /\ ~torn => baseUrl = creds.base

IInv == TypeOK /\ (\A l \in Logins : Local(l)) /\ Torn

-----------------------------------------------------------------------------
\* Members of the counters' ranges.
LEMMA Ranges ==
    /\ 0 \in 0..MaxQrRefresh /\ 0 \in 0..(MaxQrRefresh + 1)
    /\ 1 \in 0..(MaxQrRefresh + 1)
    /\ \A n \in 0..(MaxQrRefresh + 1) : ~(n > MaxQrRefresh) => n \in 0..MaxQrRefresh
    /\ \A n \in 0..MaxQrRefresh :
          n \in 0..(MaxQrRefresh + 1) /\ n + 1 \in 0..(MaxQrRefresh + 1)
  BY MaxQrRefreshAssumption

LEMMA MembershipIsBoolean ==
    ASSUME NEW w, NEW S
    PROVE  (w \in S) \in BOOLEAN
  OBVIOUS

LEMMA InitIInv == Init => IInv
<1> SUFFICES ASSUME Init PROVE IInv
  OBVIOUS
<1>1. creds \in [token : {Nobody, Loaded}, base : {baseUrl}] /\ baseUrl \in BaseUrls
  <2>1. PICK t \in {Nobody, Loaded} : creds = [token |-> t, base |-> baseUrl]
    BY DEF Init
  <2> QED
    BY <2>1 DEF Init
<1>2. TypeOK
  BY <1>1, Ranges DEF Init, TypeOK, Running, Ended, Tokens
<1>3. ASSUME NEW l \in Logins PROVE Local(l)
  BY <1>1, TokensAssumption DEF Init, Local, OnQr
<1>4. Torn
  BY <1>1 DEF Init, Torn, Between
<1> QED
  BY <1>2, <1>3, <1>4 DEF IInv

\* A step of one login moves that login's variables only.
LEMMA TypeStep == IInv /\ [Next]_vars => TypeOK'
<1> SUFFICES ASSUME IInv, [Next]_vars PROVE TypeOK'
  OBVIOUS
<1> USE Ranges, BaseUrlsAssumption
    DEF IInv, TypeOK, Local, OnQr, Goto, End, NextPass, Reset, Running, Ended,
        Tokens, Exhausted, others, client, history
<1>h. ASSUME NEW w \in Logins \cup {Loaded},
             FirstWrite(w) \/ SecondWrite(w) \/ Broken(w)
      PROVE  torn' \in BOOLEAN /\ disturbed' \subseteq Logins \cup {Loaded}
  <2>1. Between \subseteq Logins \cup {Loaded}
    BY DEF Between
  <2>2. torn' \in BOOLEAN
    <3>1. CASE FirstWrite(w)
      BY <3>1, Zenon DEF FirstWrite
    <3>2. CASE SecondWrite(w)
      <4>1. torn' = (w \in disturbed)
        BY <3>2 DEF SecondWrite
      <4> QED
        BY <4>1, MembershipIsBoolean, Zenon
    <3>3. CASE Broken(w)
      BY <3>3 DEF Broken
    <3> QED
      BY <1>h, <3>1, <3>2, <3>3
  <2> QED
    BY <1>h, <2>1, <2>2 DEF FirstWrite, SecondWrite, Broken
<1>1. CASE SetBaseUrl
  <2>1. torn' \in BOOLEAN /\ disturbed' \subseteq Logins \cup {Loaded}
    BY <1>1, <1>h DEF SetBaseUrl
  <2>2. PICK b \in BaseUrls : baseUrl' = b /\ setter' = [at |-> "half", base |-> b]
    BY <1>1 DEF SetBaseUrl
  <2> QED
    BY <1>1, <2>1, <2>2 DEF SetBaseUrl
<1>2. CASE SetCreds \/ DropSetter
  <2>1. torn' \in BOOLEAN /\ disturbed' \subseteq Logins \cup {Loaded}
    BY <1>2, <1>h DEF SetCreds, DropSetter
  <2>2. CASE SetCreds
    BY <2>1, <2>2 DEF SetCreds
  <2>3. CASE DropSetter
    BY <2>1, <2>3 DEF DropSetter
  <2> QED
    BY <1>2, <2>2, <2>3
<1>3. ASSUME NEW l \in Logins, Begin(l) \/ Proceed(l) \/ Drop(l) PROVE TypeOK'
  <2> USE <1>3
  <2>1. CASE Begin(l)
    BY <2>1 DEF Begin
  <2>2. CASE GiveUp(l)
    BY <2>2 DEF GiveUp
  <2>3. CASE ShowQr(l)
    BY <2>3 DEF ShowQr
  <2>4. CASE FetchFails(l)
    BY <2>4 DEF FetchFails
  <2>17. CASE PollFails(l)
    BY <2>17 DEF PollFails
  <2>5. ASSUME NEW s \in Statuses, Answer(l, s) PROVE TypeOK'
    BY <2>5 DEF Answer
  <2>18. CASE PollTimesOut(l)
    BY <2>5, <2>18, "wait" \in Statuses DEF PollTimesOut, Statuses
  <2>6. CASE AskForCode(l)
    BY <2>6 DEF AskForCode, Handling
  <2>7. CASE UsedUp(l)
    BY <2>7 DEF UsedUp, Handling
  <2>8. CASE Refused(l)
    BY <2>8 DEF Refused, Handling
  <2>9. CASE Confirm(l)
    <3>1. torn' \in BOOLEAN /\ disturbed' \subseteq Logins \cup {Loaded}
      BY <2>9, <1>h DEF Confirm
    <3>2. PICK b \in BaseUrls : creds' = [token |-> l, base |-> b]
                               /\ base' = [base EXCEPT ![l] = b]
      BY <2>9 DEF Confirm
    <3> QED
      BY <2>9, <3>1, <3>2 DEF Confirm
  <2>10. CASE Redirect(l)
    BY <2>10 DEF Redirect, Handling
  <2>11. CASE Scanned(l)
    BY <2>11 DEF Scanned, Handling
  <2>12. CASE KeepPolling(l)
    BY <2>12 DEF KeepPolling, Handling
  <2>13. CASE ProvideCode(l)
    BY <2>13 DEF ProvideCode
  <2>14. CASE DeclineCode(l)
    BY <2>14 DEF DeclineCode
  <2>15. CASE InstallBaseUrl(l)
    <3>1. torn' \in BOOLEAN /\ disturbed' \subseteq Logins \cup {Loaded}
      BY <2>15, <1>h DEF InstallBaseUrl
    <3> QED
      BY <2>15, <3>1 DEF InstallBaseUrl
  <2>16. CASE Drop(l)
    <3>1. torn' \in BOOLEAN /\ disturbed' \subseteq Logins \cup {Loaded}
      BY <2>16, <1>h DEF Drop
    <3> QED
      BY <2>16, <3>1 DEF Drop
  <2> QED
    BY <2>1, <2>2, <2>3, <2>4, <2>5, <2>6, <2>7, <2>8, <2>9, <2>10, <2>11, <2>12,
       <2>13, <2>14, <2>15, <2>16, <2>17, <2>18 DEF Proceed, Handle
<1>4. CASE UNCHANGED vars
  BY <1>4 DEF vars
<1> QED
  BY <1>1, <1>2, <1>3, <1>4 DEF Next

\* No step of another writer disturbs what holds of a login.
LEMMA LocalStep ==
    ASSUME IInv, [Next]_vars, NEW k \in Logins
    PROVE  Local(k)'
<1> USE Ranges, TokensAssumption
    DEF IInv, TypeOK, Local, OnQr, Goto, NextPass, Reset, Exhausted, Handling,
        others, client
<1>1. CASE SetBaseUrl
  BY <1>1 DEF SetBaseUrl
<1>2. CASE SetCreds
  <2>1. creds'.token = Loaded /\ UNCHANGED <<pc, qr, status, answer, seen, host, pending>>
    BY <1>2 DEF SetCreds
  <2> QED
    BY <2>1
<1>8. CASE DropSetter
  BY <1>8 DEF DropSetter
<1>3. ASSUME NEW l \in Logins, Begin(l) \/ Proceed(l) \/ Drop(l), k # l
      PROVE  Local(k)'
  <2> DEFINE Same == /\ pc'[k] = pc[k] /\ qr'[k] = qr[k] /\ pending'[k] = pending[k]
                     /\ host'[k] = host[k] /\ seen'[k] = seen[k]
                     /\ answer'[k] = answer[k] /\ status'[k] = status[k]
                     /\ creds'.token = k => creds.token = k
  <2>1. ASSUME NEW p, End(l, p), UNCHANGED creds PROVE Same
    BY <1>3, <2>1 DEF End
  <2>2. CASE GiveUp(l) \/ FetchFails(l) \/ PollFails(l) \/ Refused(l) \/ DeclineCode(l)
             \/ InstallBaseUrl(l) \/ Drop(l)
    BY <2>1, <2>2 DEF GiveUp, FetchFails, PollFails, Refused, DeclineCode,
                      InstallBaseUrl, Drop
  <2>3. CASE Begin(l)
    BY <1>3, <2>3 DEF Begin
  <2>10. CASE ShowQr(l)
    BY <1>3, <2>10 DEF ShowQr
  <2>4. ASSUME NEW s, Answer(l, s) PROVE Local(k)'
    BY <1>3, <2>4 DEF Answer
  <2>5. CASE AskForCode(l) \/ UsedUp(l) \/ KeepPolling(l)
    BY <1>3, <2>5 DEF AskForCode, UsedUp, KeepPolling
  <2>6. CASE Confirm(l)
    <3>1. creds'.token = l
      <4>1. PICK b : creds' = [token |-> l, base |-> b]
        BY <2>6 DEF Confirm
      <4> QED
        BY <4>1
    <3> QED
      BY <1>3, <2>6, <3>1 DEF Confirm
  <2>7. CASE Scanned(l) \/ ProvideCode(l)
    BY <1>3, <2>7 DEF Scanned, ProvideCode
  <2>8. CASE Redirect(l)
    BY <1>3, <2>8 DEF Redirect
  <2> QED
    BY <1>3, <2>2, <2>3, <2>4, <2>5, <2>6, <2>7, <2>8, <2>10
       DEF Proceed, Handle, PollTimesOut
<1>4. CASE Begin(k)
  BY <1>4 DEF Begin
<1>5. CASE Proceed(k)
  <2>1. CASE ShowQr(k)
    BY <2>1 DEF ShowQr
  <2>2. CASE GiveUp(k) \/ FetchFails(k) \/ PollFails(k)
    BY <2>2 DEF GiveUp, FetchFails, PollFails, End, Running
  <2>3. ASSUME NEW s, Answer(k, s) PROVE Local(k)'
    BY <2>3 DEF Answer
  <2>4. CASE AskForCode(k) \/ UsedUp(k) \/ KeepPolling(k)
    BY <2>4 DEF AskForCode, UsedUp, KeepPolling
  <2>5. CASE Refused(k) \/ DeclineCode(k)
    BY <2>5 DEF Refused, DeclineCode, End
  <2>6. CASE Confirm(k)
    BY <2>6 DEF Confirm
  <2>7. CASE Scanned(k)
    BY <2>7 DEF Scanned
  <2>10. CASE ProvideCode(k)
    BY <2>10 DEF ProvideCode
  <2>8. CASE InstallBaseUrl(k)
    BY <2>8 DEF InstallBaseUrl, End
  <2>9. CASE Redirect(k)
    <3>1. host'[k] \in {host[k], qr[k]}
      BY <2>9 DEF Redirect
    <3> QED
      BY <2>9, <3>1 DEF Redirect
  <2> QED
    BY <1>5, <2>1, <2>2, <2>3, <2>4, <2>5, <2>6, <2>7, <2>8, <2>9, <2>10
       DEF Proceed, Handle, PollTimesOut
<1>6. CASE Drop(k)
  BY <1>6 DEF Drop, End, Running
<1>7. CASE UNCHANGED vars
  BY <1>7 DEF vars
<1> QED
  BY <1>1, <1>2, <1>3, <1>4, <1>5, <1>6, <1>7, <1>8 DEF Next

\* A writer that starts while another is between its writes disturbs all that are
\* there; one that starts alone and stays alone finishes what it started.
LEMMA TornStep == IInv /\ [Next]_vars => Torn'
<1> SUFFICES ASSUME TypeOK, Torn, [Next]_vars PROVE Torn'
  BY DEF IInv
<1>t. /\ pc \in [Logins -> Running \cup Ended \cup {"idle"}]
      /\ base \in [Logins -> BaseUrls]
      /\ setter \in [at : {"none", "half"}, base : BaseUrls]
      /\ disturbed \subseteq Logins \cup {Loaded}
  BY DEF TypeOK
<1> USE TokensAssumption, <1>t DEF Torn, Goto, others, client, history
<1>1. CASE SetBaseUrl
  <2>1. PICK b \in BaseUrls : baseUrl' = b /\ setter' = [at |-> "half", base |-> b]
    BY <1>1 DEF SetBaseUrl
  <2>2. Between' = Between \cup {Loaded}
    BY <1>1, <2>1 DEF SetBaseUrl, Between
  <2> QED
    BY <1>1, <2>1, <2>2 DEF SetBaseUrl, FirstWrite, Between
<1>2. CASE SetCreds
  <2>1. /\ setter.at = "half" /\ setter'.at = "none" /\ creds'.base = setter.base
        /\ UNCHANGED <<baseUrl, pc, base>>
    BY <1>2 DEF SetCreds
  <2>2. Between' = Between \ {Loaded} /\ Loaded \in Between
    <3>1. {l \in Logins : pc'[l] = "installing"} = {l \in Logins : pc[l] = "installing"}
      BY <2>1
    <3> QED
      BY <2>1, <3>1 DEF Between
  <2>3. torn' = (Loaded \in disturbed) /\ disturbed' = disturbed \ {Loaded}
    BY <1>2 DEF SetCreds, SecondWrite
  <2>4. Loaded \notin disturbed => Between = {Loaded} /\ setter.base = baseUrl
    BY <2>1, <2>2
  <2>5. \A l \in Logins : pc[l] = "installing" => l \in Between /\ l # Loaded
    BY DEF Between
  <2> QED
    BY <2>1, <2>2, <2>3, <2>4, <2>5
<1>3. CASE DropSetter
  <2>1. /\ setter.at = "half" /\ setter'.at = "none"
        /\ UNCHANGED <<creds, baseUrl, pc, base>>
    BY <1>3 DEF DropSetter
  <2>2. Between' = Between \ {Loaded} /\ Loaded \in Between
    <3>1. {l \in Logins : pc'[l] = "installing"} = {l \in Logins : pc[l] = "installing"}
      BY <2>1
    <3> QED
      BY <2>1, <3>1 DEF Between
  <2>3. torn' /\ disturbed' = disturbed \ {Loaded}
    BY <1>3 DEF DropSetter, Broken
  <2>4. \A l \in Logins : pc[l] = "installing" => l \in Between /\ l # Loaded
    BY DEF Between
  <2> QED
    BY <2>1, <2>2, <2>3, <2>4
<1>4. ASSUME NEW l \in Logins, Begin(l) \/ Proceed(l) \/ Drop(l) PROVE Torn'
  <2>1. CASE Confirm(l)
    <3>1. PICK b : creds' = [token |-> l, base |-> b] /\ base' = [base EXCEPT ![l] = b]
      BY <2>1 DEF Confirm
    <3>2. creds'.base = base'[l]
      BY <3>1
    <3>3. Between' = Between \cup {l}
      <4>1. pc' = [pc EXCEPT ![l] = "installing"] /\ setter' = setter
        BY <2>1 DEF Confirm
      <4> QED
        BY <4>1 DEF Between
    <3> QED
      BY <2>1, <3>2, <3>3 DEF Confirm, FirstWrite, Between, Handling
  <2>2. CASE InstallBaseUrl(l)
    <3>1. Between' = Between \ {l} /\ l \in Between
      BY <2>2 DEF InstallBaseUrl, Between, End
    <3>2. torn' = (l \in disturbed) /\ disturbed' = disturbed \ {l}
      BY <2>2 DEF InstallBaseUrl, SecondWrite
    <3>3. baseUrl' = base[l] /\ pc[l] = "installing" /\ UNCHANGED <<creds, setter, base>>
      BY <2>2 DEF InstallBaseUrl
    <3>4. l \notin disturbed => Between = {l} /\ creds.base = base[l]
      BY <3>1, <3>3
    <3>5. /\ \A k \in Logins : pc'[k] = "installing" => k \in Between' /\ base'[k] = base[k]
          /\ setter'.at = "half" => Loaded \in Between'
          /\ \A k \in Logins : pc'[k] = "installing" => pc[k] = "installing"
      BY <2>2, <3>3 DEF Between, InstallBaseUrl, End
    <3>6. \A w \in Between' : w \in disturbed /\ w # l
      BY <3>1
    <3>7. disturbed' \subseteq Between' /\ \A w \in Between' : w \in disturbed'
      BY <3>1, <3>2, <3>6
    <3>8. Between' = {} /\ ~torn' => baseUrl' = creds'.base
      BY <3>2, <3>3, <3>4
    <3> QED
      BY <3>5, <3>7, <3>8
  <2>3. CASE Drop(l)
    <3>1. Between' = Between \ {l}
      BY <2>3 DEF Drop, Between, End
    <3>2. CASE pc[l] = "installing"
      BY <2>3, <3>1, <3>2 DEF Drop, Broken, Between, End
    <3>3. CASE pc[l] # "installing"
      <4>1. UNCHANGED <<creds, baseUrl, setter, base, torn, disturbed>>
        BY <2>3, <3>3 DEF Drop
      <4>2. \A k \in Logins : pc'[k] = "installing" <=> pc[k] = "installing"
        BY <2>3, <3>3 DEF Drop, End
      <4>3. Between' = Between
        BY <4>1, <4>2 DEF Between
      <4> QED
        BY <4>1, <4>2, <4>3
    <3> QED
      BY <3>2, <3>3
  <2>4. CASE ~Confirm(l) /\ ~InstallBaseUrl(l) /\ ~Drop(l)
    <3>1. /\ UNCHANGED <<creds, baseUrl, setter, torn, disturbed>>
          /\ \A k \in Logins : (pc'[k] = "installing") <=> (pc[k] = "installing")
          /\ \A k \in Logins : pc[k] = "installing" => base'[k] = base[k]
      <4>1. UNCHANGED <<creds, baseUrl, setter, torn, disturbed>>
        BY <1>4, <2>4 DEF Begin, Proceed, Handle, GiveUp, ShowQr, FetchFails, PollFails,
           PollTimesOut, Answer, AskForCode, UsedUp, Refused, Redirect, Scanned,
           KeepPolling, ProvideCode, DeclineCode
      <4>2. \A k \in Logins : (pc'[k] = "installing") <=> (pc[k] = "installing")
        BY <1>4, <2>4 DEF Begin, Proceed, Handle, GiveUp, ShowQr, FetchFails, PollFails,
           PollTimesOut, Answer, AskForCode, UsedUp, Refused, Redirect, Scanned,
           KeepPolling, ProvideCode, DeclineCode, End, Handling
      <4>3. \A k \in Logins : pc[k] = "installing" => base'[k] = base[k]
        BY <1>4, <2>4 DEF Begin, Proceed, Handle, GiveUp, ShowQr, FetchFails, PollFails,
           PollTimesOut, Answer, AskForCode, UsedUp, Refused, Redirect, Scanned,
           KeepPolling, ProvideCode, DeclineCode, Handling
      <4> QED
        BY <4>1, <4>2, <4>3
    <3>2. Between' = Between
      BY <3>1 DEF Between
    <3> QED
      BY <3>1, <3>2
  <2> QED
    BY <2>1, <2>2, <2>3, <2>4
<1>5. CASE UNCHANGED vars
  <2>1. /\ UNCHANGED <<creds, baseUrl, setter, torn, disturbed, pc, base>>
        /\ Between' = Between
    BY <1>5 DEF vars, Between
  <2> QED
    BY <2>1
<1> QED
  BY <1>1, <1>2, <1>3, <1>4, <1>5 DEF Next

\* The inductive invariant holds throughout.
LEMMA IInvHolds == Spec => []IInv
<1>1. IInv /\ [Next]_vars => IInv'
  BY TypeStep, LocalStep, TornStep DEF IInv
<1> QED
  BY InitIInv, <1>1, PTL DEF Spec

-----------------------------------------------------------------------------
(* Theorems *)

\* Every variable of login_qr and set_credentials keeps to its domain, the count
\* of QR codes included.
THEOREM TypeCorrect == Spec => []TypeOK
<1>1. IInv => TypeOK
  BY DEF IInv
<1> QED
  BY IInvHolds, <1>1, PTL

\* A poll never carries a verification code or a host of an earlier QR code.
THEOREM PollsAboutItsQrHolds == Spec => []PollsAboutItsQr
<1>1. IInv => PollsAboutItsQr
  BY DEF IInv, Local, OnQr, PollsAboutItsQr, Request
<1> QED
  BY IInvHolds, <1>1, PTL

\* The application always knows the last status of the QR code it displays.
THEOREM StatusReportedHolds == Spec => []StatusReported
<1>1. IInv => StatusReported
  BY DEF IInv, Local, OnQr, StatusReported
<1> QED
  BY IInvHolds, <1>1, PTL

\* No login that failed is the one the client's credentials come from.
THEOREM FailedLoginInstallsNothingHolds == Spec => []FailedLoginInstallsNothing
<1>1. IInv => FailedLoginInstallsNothing
  BY DEF IInv, Local, FailedLoginInstallsNothing
<1> QED
  BY IInvHolds, <1>1, PTL

\* The two locks agree at rest when the last writer was alone between its writes,
\* whatever writers before it left.
THEOREM BaseUrlOfCredentialsHolds == Spec => []BaseUrlOfCredentials
<1>1. IInv => BaseUrlOfCredentials
  BY DEF IInv, Torn, BaseUrlOfCredentials
<1> QED
  BY IInvHolds, <1>1, PTL
=============================================================================
