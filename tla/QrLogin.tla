------------------------------ MODULE QrLogin ------------------------------
(***************************************************************************)
(* login_qr streams and set_credentials on one client: the QR codes of a   *)
(* login, the statuses the server answers, the verification codes the user *)
(* types, and the two locks the credentials and the base URL are kept in.  *)
(*                                                                         *)
(* A stream runs only while the application reads it.  It and a call of    *)
(* set_credentials may be dropped wherever they yield or await, between    *)
(* the two locks included.  The server may answer a poll with any status   *)
(* at any time; a poll that times out counts as "wait".                    *)
(***************************************************************************)
EXTENDS Naturals

CONSTANTS
    Logins,        \* the login_qr streams that may be opened on the client
    MaxQrRefresh,  \* MAX_QR_REFRESH
    BaseUrls,      \* API base URLs
    ServerUrls,    \* those the server may name in its confirmation
    Nobody,        \* token of a client that is not logged in
    Loaded         \* token of the credentials the application loaded

ASSUME MaxQrRefreshAssumption == MaxQrRefresh \in Nat
ASSUME TokensAssumption ==
    Nobody # Loaded /\ Nobody \notin Logins /\ Loaded \notin Logins
ASSUME BaseUrlsAssumption == BaseUrls # {} /\ ServerUrls \subseteq BaseUrls

VARIABLES
    creds,    \* client: [token, base] of the installed credentials
    baseUrl,  \* client: base_url
    setter,   \* set_credentials: the step it is at and the base URL it installs
    torn,     \* history: the last writer was disturbed, or dropped between its writes
    disturbed,\* history: writers between their writes that another one overlapped
    pc,       \* per login: where login_qr is
    base,     \* per login: the base URL read first, then the one it installs
    qr,       \* per login: qr_refresh_count, the number of its current QR code
    status,   \* per login: last_status
    answer,   \* per login: the status in the server's last answer for this QR
    seen,     \* per login: what the application was last told of this QR
    host,     \* per login: the QR whose redirect chose the polling host, or 0
    pending   \* per login: the QR pending_verify_code was typed for, or 0

client == <<creds, baseUrl>>
history == <<torn, disturbed>>
others == <<client, setter, history>>
vars == <<creds, baseUrl, setter, torn, disturbed, pc, base, qr, status, answer,
          seen, host, pending>>

\* The statuses the code tells apart; "other" is any status it does not name.
Statuses == {"wait", "need_verifycode", "verify_code_blocked", "binded_redirect",
             "confirmed", "scaned_but_redirect", "scaned", "expired", "other"}
Terminal == {"verify_code_blocked", "binded_redirect", "confirmed", "expired"}

\* "handling" follows an answer, "installing" the write of the credentials.
Running == {"fetching", "polling", "handling", "verifying", "installing"}
Ended == {"confirmed", "failed", "dropped"}
Tokens == Logins \cup {Nobody, Loaded}

Init ==
    /\ baseUrl \in BaseUrls
    /\ creds \in {[token |-> t, base |-> baseUrl] : t \in {Nobody, Loaded}}
    /\ setter = [at |-> "none", base |-> baseUrl]
    /\ torn = FALSE
    /\ disturbed = {}
    /\ pc = [l \in Logins |-> "idle"]
    /\ base = [l \in Logins |-> baseUrl]
    /\ qr = [l \in Logins |-> 0]
    /\ status = [l \in Logins |-> ""]
    /\ answer = [l \in Logins |-> ""]
    /\ seen = [l \in Logins |-> ""]
    /\ host = [l \in Logins |-> 0]
    /\ pending = [l \in Logins |-> 0]

Goto(l, p) == pc' = [pc EXCEPT ![l] = p]

\* The stream ends, and what it kept for its QR code is gone.
End(l, p) ==
    /\ Goto(l, p)
    /\ qr' = [qr EXCEPT ![l] = 0]
    /\ status' = [status EXCEPT ![l] = ""]
    /\ answer' = [answer EXCEPT ![l] = ""]
    /\ seen' = [seen EXCEPT ![l] = ""]
    /\ host' = [host EXCEPT ![l] = 0]
    /\ pending' = [pending EXCEPT ![l] = 0]

\* Who has written one of the two, and not yet the other.
Between ==
    {l \in Logins : pc[l] = "installing"}
        \cup (IF setter.at = "half" THEN {Loaded} ELSE {})

\* What the first write of w, its second one, and its end between the two make of
\* the history.
FirstWrite(w) ==
    /\ disturbed' = IF Between = {} THEN {} ELSE Between \cup {w}
    /\ UNCHANGED torn
SecondWrite(w) ==
    /\ torn' = (w \in disturbed)
    /\ disturbed' = disturbed \ {w}
Broken(w) ==
    /\ torn' = TRUE
    /\ disturbed' = disturbed \ {w}

-----------------------------------------------------------------------------
(* set_credentials: the base URL first, then the credentials. *)

SetBaseUrl ==
    /\ setter.at = "none"
    /\ \E b \in BaseUrls :
          /\ baseUrl' = b
          /\ setter' = [at |-> "half", base |-> b]
    /\ FirstWrite(Loaded)
    /\ UNCHANGED <<creds, pc, base, qr, status, answer, seen, host, pending>>

SetCreds ==
    /\ setter.at = "half"
    /\ creds' = [token |-> Loaded, base |-> setter.base]
    /\ setter' = [setter EXCEPT !.at = "none"]
    /\ SecondWrite(Loaded)
    /\ UNCHANGED <<baseUrl, pc, base, qr, status, answer, seen, host, pending>>

\* The call is dropped where it awaits the second lock.
DropSetter ==
    /\ setter.at = "half"
    /\ setter' = [setter EXCEPT !.at = "none"]
    /\ Broken(Loaded)
    /\ UNCHANGED <<client, pc, base, qr, status, answer, seen, host, pending>>

-----------------------------------------------------------------------------
(* login_qr *)

\* A new pass of the outer loop: one more QR code is counted, whatever ended the
\* one before.
NextPass(l) == qr' = [qr EXCEPT ![l] = @ + 1]

\* The first read of the stream: the client's base URL is read once, for good.
Begin(l) ==
    /\ pc[l] = "idle"
    /\ base' = [base EXCEPT ![l] = baseUrl]
    /\ Goto(l, "fetching")
    /\ NextPass(l)
    /\ UNCHANGED <<others, status, answer, seen, host, pending>>

\* Mutant: the limit is compared before the pass is counted.
ExhaustedLate(l) == qr[l] > MaxQrRefresh + 1

\* The passes that may show a QR code are spent.
Exhausted(l) == qr[l] > MaxQrRefresh

\* The loop's head: after MAX_QR_REFRESH QR codes the login is aborted.
GiveUp(l) ==
    /\ pc[l] = "fetching"
    /\ Exhausted(l)
    /\ End(l, "failed")
    /\ UNCHANGED <<others, base>>

\* Mutant: the verification code outlives its QR code.
ResetKeepsCode(l) ==
    /\ status' = [status EXCEPT ![l] = ""]
    /\ host' = [host EXCEPT ![l] = 0]
    /\ UNCHANGED pending

\* Mutant: the last status outlives its QR code.
ResetKeepsStatus(l) ==
    /\ UNCHANGED status
    /\ host' = [host EXCEPT ![l] = 0]
    /\ pending' = [pending EXCEPT ![l] = 0]

\* The loop's locals are fresh for each QR code.
Reset(l) ==
    /\ status' = [status EXCEPT ![l] = ""]
    /\ host' = [host EXCEPT ![l] = 0]
    /\ pending' = [pending EXCEPT ![l] = 0]

\* A QR code from the fixed URL, displayed by the application.
ShowQr(l) ==
    /\ pc[l] = "fetching"
    /\ ~Exhausted(l)
    /\ Reset(l)
    /\ answer' = [answer EXCEPT ![l] = ""]
    /\ seen' = [seen EXCEPT ![l] = ""]
    /\ Goto(l, "polling")
    /\ UNCHANGED <<others, base, qr>>

\* get_qr_code fails: its error ends the stream.
FetchFails(l) ==
    /\ pc[l] = "fetching"
    /\ ~Exhausted(l)
    /\ End(l, "failed")
    /\ UNCHANGED <<others, base>>

\* What a poll carries: the QR code, the verification code if there is one, and
\* the host it is sent to.
Request(l) == [qr |-> qr[l], code |-> pending[l], host |-> host[l]]

\* A poll fails otherwise than by a timeout: its error ends the stream.
PollFails(l) ==
    /\ pc[l] = "polling"
    /\ End(l, "failed")
    /\ UNCHANGED <<others, base>>

\* A poll is answered; a status that changed is yielded before it is handled.
Answer(l, s) ==
    /\ pc[l] = "polling"
    /\ answer' = [answer EXCEPT ![l] = s]
    /\ status' = [status EXCEPT ![l] = s]
    /\ seen' = [seen EXCEPT ![l] = IF s # status[l] THEN s ELSE @]
    /\ Goto(l, "handling")
    /\ UNCHANGED <<others, base, qr, host, pending>>

\* A poll that times out counts as one answered with "wait".
PollTimesOut(l) == Answer(l, "wait")

Handling(l, S) == pc[l] = "handling" /\ answer[l] \in S

\* NeedVerifyCode is yielded; its responder is awaited without a timeout.
AskForCode(l) ==
    /\ Handling(l, {"need_verifycode"})
    /\ Goto(l, "verifying")
    /\ UNCHANGED <<others, base, qr, status, answer, seen, host, pending>>

\* VerifyCodeResponder::send with a code that is not blank.
ProvideCode(l) ==
    /\ pc[l] = "verifying"
    /\ pending' = [pending EXCEPT ![l] = qr[l]]
    /\ Goto(l, "polling")
    /\ UNCHANGED <<others, base, qr, status, answer, seen, host>>

\* VerifyCodeResponder::cancel, a blank code, or a responder that is dropped.
DeclineCode(l) ==
    /\ pc[l] = "verifying"
    /\ End(l, "failed")
    /\ UNCHANGED <<others, base>>

\* Mutant: a blocked verification code is not counted as a refresh.
UsedUpBlockedFree(l) ==
    /\ Handling(l, {"verify_code_blocked", "expired"})
    /\ Goto(l, "fetching")
    /\ IF answer[l] = "expired" THEN NextPass(l) ELSE UNCHANGED qr
    /\ UNCHANGED <<others, base, status, answer, seen, host, pending>>

\* The QR code is used up: the outer loop goes round again.
UsedUp(l) ==
    /\ Handling(l, {"verify_code_blocked", "expired"})
    /\ Goto(l, "fetching")
    /\ NextPass(l)
    /\ UNCHANGED <<others, base, status, answer, seen, host, pending>>

\* Bound to another app already, or confirmed without a bot_token.
Refused(l) ==
    /\ Handling(l, {"binded_redirect", "confirmed"})
    /\ End(l, "failed")
    /\ UNCHANGED <<others, base>>

\* Mutant: the credentials are written before the token is known to be there.
ConfirmUnchecked(l) ==
    /\ Handling(l, {"confirmed"})
    /\ creds' = [token |-> l, base |-> base[l]]
    /\ FirstWrite(l)
    /\ pc' \in {[pc EXCEPT ![l] = p] : p \in {"installing", "failed"}}
    /\ UNCHANGED <<baseUrl, setter, base, qr, status, answer, seen, host, pending>>

\* Confirmed with a token: its base URL is the answer's, or else the one read when
\* the login began.  The credentials are written first.
Confirm(l) ==
    /\ Handling(l, {"confirmed"})
    /\ \E b \in ServerUrls \cup {base[l]} :
          /\ creds' = [token |-> l, base |-> b]
          /\ base' = [base EXCEPT ![l] = b]
    /\ FirstWrite(l)
    /\ Goto(l, "installing")
    /\ UNCHANGED <<baseUrl, setter, qr, status, answer, seen, host, pending>>

\* Mutant: the client keeps the base URL it was built with.
InstallNothing(l) ==
    /\ pc[l] = "installing"
    /\ SecondWrite(l)
    /\ End(l, "confirmed")
    /\ UNCHANGED <<client, setter, base>>

\* Then the base URL, and Confirmed is yielded.
InstallBaseUrl(l) ==
    /\ pc[l] = "installing"
    /\ baseUrl' = base[l]
    /\ SecondWrite(l)
    /\ End(l, "confirmed")
    /\ UNCHANGED <<creds, setter, base>>

\* scaned_but_redirect: the polling host is the redirect's, when it names one.
Redirect(l) ==
    /\ Handling(l, {"scaned_but_redirect"})
    /\ host' \in {host, [host EXCEPT ![l] = qr[l]]}
    /\ Goto(l, "polling")
    /\ UNCHANGED <<others, base, qr, status, answer, seen, pending>>

\* scaned: a verification code was accepted, it is sent no more.
Scanned(l) ==
    /\ Handling(l, {"scaned"})
    /\ pending' = [pending EXCEPT ![l] = 0]
    /\ Goto(l, "polling")
    /\ UNCHANGED <<others, base, qr, status, answer, seen, host>>

\* Any other status: sleep, and poll again with the same code.
KeepPolling(l) ==
    /\ Handling(l, {"wait", "other"})
    /\ Goto(l, "polling")
    /\ UNCHANGED <<others, base, qr, status, answer, seen, host, pending>>

\* The application drops the stream.
Drop(l) ==
    /\ pc[l] \in Running
    /\ \/ pc[l] = "installing" /\ Broken(l)
       \/ pc[l] # "installing" /\ UNCHANGED history
    /\ End(l, "dropped")
    /\ UNCHANGED <<client, setter, base>>

-----------------------------------------------------------------------------
Handle(l) ==
    \/ AskForCode(l)
    \/ UsedUp(l)
    \/ Refused(l)
    \/ Confirm(l)
    \/ Redirect(l)
    \/ Scanned(l)
    \/ KeepPolling(l)

Proceed(l) ==
    \/ GiveUp(l)
    \/ ShowQr(l)
    \/ FetchFails(l)
    \/ PollFails(l)
    \/ PollTimesOut(l)
    \/ \E s \in Statuses : Answer(l, s)
    \/ Handle(l)
    \/ ProvideCode(l)
    \/ DeclineCode(l)
    \/ InstallBaseUrl(l)

Next ==
    \/ SetBaseUrl
    \/ SetCreds
    \/ DropSetter
    \/ \E l \in Logins : Begin(l) \/ Proceed(l) \/ Drop(l)

Spec == Init /\ [][Next]_vars

\* The application reads its streams and answers its responders, requests are
\* answered, and the server does not leave a QR code undecided for ever: polled
\* again and again, it says confirmed, expired, blocked or bound at last.
Fairness ==
    \A l \in Logins :
        /\ WF_vars(Proceed(l))
        /\ SF_vars(\E s \in Terminal : Answer(l, s))

FairSpec == Spec /\ Fairness

-----------------------------------------------------------------------------
(* Properties *)

\* Every variable stays in its domain; a login counts at most one pass more than
\* it may show QR codes.
TypeOK ==
    /\ creds \in [token : Tokens, base : BaseUrls]
    /\ baseUrl \in BaseUrls
    /\ setter \in [at : {"none", "half"}, base : BaseUrls]
    /\ torn \in BOOLEAN
    /\ disturbed \subseteq Logins \cup {Loaded}
    /\ pc \in [Logins -> Running \cup Ended \cup {"idle"}]
    /\ base \in [Logins -> BaseUrls]
    /\ qr \in [Logins -> 0..(MaxQrRefresh + 1)]
    /\ status \in [Logins -> Statuses \cup {""}]
    /\ answer \in [Logins -> Statuses \cup {""}]
    /\ seen \in [Logins -> Statuses \cup {""}]
    /\ host \in [Logins -> 0..MaxQrRefresh]
    /\ pending \in [Logins -> 0..MaxQrRefresh]

\* What a poll carries belongs to the QR code it asks about: neither the
\* verification code of an earlier QR nor the host an earlier one was redirected
\* to is sent along, however many codes were blocked or expired in between.
PollsAboutItsQr ==
    \A l \in Logins :
        pc[l] = "polling" =>
            /\ Request(l).code \in {0, Request(l).qr}
            /\ Request(l).host \in {0, Request(l).qr}

\* The application knows the server's last word on the QR code it displays,
\* although a status that repeats the one before is not reported.
StatusReported ==
    \A l \in Logins :
        pc[l] \in {"polling", "handling", "verifying"} => seen[l] = answer[l]

\* The client is never logged in by a login that its application was told failed.
FailedLoginInstallsNothing ==
    \A l \in Logins : pc[l] = "failed" => creds.token # l

\* At rest a client's base URL is that of its credentials, although they are kept
\* in two locks and written in two orders: writers that overlap, or one that is
\* dropped between its writes, may leave them apart, but only until the next writer
\* is done that nobody disturbs.
BaseUrlOfCredentials ==
    Between = {} /\ ~torn => baseUrl = creds.base

\* A login that is read ends: blocked verification codes count as refreshes, so a
\* server that ends every QR code ends the login.
LoginEnds ==
    \A l \in Logins : pc[l] = "fetching" ~> pc[l] \in Ended
=============================================================================
