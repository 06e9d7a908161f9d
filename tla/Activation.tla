------------------------------ MODULE Activation ------------------------------
(***************************************************************************)
(* Activation over WSMAN: activate_ccm and wsman_call (src/wsman.rs) over  *)
(* post_wsman (src/http.rs), from the moment do_activate_ccm has opened    *)
(* the APF channel.  Two calls are made, GetGeneralSettings and Setup,     *)
(* each up to Attempts times while the ME answers 401.                     *)
(*                                                                         *)
(* LmeSession::receive returns Ok as soon as it has any byte, so an answer *)
(* is read as far as it came (got).  After a timeout or a disconnect       *)
(* channel_active stays TRUE: the next request goes out on a channel whose *)
(* other end is still busy with, or has closed after, the answer before.   *)
(* The ME serves one request per channel: every request says "Connection:  *)
(* close".                                                                 *)
(***************************************************************************)
EXTENDS Integers

CONSTANTS
  Attempts,   \* requests of one wsman_call (3)
  Refusals    \* return values of a Setup the ME refuses

ASSUME ActivationAssumption ==
  /\ Attempts \in Nat \ {0}
  /\ Refusals \subseteq Nat \ {0}

VARIABLES
  hpc,        \* where the host is in post_wsman
  call,       \* the WSMAN call being made
  attempt,    \* wsman_call's attempt
  nonce, nc,  \* DigestAuth: the server's nonce (0: none), the nonce count
  realm,      \* the DigestRealm the password was hashed with
  active,     \* channel_active
  got,        \* how much of the answer receive returned
  result,     \* what activate_ccm returned
  chan,       \* the ME's end of the channel
  req,        \* the request the ME is serving
  answer,     \* the ME's answer to it
  mode, pass, \* the ME's control mode, the realm its password was hashed with
  issued,     \* nonces the ME has issued
  used        \* history: pairs of nonce and count the host has presented

auth == <<nonce, nc>>
prog == <<call, attempt, realm>>
me   == <<req, answer, mode, pass, issued>>
vars == <<hpc, prog, auth, active, got, result, chan, me, used>>

-----------------------------------------------------------------------------
Pre == 0
Ccm == 1

(* How far an answer came: not over its status line, to the end of that,   *)
(* to where the value begins (a nonce, a DigestRealm, a ReturnValue), into *)
(* the value, or to its end.                                               *)
Torn == 0
Status == 1
Opened == 2
Partly == 3
Whole == 4

(* A nonce or realm cut short: none the ME knows.                          *)
Cut == -1

(* The value extract_field or xml_extract copies: it wants no closing      *)
(* quote or tag, and takes what is there for the value.  Without the field *)
(* a nonce stays empty, which is also what an empty one is.                *)
Read(v) ==
  CASE got \in {Torn, Status, Opened} -> 0
    [] got = Partly -> Cut
    [] got = Whole  -> v

Found == got \notin {Torn, Status}

(* setup_return: 0xFFFFFFFF unless there is a ReturnValue, then its        *)
(* leading digits.  A value that is not zero has no leading zero.          *)
SetupReturnedZeroDefault == Found => got = Opened \/ answer.value = 0

SetupReturnedZero == Found /\ (got = Opened \/ answer.value = 0)

Idle == [call |-> "none", nonce |-> 0, realm |-> 0]
NoAnswer == [code |-> 0, value |-> 0]

(* The DigestRealm of the device.                                          *)
Realm == 1

Init ==
  /\ hpc = "post" /\ call = "settings" /\ attempt = 1
  /\ nonce = 0 /\ nc = 0 /\ realm = 0
  /\ active = TRUE
  /\ got = Torn /\ result = "none"
  /\ chan = "open" /\ req = Idle /\ answer = NoAnswer
  /\ mode = Pre /\ pass = 0
  /\ issued = 0 /\ used = {}

-----------------------------------------------------------------------------
(* The host: post_wsman.                                                   *)
Returns(r) == hpc' = "done" /\ result' = r

(* build_auth_header, once there is a nonce.                               *)
BuildRequestStuck ==
  /\ hpc = "post"
  /\ hpc' = "channel"
  /\ nc' = IF nonce = 0 THEN nc ELSE 1
  /\ UNCHANGED <<prog, nonce, active, got, result, chan, me, used>>

BuildRequest ==
  /\ hpc = "post"
  /\ hpc' = "channel"
  /\ nc' = IF nonce = 0 THEN nc ELSE nc + 1
  /\ UNCHANGED <<prog, nonce, active, got, result, chan, me, used>>

(* reopen_channel: a new connection and channel, or an error.              *)
Reopen ==
  /\ hpc = "channel" /\ ~active
  /\ \/ active' = TRUE /\ chan' = "open" /\ UNCHANGED <<hpc, result>>
     \/ Returns("reopen") /\ UNCHANGED <<active, chan>>
  /\ UNCHANGED <<prog, auth, got, me, used>>

(* A request sent on a channel the ME is closing is lost.                  *)
Send ==
  /\ hpc = "channel" /\ active
  /\ hpc' = "recv"
  /\ used' = IF nonce = 0 THEN used ELSE used \cup {auth}
  /\ IF chan = "open"
     THEN /\ req' = [call |-> call, nonce |-> nonce, realm |-> realm]
          /\ chan' = "busy"
     ELSE UNCHANGED <<req, chan>>
  /\ UNCHANGED <<prog, auth, active, got, result, answer, mode, pass, issued>>

SendFails ==
  /\ hpc = "channel" /\ active
  /\ Returns("send")
  /\ UNCHANGED <<prog, auth, active, got, chan, me, used>>

(* receive: the answer and the channel's close ...                         *)
Receive ==
  /\ hpc = "recv" /\ chan = "answered"
  /\ hpc' = "parse"
  /\ got' = Whole
  /\ active' = FALSE /\ chan' = "closed"
  /\ UNCHANGED <<prog, auth, result, me, used>>

(* ... or what of it came before a timeout or a disconnect ...             *)
ReceiveCutInactive ==
  /\ hpc = "recv" /\ chan = "answered"
  /\ hpc' = "parse"
  /\ got' \in Torn .. Whole
  /\ active' = FALSE /\ chan' = "closed"
  /\ UNCHANGED <<prog, auth, result, me, used>>

ReceiveCut ==
  /\ hpc = "recv" /\ chan = "answered"
  /\ hpc' = "parse"
  /\ got' \in Torn .. Whole
  /\ chan' = "closing"
  /\ UNCHANGED <<prog, auth, active, result, me, used>>

(* ... or nothing, or the rest of an earlier answer, in which post_wsman   *)
(* finds no status line.                                                   *)
ReceiveNothingRetried ==
  /\ hpc = "recv"
  /\ IF attempt < Attempts
     THEN hpc' = "post" /\ attempt' = attempt + 1 /\ active' = FALSE
          /\ chan' = "closed" /\ UNCHANGED result
     ELSE Returns("receive") /\ UNCHANGED <<attempt, active, chan>>
  /\ UNCHANGED <<call, realm, auth, got, me, used>>

ReceiveNothing ==
  /\ hpc = "recv"
  /\ Returns("receive")
  /\ UNCHANGED <<prog, auth, active, got, chan, me, used>>

-----------------------------------------------------------------------------
(* wsman_call and activate_ccm, with the answer in resp.                   *)

(* No status line, or a part of its three digits: some other code.         *)
Unreadable ==
  /\ hpc = "parse" /\ got = Torn
  /\ Returns("http")
  /\ UNCHANGED <<prog, auth, active, got, chan, me, used>>

OtherStatus ==
  /\ hpc = "parse" /\ got # Torn
  /\ answer.code \notin {200, 401}
  /\ Returns("http")
  /\ UNCHANGED <<prog, auth, active, got, chan, me, used>>

(* A 401: digest_from_challenge, and the next attempt if there is one.     *)
LastAttempt == attempt = Attempts

Challenged ==
  /\ hpc = "parse" /\ got # Torn
  /\ answer.code = 401
  /\ nonce' = Read(answer.value)
  /\ nc' = 0
  /\ IF LastAttempt
     THEN Returns("denied") /\ UNCHANGED attempt
     ELSE /\ hpc' = "post"
          /\ attempt' = attempt + 1
          /\ UNCHANGED result
  /\ UNCHANGED <<call, realm, active, got, chan, me, used>>

Succeeded == hpc = "parse" /\ got # Torn /\ answer.code = 200

(* GetGeneralSettings: the password is hashed with the realm as read.      *)
SettingsRead ==
  /\ Succeeded /\ call = "settings"
  /\ IF Found
     THEN /\ realm' = Read(answer.value)
          /\ call' = "setup"
          /\ attempt' = 1
          /\ hpc' = "post"
          /\ UNCHANGED result
     ELSE Returns("notfound") /\ UNCHANGED prog
  /\ UNCHANGED <<auth, active, got, chan, me, used>>

SetupReadNotFound ==
  /\ Succeeded /\ call = "setup"
  /\ Returns(IF ~Found THEN "notfound"
             ELSE IF SetupReturnedZero THEN "ok" ELSE "device")
  /\ UNCHANGED <<prog, auth, active, got, chan, me, used>>

SetupRead ==
  /\ Succeeded /\ call = "setup"
  /\ Returns(IF SetupReturnedZero THEN "ok" ELSE "device")
  /\ UNCHANGED <<prog, auth, active, got, chan, me, used>>

-----------------------------------------------------------------------------
(* The ME's web server, which may take its time: it serves a request also  *)
(* after the host has given up.                                            *)
Serves(a) ==
  /\ chan = "busy"
  /\ chan' = "answered"
  /\ answer' = a
  /\ UNCHANGED <<hpc, prog, auth, active, got, result, req, used>>

Authorized == chan = "busy" /\ req.nonce = issued /\ issued # 0

(* A challenge with a new nonce: for a request without credentials, with   *)
(* an expired nonce, or when it does not take the credentials.             *)
MeChallenges ==
  /\ Serves([code |-> 401, value |-> issued + 1])
  /\ issued' = issued + 1
  /\ UNCHANGED <<mode, pass>>

MeFails ==
  /\ Serves([code |-> 500, value |-> 0])
  /\ UNCHANGED <<mode, pass, issued>>

MeSettings ==
  /\ Authorized /\ req.call = "settings"
  /\ Serves([code |-> 200, value |-> Realm])
  /\ UNCHANGED <<mode, pass, issued>>

MeSetup ==
  /\ Authorized /\ req.call = "setup" /\ mode = Pre
  /\ mode' = Ccm
  /\ pass' = req.realm
  /\ Serves([code |-> 200, value |-> 0])
  /\ UNCHANGED issued

MeRefuses ==
  /\ Authorized /\ req.call = "setup"
  /\ \E v \in Refusals : Serves([code |-> 200, value |-> v])
  /\ UNCHANGED <<mode, pass, issued>>

-----------------------------------------------------------------------------
Host ==
  \/ BuildRequest \/ Reopen \/ Send \/ SendFails
  \/ Receive \/ ReceiveCut \/ ReceiveNothing
  \/ Unreadable \/ OtherStatus \/ Challenged \/ SettingsRead \/ SetupRead

ME == MeChallenges \/ MeFails \/ MeSettings \/ MeSetup \/ MeRefuses

Next == Host \/ ME

Spec == Init /\ [][Next]_vars

-----------------------------------------------------------------------------
Results == {"none", "ok", "reopen", "send", "receive", "http", "denied",
            "notfound", "device"}

(* The types of the variables: in particular no call is made more than     *)
(* Attempts times.                                                         *)
TypeOK ==
  /\ hpc \in {"post", "channel", "recv", "parse", "done"}
  /\ call \in {"settings", "setup"} /\ attempt \in 1 .. Attempts
  /\ nonce \in Nat \cup {Cut} /\ nc \in Nat
  /\ realm \in {0, Realm, Cut}
  /\ active \in BOOLEAN
  /\ got \in Torn .. Whole /\ result \in Results
  /\ chan \in {"open", "busy", "answered", "closing", "closed"}
  /\ req \in [call : {"none", "settings", "setup"}, nonce : Nat \cup {Cut},
              realm : {0, Realm, Cut}]
  /\ answer \in [code : {0, 200, 401, 500}, value : Nat]
  /\ mode \in {Pre, Ccm} /\ pass \in {0, Realm, Cut}
  /\ issued \in Nat
  /\ used \subseteq (Nat \cup {Cut}) \X Nat

(* A device is activated with the password the user can log in with: its   *)
(* hash is over the device's own DigestRealm.  xml_extract takes a realm   *)
(* that broke off for the whole one and Setup is sent with its hash; what  *)
(* keeps the ME from executing it is that an answer that broke off leaves  *)
(* channel_active set, so that no new channel is opened for the request.   *)
RightPassword == mode = Ccm => pass = Realm

(* SUCCESS is reported for an activated device only, unless the answer     *)
(* broke off between the tag and the digits of a ReturnValue.              *)
SuccessIsActivated == result = "ok" => mode = Ccm \/ got = Opened

(* These failures promise that the device has not been, and is not going   *)
(* to be, activated by what was sent: the credentials were not taken, the  *)
(* realm was not found, there was no channel to send on.                   *)
Unchanging == {"denied", "notfound", "reopen"}

FailureIsClean ==
  result \in Unchanging => mode = Pre /\ chan # "busy"

(* Once the ME has executed Setup the host sends nothing more, also when   *)
(* the answer is lost, breaks off or cannot be read: Setup is not tried    *)
(* again.                                                                  *)
SetupIsLast == [][mode = Ccm => ~Send]_vars

(* No nonce is presented twice with one count, over both calls and every   *)
(* challenge between them.                                                 *)
NoReplay == [][Send /\ nonce > 0 => auth \notin used]_vars
=============================================================================
