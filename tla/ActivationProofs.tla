--------------------------- MODULE ActivationProofs ---------------------------
(***************************************************************************)
(* Proofs about Activation, for every number of attempts and every set of  *)
(* return values of a refused Setup.  The safety properties depend on      *)
(* where the channel, the request and the answer can be while the host is  *)
(* at each step (Placed), on what a broken realm implies for the channel   *)
(* (Hashed), and on what the answer says of the device (Told); together    *)
(* with the nonces (Counted) they are inductive.                           *)
(***************************************************************************)
EXTENDS Activation, TLAPS

(* The ME's answer to the current call is on its way or being read.        *)
Answering == chan = "answered" \/ hpc = "parse"

(* The two ends of the channel at each step of post_wsman.                 *)
Placed ==
  /\ hpc \in {"post", "channel"} =>
       IF active THEN chan \in {"open", "closing"} ELSE chan = "closed"
  /\ hpc = "recv" => active /\ chan \in {"busy", "answered", "closing"}
  /\ hpc = "parse" => IF active THEN chan = "closing"
                      ELSE chan = "closed" /\ got = Whole
  /\ result = "none" <=> hpc # "done"
  /\ chan \in {"busy", "answered"} => hpc \in {"recv", "done"}
  /\ chan = "busy" => req.call = call /\ req.realm = realm

(* A Setup with the hash of a wrong realm finds its channel closing.       *)
Hashed ==
  /\ call = "setup" /\ realm # Realm => chan = "closing"
  /\ Answering /\ answer.code = 200 /\ call = "settings" =>
       answer.value = Realm

(* What the answer, or its absence, says of the device.                    *)
Told ==
  /\ mode = Ccm =>
       /\ call = "setup" /\ chan # "busy"
       /\ hpc # "done" => Answering /\ answer.code = 200
  /\ Answering /\ call = "setup" /\ answer.code = 200 /\ answer.value = 0 =>
       mode = Ccm

(* The nonces presented, and their counts.                                 *)
Counted ==
  /\ nonce <= issued
  /\ \A p \in used :
       p[1] > 0 =>
         /\ p[1] <= issued
         /\ p[1] = nonce => IF hpc = "channel" THEN p[2] < nc ELSE p[2] <= nc
  /\ Answering /\ answer.code = 401 =>
       /\ answer.value \in 1 .. issued
       /\ \A p \in used : p[1] # answer.value

Inv == /\ TypeOK /\ Placed /\ Hashed /\ Told /\ Counted
       /\ RightPassword /\ SuccessIsActivated /\ FailureIsClean

(* Every step keeps the types.                                             *)
LEMMA TypesKept == ASSUME Inv, [Next]_vars PROVE TypeOK'
<1> USE ActivationAssumption DEF Inv, TypeOK, vars, prog, auth, me, Torn,
      Status, Opened, Partly, Whole, Cut, Pre, Ccm, Realm, Results
<1>1. CASE BuildRequest
  BY <1>1 DEF BuildRequest
<1>2. CASE Reopen
  <2>1. active' \in BOOLEAN
    BY <1>2, Zenon DEF Reopen
  <2>2. QED
    BY <1>2, <2>1 DEF Reopen, Returns
<1>3. CASE Send
  BY <1>3 DEF Send
<1>4. CASE SendFails
  BY <1>4 DEF SendFails, Returns
<1>5. CASE Receive
  <2>1. active' = FALSE /\ active' \in BOOLEAN
    BY <1>5, Zenon DEF Receive
  <2>2. QED
    BY <1>5, <2>1 DEF Receive
<1>6. CASE ReceiveCut
  BY <1>6 DEF ReceiveCut
<1>7. CASE ReceiveNothing
  BY <1>7 DEF ReceiveNothing, Returns
<1>8. CASE Unreadable
  BY <1>8 DEF Unreadable, Returns
<1>9. CASE OtherStatus
  BY <1>9 DEF OtherStatus, Returns
<1>10. CASE Challenged
  BY <1>10 DEF Challenged, Returns, LastAttempt, Read
<1>11. CASE SettingsRead
  BY <1>11 DEF SettingsRead, Returns, Succeeded, Read, Found, Hashed, Answering
<1>12. CASE SetupRead
  BY <1>12 DEF SetupRead, Returns, Succeeded
<1>13. CASE MeChallenges
  BY <1>13 DEF MeChallenges, Serves
<1>14. CASE MeFails
  BY <1>14 DEF MeFails, Serves
<1>15. CASE MeSettings
  BY <1>15 DEF MeSettings, Serves, Authorized
<1>16. CASE MeSetup
  BY <1>16 DEF MeSetup, Serves, Authorized
<1>17. CASE MeRefuses
  BY <1>17 DEF MeRefuses, Serves, Authorized
<1>18. CASE UNCHANGED vars
  BY <1>18
<1>19. QED
  BY <1>1, <1>2, <1>3, <1>4, <1>5, <1>6, <1>7, <1>8, <1>9, <1>10, <1>11,
     <1>12, <1>13, <1>14, <1>15, <1>16, <1>17, <1>18
     DEF Next, Host, ME

(* ... and the places of the channel, the request and the answer ...       *)
LEMMA PlacedKept == ASSUME Inv, [Next]_vars PROVE Placed'
<1> USE DEF Inv, TypeOK, Placed, vars, prog, auth, me, Torn, Whole, Results
<1>1. CASE BuildRequest
  BY <1>1 DEF BuildRequest
<1>2. CASE Reopen
  BY <1>2 DEF Reopen, Returns
<1>3. CASE Send
  BY <1>3 DEF Send
<1>4. CASE SendFails
  BY <1>4 DEF SendFails, Returns
<1>5. CASE Receive
  BY <1>5 DEF Receive
<1>6. CASE ReceiveCut
  BY <1>6 DEF ReceiveCut
<1>7. CASE ReceiveNothing
  BY <1>7 DEF ReceiveNothing, Returns
<1>8. CASE Unreadable
  BY <1>8 DEF Unreadable, Returns
<1>9. CASE OtherStatus
  BY <1>9 DEF OtherStatus, Returns
<1>10. CASE Challenged
  BY <1>10 DEF Challenged, Returns, LastAttempt
<1>11. CASE SettingsRead
  BY <1>11 DEF SettingsRead, Returns, Succeeded
<1>12. CASE SetupRead
  BY <1>12 DEF SetupRead, Returns, Succeeded
<1>13. CASE MeChallenges
  BY <1>13 DEF MeChallenges, Serves
<1>14. CASE MeFails
  BY <1>14 DEF MeFails, Serves
<1>15. CASE MeSettings
  BY <1>15 DEF MeSettings, Serves, Authorized
<1>16. CASE MeSetup
  BY <1>16 DEF MeSetup, Serves, Authorized
<1>17. CASE MeRefuses
  BY <1>17 DEF MeRefuses, Serves, Authorized
<1>18. CASE UNCHANGED vars
  BY <1>18
<1>19. QED
  BY <1>1, <1>2, <1>3, <1>4, <1>5, <1>6, <1>7, <1>8, <1>9, <1>10, <1>11,
     <1>12, <1>13, <1>14, <1>15, <1>16, <1>17, <1>18
     DEF Next, Host, ME

(* ... and what a broken realm implies ...                                 *)
LEMMA HashedKept == ASSUME Inv, [Next]_vars PROVE Hashed'
<1> USE DEF Inv, TypeOK, Placed, Hashed, Answering, vars, prog, auth, me,
           Torn, Status, Opened, Partly, Whole
<1>1. CASE BuildRequest
  BY <1>1 DEF BuildRequest
<1>2. CASE Reopen
  BY <1>2 DEF Reopen, Returns
<1>3. CASE Send
  BY <1>3 DEF Send
<1>4. CASE SendFails
  BY <1>4 DEF SendFails, Returns
<1>5. CASE Receive
  BY <1>5 DEF Receive
<1>6. CASE ReceiveCut
  BY <1>6 DEF ReceiveCut
<1>7. CASE ReceiveNothing
  BY <1>7 DEF ReceiveNothing, Returns
<1>8. CASE Unreadable
  BY <1>8 DEF Unreadable, Returns
<1>9. CASE OtherStatus
  BY <1>9 DEF OtherStatus, Returns
<1>10. CASE Challenged
  BY <1>10 DEF Challenged, Returns, LastAttempt
<1>11. CASE SettingsRead
  BY <1>11 DEF SettingsRead, Returns, Succeeded, Read, Found
<1>12. CASE SetupRead
  BY <1>12 DEF SetupRead, Returns, Succeeded
<1>13. CASE MeChallenges
  BY <1>13 DEF MeChallenges, Serves
<1>14. CASE MeFails
  BY <1>14 DEF MeFails, Serves
<1>15. CASE MeSettings
  BY <1>15 DEF MeSettings, Serves, Authorized
<1>16. CASE MeSetup
  BY <1>16 DEF MeSetup, Serves, Authorized
<1>17. CASE MeRefuses
  BY <1>17 DEF MeRefuses, Serves, Authorized
<1>18. CASE UNCHANGED vars
  BY <1>18
<1>19. QED
  BY <1>1, <1>2, <1>3, <1>4, <1>5, <1>6, <1>7, <1>8, <1>9, <1>10, <1>11,
     <1>12, <1>13, <1>14, <1>15, <1>16, <1>17, <1>18
     DEF Next, Host, ME

(* ... and what the answer says of the device ...                          *)
LEMMA ToldKept == ASSUME Inv, [Next]_vars PROVE Told'
<1> USE DEF Inv, TypeOK, Placed, Told, Answering, vars, prog, auth, me,
           Pre, Ccm
<1>1. CASE BuildRequest
  BY <1>1 DEF BuildRequest
<1>2. CASE Reopen
  BY <1>2 DEF Reopen, Returns
<1>3. CASE Send
  BY <1>3 DEF Send
<1>4. CASE SendFails
  BY <1>4 DEF SendFails, Returns
<1>5. CASE Receive
  BY <1>5 DEF Receive
<1>6. CASE ReceiveCut
  BY <1>6 DEF ReceiveCut
<1>7. CASE ReceiveNothing
  BY <1>7 DEF ReceiveNothing, Returns
<1>8. CASE Unreadable
  BY <1>8 DEF Unreadable, Returns
<1>9. CASE OtherStatus
  BY <1>9 DEF OtherStatus, Returns
<1>10. CASE Challenged
  BY <1>10 DEF Challenged, Returns, LastAttempt
<1>11. CASE SettingsRead
  BY <1>11 DEF SettingsRead, Returns, Succeeded
<1>12. CASE SetupRead
  BY <1>12 DEF SetupRead, Returns, Succeeded
<1>13. CASE MeChallenges
  BY <1>13 DEF MeChallenges, Serves
<1>14. CASE MeFails
  BY <1>14 DEF MeFails, Serves
<1>15. CASE MeSettings
  BY <1>15 DEF MeSettings, Serves, Authorized
<1>16. CASE MeSetup
  BY <1>16 DEF MeSetup, Serves, Authorized
<1>17. CASE MeRefuses
  BY <1>17, ActivationAssumption DEF MeRefuses, Serves, Authorized
<1>18. CASE UNCHANGED vars
  BY <1>18
<1>19. QED
  BY <1>1, <1>2, <1>3, <1>4, <1>5, <1>6, <1>7, <1>8, <1>9, <1>10, <1>11,
     <1>12, <1>13, <1>14, <1>15, <1>16, <1>17, <1>18
     DEF Next, Host, ME

(* ... and the nonces presented ...                                        *)
LEMMA CountedKept == ASSUME Inv, [Next]_vars PROVE Counted'
<1> USE DEF Inv, TypeOK, Placed, Counted, Answering, vars, prog, auth, me,
           Cut, Torn, Status, Opened, Partly, Whole
<1>1. CASE BuildRequest
  BY <1>1 DEF BuildRequest
<1>2. CASE Reopen
  BY <1>2 DEF Reopen, Returns
<1>3. CASE Send
  BY <1>3 DEF Send
<1>4. CASE SendFails
  BY <1>4 DEF SendFails, Returns
<1>5. CASE Receive
  BY <1>5 DEF Receive
<1>6. CASE ReceiveCut
  BY <1>6 DEF ReceiveCut
<1>7. CASE ReceiveNothing
  BY <1>7 DEF ReceiveNothing, Returns
<1>8. CASE Unreadable
  BY <1>8 DEF Unreadable, Returns
<1>9. CASE OtherStatus
  BY <1>9 DEF OtherStatus, Returns
<1>10. CASE Challenged
  BY <1>10 DEF Challenged, Returns, LastAttempt, Read
<1>11. CASE SettingsRead
  BY <1>11 DEF SettingsRead, Returns, Succeeded
<1>12. CASE SetupRead
  BY <1>12 DEF SetupRead, Returns, Succeeded
<1>13. CASE MeChallenges
  BY <1>13 DEF MeChallenges, Serves
<1>14. CASE MeFails
  BY <1>14 DEF MeFails, Serves
<1>15. CASE MeSettings
  BY <1>15 DEF MeSettings, Serves, Authorized
<1>16. CASE MeSetup
  BY <1>16 DEF MeSetup, Serves, Authorized
<1>17. CASE MeRefuses
  BY <1>17 DEF MeRefuses, Serves, Authorized
<1>18. CASE UNCHANGED vars
  BY <1>18
<1>19. QED
  BY <1>1, <1>2, <1>3, <1>4, <1>5, <1>6, <1>7, <1>8, <1>9, <1>10, <1>11,
     <1>12, <1>13, <1>14, <1>15, <1>16, <1>17, <1>18
     DEF Next, Host, ME

(* ... and the properties.                                                 *)
LEMMA OutcomesKept ==
  ASSUME Inv, [Next]_vars
  PROVE  RightPassword' /\ SuccessIsActivated' /\ FailureIsClean'
<1> USE DEF Inv, TypeOK, Placed, Hashed, Told, Answering, RightPassword,
           SuccessIsActivated, FailureIsClean, Unchanging, vars, prog,
           auth, me, Pre, Ccm
<1>1. CASE BuildRequest
  BY <1>1 DEF BuildRequest
<1>2. CASE Reopen
  BY <1>2 DEF Reopen, Returns
<1>3. CASE Send
  BY <1>3 DEF Send
<1>4. CASE SendFails
  BY <1>4 DEF SendFails, Returns
<1>5. CASE Receive
  BY <1>5 DEF Receive
<1>6. CASE ReceiveCut
  BY <1>6 DEF ReceiveCut
<1>7. CASE ReceiveNothing
  BY <1>7 DEF ReceiveNothing, Returns
<1>8. CASE Unreadable
  BY <1>8 DEF Unreadable, Returns
<1>9. CASE OtherStatus
  BY <1>9 DEF OtherStatus, Returns
<1>10. CASE Challenged
  BY <1>10 DEF Challenged, Returns, LastAttempt
<1>11. CASE SettingsRead
  BY <1>11 DEF SettingsRead, Returns, Succeeded
<1>12. CASE SetupRead
  BY <1>12 DEF SetupRead, Returns, Succeeded, SetupReturnedZero, Found
<1>13. CASE MeChallenges
  BY <1>13 DEF MeChallenges, Serves
<1>14. CASE MeFails
  BY <1>14 DEF MeFails, Serves
<1>15. CASE MeSettings
  BY <1>15 DEF MeSettings, Serves, Authorized
<1>16. CASE MeSetup
  BY <1>16 DEF MeSetup, Serves, Authorized
<1>17. CASE MeRefuses
  BY <1>17 DEF MeRefuses, Serves, Authorized
<1>18. CASE UNCHANGED vars
  BY <1>18
<1>19. QED
  BY <1>1, <1>2, <1>3, <1>4, <1>5, <1>6, <1>7, <1>8, <1>9, <1>10, <1>11,
     <1>12, <1>13, <1>14, <1>15, <1>16, <1>17, <1>18
     DEF Next, Host, ME

THEOREM AlwaysInv == Spec => []Inv
<1>1. Init => Inv
  BY ActivationAssumption DEF Init, Inv, TypeOK, Placed, Hashed, Told, Counted,
     Answering, RightPassword, SuccessIsActivated, FailureIsClean, Unchanging,
     Idle, NoAnswer, Torn, Whole, Cut, Pre, Ccm, Realm, Results
<1>2. Inv /\ [Next]_vars => Inv'
  BY TypesKept, PlacedKept, HashedKept, ToldKept, CountedKept, OutcomesKept
     DEF Inv
<1>3. QED
  BY <1>1, <1>2, PTL DEF Spec

(* The types, and with them the bound on the requests of a wsman_call      *)
(* (src/wsman.rs:118).                                                     *)
THEOREM TypesHold == Spec => []TypeOK
<1>1. Inv => TypeOK
  BY DEF Inv
<1>2. QED
  BY <1>1, AlwaysInv, PTL

(* No device is activated with a hash over a realm that broke off          *)
(* (src/wsman.rs:230, src/http.rs:308).                                    *)
THEOREM RightPasswordHolds == Spec => []RightPassword
<1>1. Inv => RightPassword
  BY DEF Inv
<1>2. QED
  BY <1>1, AlwaysInv, PTL

(* activate_ccm returns Ok for an activated device, or for an answer that  *)
(* broke off right before the digits of its ReturnValue (src/wsman.rs:251).*)
THEOREM SuccessIsActivatedHolds == Spec => []SuccessIsActivated
<1>1. Inv => SuccessIsActivated
  BY DEF Inv
<1>2. QED
  BY <1>1, AlwaysInv, PTL

(* AccessDenied, NotFound and a failed reopen leave the device as it was   *)
(* (src/wsman.rs:137, src/wsman.rs:226, src/http.rs:310).                  *)
THEOREM FailureIsCleanHolds == Spec => []FailureIsClean
<1>1. Inv => FailureIsClean
  BY DEF Inv
<1>2. QED
  BY <1>1, AlwaysInv, PTL

(* After Setup was executed the host sends nothing more (src/wsman.rs:118).*)
THEOREM SetupIsLastHolds == Spec => SetupIsLast
<1>1. Inv /\ [Next]_vars => (mode = Ccm => ~Send)
  BY DEF Inv, Told, Placed, Answering, Send
<1>2. QED
  BY <1>1, AlwaysInv, PTL DEF SetupIsLast, Spec

(* No nonce goes out twice with one count (src/http.rs:193 and 337).       *)
THEOREM NoReplayHolds == Spec => NoReplay
<1>1. Inv /\ [Next]_vars => (Send /\ nonce > 0 => auth \notin used)
  BY DEF Inv, TypeOK, Counted, Send, auth, Cut
<1>2. QED
  BY <1>1, AlwaysInv, PTL DEF NoReplay, Spec
=============================================================================
