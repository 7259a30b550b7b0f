------------------------- MODULE CaptchaFlowProofs -------------------------
(***************************************************************************)
(* Proofs about CaptchaFlow.  With any number of handlers at once, faults  *)
(* and restarts: its types, that no stored captcha has a complete input,   *)
(* that users become verified by their own captcha only, that no two rows  *)
(* share an id or a message, and that a live captcha has its photo in the  *)
(* chat unless it was solved or lost it to another's expired captcha.      *)
(*                                                                         *)
(* Where the updates of each user are handled one after the other          *)
(* (Serial), for any number of users at once: that a user has one live     *)
(* captcha, a captcha that was solved is gone, and a photo shows the       *)
(* stored code (OneLive, SolvedIsGone, PhotoShowsCode).  Serial is a       *)
(* hypothesis on the behaviour, which telebot's goroutine per update does  *)
(* not give; MCCaptchaFlow_twocaptchas.cfg and MCCaptchaFlow_stalephoto    *)
(* .cfg show the first and the last of them fail without it.               *)
(***************************************************************************)
EXTENDS CaptchaFlow, SequenceTheorems, FiniteSetTheorems, TLAPS

USE DEF history

(* Numbers are positive naturals.                                          *)
LEMMA NumbersAreNat == MaxGenerated \in Nat /\ Numbers \subseteq Nat /\ 0 \notin Numbers
BY FlowAssumption DEF Numbers

(* GenerateCaptcha gives the next number.                                  *)
LEMMA GenerateNext ==
  ASSUME TypeOK, Generate
  PROVE  generated + 1 \in Numbers /\ generated' = generated + 1
BY FlowAssumption DEF TypeOK, Generate, Numbers

(* A new captcha has its user, its message and no input;                   *)
LEMMA NewCaptcha ==
  ASSUME generated + 1 \in Numbers, NEW id \in Nat, NEW u \in Users, NEW m \in Numbers
  PROVE  /\ New(id, u, m) \in Captcha
         /\ New(id, u, m).user = u /\ New(id, u, m).msg = m
         /\ Len(New(id, u, m).input) = 0
<1>1. <<>> \in Seq(Digits) /\ Len(<<>>) = 0
  OBVIOUS
<1> QED BY <1>1 DEF New, Captcha

(* so has one for a message that is about to be sent,                      *)
LEMMA FreshCaptcha ==
  ASSUME generated + 1 \in Numbers, NEW u \in Users
  PROVE  Fresh(u) \in Captcha /\ Fresh(u).user = u /\ Len(Fresh(u).input) = 0
BY NewCaptcha DEF Fresh

(* and one whose code has been replaced.                                   *)
LEMMA RefreshedCaptcha ==
  ASSUME generated + 1 \in Numbers, NEW row \in Captcha
  PROVE  /\ Refreshed(row) \in Captcha
         /\ Refreshed(row).user = row.user /\ Refreshed(row).msg = row.msg
         /\ Len(Refreshed(row).input) = 0
BY NewCaptcha DEF Refreshed, Captcha

(* A digit makes the input one longer, a backspace no longer.              *)
LEMMA InputAfterDigit ==
  ASSUME NEW row \in Captcha, NEW d \in Digits
  PROVE  LET new == [row EXCEPT !.input = Append(@, d)]
         IN  /\ new \in Captcha
             /\ Len(new.input) = Len(row.input) + 1
             /\ new.user = row.user /\ new.msg = row.msg
<1>1. Append(row.input, d) \in Seq(Digits) /\ Len(Append(row.input, d)) = Len(row.input) + 1
  BY DEF Captcha
<1> QED BY <1>1 DEF Captcha

(* A backspace does not make the input longer, even an empty one.          *)
LEMMA InputAfterBackspace ==
  ASSUME NEW row \in Captcha
  PROVE  LET new == [row EXCEPT !.input = SubSeq(@, 1, Len(@) - 1)]
         IN  /\ new \in Captcha
             /\ Len(new.input) <= Len(row.input)
             /\ new.user = row.user /\ new.msg = row.msg
<1> DEFINE s == row.input
           left == SubSeq(s, 1, Len(s) - 1)
<1>1. s \in Seq(Digits) /\ Len(s) \in Nat
  BY DEF Captcha
<1>2. \A i \in 1..(Len(s) - 1) : s[i] \in Digits
  BY <1>1
<1>3. left \in Seq(Digits) /\ Len(left) = IF 1 <= Len(s) - 1 THEN Len(s) - 1 ELSE 0
  BY <1>1, <1>2, SubSeqProperties
<1> QED BY <1>1, <1>3 DEF Captcha

(* A wrong input is thrown away.                                           *)
LEMMA EmptiedInput ==
  ASSUME NEW row \in Captcha
  PROVE  LET new == [row EXCEPT !.input = <<>>]
         IN  new \in Captcha /\ Len(new.input) = 0 /\ new.user = row.user
<1>1. <<>> \in Seq(Digits) /\ Len(<<>>) = 0
  OBVIOUS
<1>2. ASSUME NEW s \in Seq(Digits)
      PROVE  LET new == [row EXCEPT !.input = s]
             IN  new \in Captcha /\ new.input = s /\ new.user = row.user
  BY DEF Captcha
<1> QED BY <1>1, <1>2

(* What the callback looks up is a live row of the user.                   *)
LEMMA LookupIsOwn ==
  ASSUME TypeOK, NEW u \in Users, NEW row \in GetCaptchaForUserID(u)
  PROVE  row \in captchas /\ row \in Captcha /\ row.user = u
BY DEF GetCaptchaForUserID, LiveRows, TypeOK

(* A handler that does nothing has nothing in its hands.                   *)
LEMMA IdleIsSound == Idle \in HandlerStates /\ Sound(Idle)
BY DEF Idle, HandlerStates, Sound

(* The invariant holds at the start.                                       *)
LEMMA InvInit == Init => TypeOK /\ FlowInv
BY IdleIsSound, FlowAssumption
DEF Init, TypeOK, FlowInv, InputNeverComplete, RowsInHand, Numbers

Hands == handler \in [Handlers -> HandlerStates] /\ RowsInHand

(* One handler takes a step.                                               *)
LEMMA HandlerStep ==
  ASSUME TypeOK, RowsInHand, NEW h \in Handlers, NEW new \in HandlerStates, Sound(new),
         handler' = [handler EXCEPT ![h] = new]
  PROVE  Hands'
BY DEF TypeOK, RowsInHand, Hands

(* A handler returns.                                                      *)
LEMMA ReturnStep ==
  ASSUME TypeOK, RowsInHand, NEW h \in Handlers, Return(h)
  PROVE  Hands'
BY IdleIsSound, HandlerStep DEF Return

BusyStates ==
  [pc : AtMessage \cup AtPress, user : Users, msg : Numbers \cup {0},
   button : Buttons \cup {"none"}, row : Captcha \cup {NoRow}]

(* A handler that is busy works for a user.                                *)
LEMMA Busy ==
  ASSUME TypeOK, RowsInHand, NEW h \in Handlers, ~At(h, "idle")
  PROVE  /\ handler[h] \in BusyStates /\ Sound(handler[h])
         /\ handler[h].user \in Users
<1>1. handler[h] \in BusyStates
  BY DEF TypeOK, HandlerStates, BusyStates, Idle, At
<1> QED BY <1>1 DEF RowsInHand, BusyStates

(* After its query a handler holds a row of its user.                      *)
LEMMA HasRow ==
  ASSUME TypeOK, RowsInHand, NEW h \in Handlers,
         ~At(h, "idle"), ~At(h, "lookup"), ~At(h, "find")
  PROVE  Row(h) \in Captcha /\ Row(h).user = handler[h].user
BY DEF RowsInHand, Sound, At, Row

(* What the next statement expects of the row.                             *)
Fits(h, pc, row) ==
  /\ row \in Captcha /\ row.user = handler[h].user
  /\ pc \in {"edit", "validate", "verify", "close_message", "close_row"} =>
       row.msg = handler[h].msg
  /\ pc \in {"send", "save", "check", "edit", "store"} => Len(row.input) < Length
  /\ pc = "validate" => Len(row.input) <= Length
  /\ pc = "verify" => row.input = [i \in 1..Length |-> "right"]

(* Going on with another row, or with the same one.                        *)
LEMMA GotoStep ==
  ASSUME TypeOK, RowsInHand, NEW h \in Handlers, ~At(h, "idle"),
         NEW pc \in AtMessage \cup AtPress, NEW row, Fits(h, pc, row),
         GotoWith(h, pc, row) \/ Pressed(h, pc, row) \/ (Goto(h, pc) /\ row = Row(h))
  PROVE  Hands'
<1>0. row \in Captcha
  BY DEF Fits
<1>1. handler[h] \in BusyStates
  BY Busy
<1>2. ASSUME NEW new \in BusyStates, handler' = [handler EXCEPT ![h] = new],
             new.pc = pc, new.row = row, new.user = handler[h].user,
             new.msg = handler[h].msg
      PROVE  Hands'
  <2>1. new \in HandlerStates
    BY DEF HandlerStates, BusyStates
  <2>2. Sound(new)
    BY <1>2 DEF Sound, Fits
  <2> QED BY <1>2, <2>1, <2>2, HandlerStep
<1>3. CASE GotoWith(h, pc, row)
  <2> DEFINE new == [handler[h] EXCEPT !.pc = pc, !.row = row]
  <2>1. new \in BusyStates
    BY <1>0, <1>1 DEF BusyStates
  <2> QED BY <1>1, <1>2, <1>3, <2>1 DEF GotoWith, BusyStates
<1>4. CASE Pressed(h, pc, row)
  <2> DEFINE new == [handler[h] EXCEPT !.pc = pc, !.row = row, !.button = "none"]
  <2>1. new \in BusyStates
    BY <1>0, <1>1 DEF BusyStates
  <2> QED BY <1>1, <1>2, <1>4, <2>1 DEF Pressed, BusyStates
<1>5. CASE Goto(h, pc) /\ row = Row(h)
  <2> DEFINE new == [handler[h] EXCEPT !.pc = pc]
  <2>1. new \in BusyStates
    BY <1>0, <1>1 DEF BusyStates
  <2> QED BY <1>1, <1>2, <1>5, <2>1 DEF Goto, BusyStates, Row
<1> QED BY <1>3, <1>4, <1>5

-----------------------------------------------------------------------------
(* FlowInv is inductive.  Each step is looked at for what it leaves in the *)
(* table and in the hands of the handler that takes it.                    *)

GoodTable == captchas \subseteq Captcha /\ InputNeverComplete

(* Deleting a row keeps the table good.                                    *)
LEMMA Deleting ==
  ASSUME GoodTable, NEW id, DeleteCaptchaByID(id)
  PROVE  GoodTable'
BY DEF GoodTable, DeleteCaptchaByID, Without, InputNeverComplete

(* So does storing one whose input is not complete.                        *)
LEMMA Upserting ==
  ASSUME GoodTable, NEW row \in Captcha, Len(row.input) < Length, UpsertCaptcha(row)
  PROVE  GoodTable'
BY DEF GoodTable, UpsertCaptcha, Without, InputNeverComplete

(* The chat shows codes only.                                              *)
LEMMA Showing ==
  ASSUME TypeOK, NEW m, NEW code \in Numbers \cup {0},
         chat' = [chat EXCEPT ![m] = code]
  PROVE  chat' \in [Numbers -> Numbers \cup {0}]
BY DEF TypeOK

(* A deleted message, or one that could not be deleted, is no exception.   *)
LEMMA Deleted ==
  ASSUME TypeOK, NEW m, DeleteMessage(m)
  PROVE  chat' \in [Numbers -> Numbers \cup {0}]
<1>1. CASE chat' = [chat EXCEPT ![m] = 0]
  BY <1>1, Showing
<1>2. CASE UNCHANGED chat
  BY <1>2 DEF TypeOK
<1> QED BY <1>1, <1>2 DEF DeleteMessage

(* What the conjuncts of TypeOK and FlowInv say about handlers and table.  *)
Rest == /\ inserted \in Nat
        /\ generated \in Numbers \cup {0}
        /\ passed \in 0..generated
        /\ chat \in [Numbers -> Numbers \cup {0}]
        /\ verified \subseteq Users
        /\ cleaner \in [todo : SUBSET Captcha, deleted : Captcha \cup {NoRow}]
        /\ solved \subseteq Numbers /\ strays \subseteq Numbers \cup {0}

(* Generating a code keeps the counters' types.                            *)
LEMMA CountUp ==
  ASSUME Rest, generated + 1 \in Numbers, generated' = generated + 1,
         UNCHANGED <<inserted, passed, chat, verified, cleaner, history>>
  PROVE  Rest'
BY NumbersAreNat DEF Rest

(* The invariant, in the parts the steps below disturb.                    *)
LEMMA Parts == TypeOK /\ FlowInv <=> GoodTable /\ Rest /\ Hands
BY DEF TypeOK, FlowInv, GoodTable, Rest, Hands

(* The steps of the middleware.                                            *)
LEMMA MessageSteps ==
  ASSUME TypeOK, FlowInv, NEW h \in Handlers,
         LookupForMessage(h) \/ SendCaptcha(h) \/ SaveCaptcha(h)
  PROVE  GoodTable' /\ Rest' /\ Hands'
<1>0. GoodTable /\ Rest /\ Hands /\ RowsInHand
  BY Parts DEF Hands
<1>1. CASE LookupForMessage(h)
  <2>1. UNCHANGED <<captchas, inserted, passed, chat, verified, cleaner, history>> /\ At(h, "lookup")
    BY <1>1 DEF LookupForMessage
  <2>2. CASE Return(h) /\ UNCHANGED generated
    <3>1. Hands'
      BY <1>0, <2>2, ReturnStep DEF Hands
    <3> QED BY <1>0, <2>1, <2>2, <3>1 DEF GoodTable, InputNeverComplete, Rest
  <2>3. CASE Generate /\ GotoWith(h, "send", Fresh(handler[h].user))
    <3>1. generated + 1 \in Numbers /\ generated' = generated + 1
      BY <2>3, GenerateNext
    <3>2. handler[h].user \in Users
      BY <1>0, <2>1, Busy DEF At
    <3>3. Fits(h, "send", Fresh(handler[h].user))
      BY <3>1, <3>2, FreshCaptcha, FlowAssumption DEF Fits
    <3>5. Hands'
      BY <1>0, <2>1, <2>3, <3>3, GotoStep DEF AtMessage, At
    <3>4. Rest'
      BY <1>0, <2>1, <3>1, CountUp
    <3> QED BY <1>0, <2>1, <3>4, <3>5 DEF GoodTable, InputNeverComplete
  <2> QED BY <1>1, <2>2, <2>3 DEF LookupForMessage
<1>2. CASE SendCaptcha(h)
  <2>1. UNCHANGED <<captchas, inserted, generated, passed, verified, cleaner, history>> /\ At(h, "send")
    BY <1>2 DEF SendCaptcha
  <2>2. Row(h) \in Captcha /\ Row(h).user = handler[h].user /\ Len(Row(h).input) < Length
    BY <1>0, <2>1, HasRow DEF RowsInHand, Sound, At, Row
  <2>3. chat' \in [Numbers -> Numbers \cup {0}]
    <3>1. Row(h).code \in Numbers
      BY <2>2 DEF Captcha
    <3> QED BY <1>2, <3>1, Showing DEF SendCaptcha, TypeOK
  <2>4. CASE Return(h)
    BY <1>0, <2>1, <2>3, <2>4, ReturnStep DEF GoodTable, InputNeverComplete, Rest, Hands
  <2>5. CASE Goto(h, "save")
    <3>1. Hands'
      BY <1>0, <2>1, <2>2, <2>5, GotoStep DEF Fits, AtMessage, At
    <3> QED BY <1>0, <2>1, <2>3, <3>1 DEF GoodTable, InputNeverComplete, Rest
  <2> QED BY <1>2, <2>4, <2>5 DEF SendCaptcha
<1>3. CASE SaveCaptcha(h)
  <2>1. /\ UNCHANGED <<generated, passed, chat, verified, cleaner, history>>
        /\ At(h, "save") /\ Return(h)
    BY <1>3 DEF SaveCaptcha
  <2>2. Row(h) \in Captcha /\ Len(Row(h).input) < Length
    BY <1>0, <2>1, HasRow DEF RowsInHand, Sound, At, Row
  <2>3. Hands'
    BY <1>0, <2>1, ReturnStep DEF Hands
  <2> DEFINE new == [Row(h) EXCEPT !.id = inserted + 1]
  <2>4. new \in Captcha /\ Len(new.input) < Length
    BY <1>0, <2>2 DEF Captcha, Rest
  <2>5. GoodTable' /\ inserted' \in Nat
    <3>1. captchas' \subseteq captchas \cup {new} /\ inserted' \in {inserted, inserted + 1}
      BY <1>3 DEF SaveCaptcha
    <3> HIDE DEF new
    <3> QED BY <1>0, <2>4, <3>1 DEF GoodTable, InputNeverComplete, Rest
  <2> QED BY <1>0, <2>1, <2>3, <2>5 DEF Rest
<1> QED BY <1>1, <1>2, <1>3

(* The steps of the callback up to the validation.                         *)
LEMMA PressSteps ==
  ASSUME TypeOK, FlowInv, NEW h \in Handlers,
         \/ LookupForPress(h) \/ CheckExpired(h) \/ CheckMessage(h)
         \/ ApplyButton(h) \/ EditPhoto(h) \/ ValidateInput(h)
  PROVE  GoodTable' /\ Rest' /\ Hands'
<1>0. GoodTable /\ Rest /\ Hands /\ RowsInHand
  BY Parts DEF Hands
<1> USE FlowAssumption DEF AtPress
<1>1. ASSUME UNCHANGED <<captchas, inserted, generated, passed, chat, verified, cleaner, history>>,
             Hands'
      PROVE  GoodTable' /\ Rest' /\ Hands'
  BY <1>0, <1>1 DEF GoodTable, InputNeverComplete, Rest
<1>2. CASE LookupForPress(h)
  <2>1. At(h, "find") /\ handler[h].user \in Users
    BY <1>0, <1>2, Busy DEF LookupForPress, At
  <2>2. CASE Return(h)
    BY <1>0, <1>1, <1>2, <2>2, ReturnStep DEF LookupForPress, Hands
  <2>3. ASSUME NEW row \in GetCaptchaForUserID(handler[h].user), GotoWith(h, "check", row)
        PROVE  Hands'
    <3>1. row \in Captcha /\ row.user = handler[h].user /\ Len(row.input) < Length
      BY <1>0, <2>1, <2>3, LookupIsOwn DEF GoodTable, InputNeverComplete
    <3>2. Fits(h, "check", row)
      BY <3>1 DEF Fits
    <3> QED BY <1>0, <2>1, <2>3, <3>2, GotoStep DEF At
  <2> QED BY <1>1, <1>2, <2>2, <2>3 DEF LookupForPress
<1>3. CASE CheckExpired(h)
  <2>1. At(h, "check") /\ Goto(h, "drop_row")
    BY <1>3 DEF CheckExpired
  <2>2. Row(h) \in Captcha /\ Row(h).user = handler[h].user
    BY <1>0, <2>1, HasRow DEF At
  <2>3. Fits(h, "drop_row", Row(h))
    BY <2>2 DEF Fits
  <2>4. Hands'
    BY <1>0, <2>1, <2>3, GotoStep DEF At
  <2> QED BY <1>1, <1>3, <2>4 DEF CheckExpired
<1>4. CASE CheckMessage(h)
  BY <1>0, <1>1, <1>4, ReturnStep DEF CheckMessage, Hands
<1>5. CASE ApplyButton(h)
  <2>1. At(h, "check") /\ Row(h).msg = handler[h].msg
    BY <1>5 DEF ApplyButton
  <2>2. /\ Row(h) \in Captcha /\ Row(h).user = handler[h].user
        /\ Len(Row(h).input) < Length /\ Len(Row(h).input) \in Nat
    BY <1>0, <2>1, HasRow DEF RowsInHand, Sound, At, Row, Captcha
  <2>3. CASE Return(h) /\ UNCHANGED generated
    BY <1>0, <1>1, <1>5, <2>3, ReturnStep DEF ApplyButton, Hands
  <2>4. CASE Generate /\ Pressed(h, "edit", Refreshed(Row(h)))
    <3>1. generated + 1 \in Numbers /\ generated' = generated + 1
      BY <2>4, GenerateNext
    <3>2. Fits(h, "edit", Refreshed(Row(h)))
      BY <2>1, <2>2, <3>1, RefreshedCaptcha DEF Fits
    <3>3. Hands'
      BY <1>0, <2>1, <2>4, <3>2, GotoStep DEF At
    <3>4. UNCHANGED <<captchas, inserted, passed, chat, verified, cleaner, history>>
      BY <1>5 DEF ApplyButton
    <3>5. Rest'
      BY <1>0, <3>1, <3>4, CountUp
    <3> QED
      BY <1>0, <3>3, <3>4, <3>5 DEF GoodTable, InputNeverComplete
  <2>5. CASE /\ UNCHANGED generated
             /\ Pressed(h, "validate", [Row(h) EXCEPT !.input = SubSeq(@, 1, Len(@) - 1)])
    <3> DEFINE new == [Row(h) EXCEPT !.input = SubSeq(@, 1, Len(@) - 1)]
    <3>1. /\ new \in Captcha /\ Len(new.input) <= Len(Row(h).input)
          /\ new.user = Row(h).user /\ new.msg = Row(h).msg
      BY <2>2, InputAfterBackspace
    <3>2. Len(new.input) \in Nat
      BY <3>1 DEF Captcha
    <3>3. Pressed(h, "validate", new)
      BY <2>5
    <3> HIDE DEF new
    <3>4. Fits(h, "validate", new)
      BY <2>1, <2>2, <3>1, <3>2 DEF Fits
    <3>5. Hands'
      BY <1>0, <2>1, <3>3, <3>4, GotoStep DEF At
    <3> QED BY <1>1, <1>5, <2>5, <3>5 DEF ApplyButton
  <2>6. ASSUME NEW d \in Digits, UNCHANGED generated,
               Pressed(h, "validate", [Row(h) EXCEPT !.input = Append(@, d)])
        PROVE  GoodTable' /\ Rest' /\ Hands'
    <3> DEFINE new == [Row(h) EXCEPT !.input = Append(@, d)]
    <3>1. /\ new \in Captcha /\ Len(new.input) = Len(Row(h).input) + 1
          /\ new.user = Row(h).user /\ new.msg = Row(h).msg
      BY <2>2, InputAfterDigit
    <3>2. Pressed(h, "validate", new)
      BY <2>6
    <3> HIDE DEF new
    <3>3. Fits(h, "validate", new)
      BY <2>1, <2>2, <3>1 DEF Fits
    <3>4. Hands'
      BY <1>0, <2>1, <3>2, <3>3, GotoStep DEF At
    <3> QED BY <1>1, <1>5, <2>6, <3>4 DEF ApplyButton
  <2> QED BY <1>5, <2>3, <2>4, <2>5, <2>6 DEF ApplyButton
<1>6. CASE EditPhoto(h)
  <2>1. At(h, "edit") /\ UNCHANGED <<captchas, inserted, generated, passed, verified, cleaner, history>>
    BY <1>6 DEF EditPhoto
  <2>2. /\ Row(h) \in Captcha /\ Row(h).user = handler[h].user
        /\ Row(h).msg = handler[h].msg /\ Row(h).code \in Numbers
        /\ Len(Row(h).input) < Length /\ Len(Row(h).input) \in Nat
    BY <1>0, <2>1, HasRow DEF RowsInHand, Sound, At, Row, Captcha
  <2>3. chat' \in [Numbers -> Numbers \cup {0}]
    BY <1>6, <2>2, Showing DEF EditPhoto, TypeOK
  <2>4. Hands'
    <3>1. CASE Return(h)
      BY <1>0, <3>1, ReturnStep DEF Hands
    <3>2. CASE Goto(h, "validate")
      <4>1. Fits(h, "validate", Row(h))
        BY <2>2 DEF Fits
      <4> QED BY <1>0, <2>1, <3>2, <4>1, GotoStep DEF At
    <3> QED BY <1>6, <3>1, <3>2 DEF EditPhoto
  <2> QED BY <1>0, <2>1, <2>3, <2>4 DEF GoodTable, InputNeverComplete, Rest
<1>7. CASE ValidateInput(h)
  <2>1. At(h, "validate")
    BY <1>7 DEF ValidateInput
  <2>2. /\ Row(h) \in Captcha /\ Row(h).user = handler[h].user
        /\ Row(h).msg = handler[h].msg /\ Row(h).input \in Seq(Digits)
        /\ Len(Row(h).input) \in Nat
    BY <1>0, <2>1, HasRow DEF RowsInHand, Sound, At, Row, Captcha
  <2>3. CASE Validate(Row(h)) /\ Goto(h, "verify")
    <3>1. Row(h).input = [i \in 1..Length |-> "right"]
      BY <2>2, <2>3 DEF Validate
    <3>2. Fits(h, "verify", Row(h))
      BY <2>2, <3>1 DEF Fits
    <3>3. Hands'
      BY <1>0, <2>1, <2>3, <3>2, GotoStep DEF At
    <3> QED BY <1>1, <1>7, <3>3 DEF ValidateInput
  <2>4. CASE GotoWith(h, "store", [Row(h) EXCEPT !.input = <<>>])
    <3> DEFINE new == [Row(h) EXCEPT !.input = <<>>]
    <3>1. new \in Captcha /\ Len(new.input) = 0 /\ new.user = Row(h).user
      BY <2>2, EmptiedInput
    <3>2. GotoWith(h, "store", new)
      BY <2>4
    <3> HIDE DEF new
    <3>3. Fits(h, "store", new)
      BY <2>2, <3>1 DEF Fits
    <3>4. Hands'
      BY <1>0, <2>1, <3>2, <3>3, GotoStep DEF At
    <3> QED BY <1>1, <1>7, <3>4 DEF ValidateInput
  <2>5. CASE Len(Row(h).input) < Length /\ Goto(h, "store")
    <3>1. Fits(h, "store", Row(h))
      BY <2>2, <2>5 DEF Fits
    <3>2. Hands'
      BY <1>0, <2>1, <2>5, <3>1, GotoStep DEF At
    <3> QED BY <1>1, <1>7, <3>2 DEF ValidateInput
  <2> QED BY <1>7, <2>3, <2>4, <2>5 DEF ValidateInput
<1> QED BY <1>2, <1>3, <1>4, <1>5, <1>6, <1>7

(* The steps of the callback after the validation.                         *)
LEMMA ClosingSteps ==
  ASSUME TypeOK, FlowInv, NEW h \in Handlers,
         \/ VerifySolver(h) \/ CloseMessage(h) \/ CloseRow(h) \/ StorePress(h)
         \/ DropRow(h) \/ DropMessage(h)
  PROVE  GoodTable' /\ Rest' /\ Hands'
<1>0. GoodTable /\ Rest /\ Hands /\ RowsInHand
  BY Parts DEF Hands
<1>1. ASSUME ~At(h, "idle"), ~At(h, "lookup"), ~At(h, "find"),
             NEW pc \in {"close_message", "close_row", "drop_message"}, Goto(h, pc),
             pc # "drop_message" => At(h, "verify") \/ At(h, "close_message")
      PROVE  Hands'
  <2>1. pc # "drop_message" => Row(h).msg = handler[h].msg
    BY <1>0, <1>1 DEF RowsInHand, Sound, At, Row
  <2>2. Fits(h, pc, Row(h))
    BY <1>0, <1>1, <2>1, HasRow DEF Fits
  <2> QED BY <1>0, <1>1, <2>2, GotoStep DEF AtPress
<1>2. CASE VerifySolver(h)
  <2>1. Hands'
    BY <1>1, <1>2 DEF VerifySolver, At
  <2>2. Row(h).user \in Users /\ Row(h).msg \in Numbers
    BY <1>0, <1>2, HasRow DEF VerifySolver, At, Captcha
  <2> QED BY <1>0, <1>2, <2>1, <2>2 DEF VerifySolver, GoodTable, InputNeverComplete, Rest
<1>3. CASE CloseMessage(h)
  <2>1. Hands'
    BY <1>1, <1>3 DEF CloseMessage, At
  <2>2. chat' \in [Numbers -> Numbers \cup {0}]
    BY <1>3, Deleted DEF CloseMessage
  <2> QED BY <1>0, <1>3, <2>1, <2>2 DEF CloseMessage, GoodTable, InputNeverComplete, Rest
<1>4. CASE CloseRow(h)
  <2>1. Hands'
    BY <1>0, <1>4, ReturnStep DEF CloseRow
  <2>2. GoodTable'
    <3>1. CASE UNCHANGED captchas
      BY <1>0, <3>1 DEF GoodTable, InputNeverComplete
    <3> QED BY <1>0, <1>4, <3>1, Deleting DEF CloseRow
  <2> QED BY <1>0, <1>4, <2>1, <2>2 DEF CloseRow, Rest
<1>5. CASE StorePress(h)
  <2>1. Hands'
    BY <1>0, <1>5, ReturnStep DEF StorePress
  <2>2. Row(h) \in Captcha /\ Len(Row(h).input) < Length
    BY <1>0, <1>5, HasRow DEF StorePress, RowsInHand, Sound, At, Row
  <2>3. GoodTable'
    <3>1. CASE UNCHANGED captchas
      BY <1>0, <3>1 DEF GoodTable, InputNeverComplete
    <3> QED BY <1>0, <1>5, <2>2, <3>1, Upserting DEF StorePress
  <2> QED BY <1>0, <1>5, <2>1, <2>3 DEF StorePress, Rest
<1>6. CASE DropRow(h)
  <2>1. Hands'
    <3>1. CASE Return(h)
      BY <1>0, <3>1, ReturnStep
    <3> QED BY <1>1, <1>6, <3>1 DEF DropRow, At
  <2>2. GoodTable'
    <3>1. CASE UNCHANGED captchas
      BY <1>0, <3>1 DEF GoodTable, InputNeverComplete
    <3> QED BY <1>0, <1>6, <3>1, Deleting DEF DropRow
  <2> QED BY <1>0, <1>6, <2>1, <2>2 DEF DropRow, Rest
<1>7. CASE DropMessage(h)
  <2>1. Hands'
    BY <1>0, <1>7, ReturnStep DEF DropMessage
  <2>2. chat' \in [Numbers -> Numbers \cup {0}]
    BY <1>7, Deleted DEF DropMessage
  <2>3. handler[h].msg \in Numbers \cup {0}
    BY <1>0, <1>7, Busy DEF DropMessage, At, BusyStates
  <2> QED BY <1>0, <1>7, <2>1, <2>2, <2>3 DEF DropMessage, GoodTable, InputNeverComplete, Rest
<1> QED BY <1>2, <1>3, <1>4, <1>5, <1>6, <1>7

(* The steps of the cleaner, of time, and the arrival of updates.          *)
LEMMA OtherSteps ==
  ASSUME TypeOK, FlowInv,
         \/ Clean \/ DeadlinePasses \/ Crash
         \/ \E h \in Handlers, u \in Users :
              \/ MessageArrives(h, u)
              \/ \E m \in Numbers, button \in Buttons : Press(h, u, m, button)
  PROVE  GoodTable' /\ Rest' /\ Hands'
<1>0. GoodTable /\ Rest /\ Hands /\ RowsInHand
  BY Parts DEF Hands
<1>1. ASSUME UNCHANGED handler PROVE Hands'
  BY <1>0, <1>1 DEF Hands, RowsInHand
<1>2. ASSUME UNCHANGED captchas PROVE GoodTable'
  BY <1>0, <1>2 DEF GoodTable, InputNeverComplete
<1>3. CASE CleanerTick
  <2>1. cleaner' \in [todo : SUBSET Captcha, deleted : Captcha \cup {NoRow}]
    BY <1>0, <1>3 DEF CleanerTick, GetOutdatedCaptchas, GoodTable, Rest
  <2> QED BY <1>0, <1>1, <1>2, <1>3, <2>1 DEF CleanerTick, Rest
<1>4. CASE CleanerDeleteRow
  <2>1. cleaner' \in [todo : SUBSET Captcha, deleted : Captcha \cup {NoRow}]
    BY <1>0, <1>4 DEF CleanerDeleteRow, Rest
  <2>2. GoodTable'
    BY <1>0, <1>2, <1>4, Deleting DEF CleanerDeleteRow
  <2> QED BY <1>0, <1>1, <1>4, <2>1, <2>2 DEF CleanerDeleteRow, Rest
<1>5. CASE CleanerDeleteMessage
  <2>1. cleaner' \in [todo : SUBSET Captcha, deleted : Captcha \cup {NoRow}]
    BY <1>0, <1>5 DEF CleanerDeleteMessage, Rest
  <2>2. chat' \in [Numbers -> Numbers \cup {0}]
    BY <1>5, Deleted DEF CleanerDeleteMessage
  <2> QED BY <1>0, <1>1, <1>2, <1>5, <2>1, <2>2 DEF CleanerDeleteMessage, Rest
<1>6. CASE DeadlinePasses
  <2>1. passed' \in 0..generated' /\ generated' = generated
    BY <1>0, <1>6, NumbersAreNat DEF DeadlinePasses, Rest
  <2> QED BY <1>0, <1>1, <1>2, <1>6, <2>1 DEF DeadlinePasses, Rest
<1>7. CASE Crash
  <2>1. Hands'
    BY <1>7, IdleIsSound DEF Crash, Hands, RowsInHand
  <2> QED BY <1>0, <1>2, <1>7, <2>1 DEF Crash, Rest
<1>8. ASSUME NEW h \in Handlers, NEW u \in Users, MessageArrives(h, u)
      PROVE  GoodTable' /\ Rest' /\ Hands'
  <2> DEFINE new == [Idle EXCEPT !.pc = "lookup", !.user = u]
  <2>1. new \in HandlerStates /\ Sound(new)
    BY DEF Idle, HandlerStates, AtMessage, Sound
  <2>2. Hands'
    BY <1>0, <1>8, <2>1, HandlerStep DEF MessageArrives
  <2> QED BY <1>0, <1>2, <1>8, <2>2 DEF MessageArrives, Rest
<1>9. ASSUME NEW h \in Handlers, NEW u \in Users, NEW m \in Numbers,
             NEW button \in Buttons, Press(h, u, m, button)
      PROVE  GoodTable' /\ Rest' /\ Hands'
  <2> DEFINE new == [pc |-> "find", user |-> u, msg |-> m, button |-> button, row |-> NoRow]
  <2>1. new \in HandlerStates /\ Sound(new)
    BY DEF HandlerStates, AtPress, Sound
  <2>2. Hands'
    BY <1>0, <1>9, <2>1, HandlerStep DEF Press
  <2> QED BY <1>0, <1>2, <1>9, <2>2 DEF Press, Rest
<1> QED BY <1>3, <1>4, <1>5, <1>6, <1>7, <1>8, <1>9 DEF Clean

(* Every step keeps the invariant.                                         *)
LEMMA InvStep == TypeOK /\ FlowInv /\ [Next]_vars => TypeOK' /\ FlowInv'
<1> SUFFICES ASSUME TypeOK, FlowInv, [Next]_vars PROVE TypeOK' /\ FlowInv'
  OBVIOUS
<1>1. CASE UNCHANGED vars
  BY <1>1 DEF vars, TypeOK, FlowInv, InputNeverComplete, RowsInHand
<1>2. CASE Next
  <2>1. GoodTable' /\ Rest' /\ Hands'
    BY <1>2, MessageSteps, PressSteps, ClosingSteps, OtherSteps DEF Next, Continue
  <2> QED BY <2>1 DEF TypeOK, FlowInv, GoodTable, Rest, Hands
<1> QED BY <1>1, <1>2

(* Every variable of every reachable state has its type.                   *)
THEOREM TypeCorrect == Spec => []TypeOK
<1>1. TypeOK /\ FlowInv => TypeOK
  OBVIOUS
<1> QED BY <1>1, InvInit, InvStep, PTL DEF Spec

(* However presses, messages, the cleaner, faults and restarts interleave, *)
(* no captcha is stored with all its digits.                               *)
THEOREM NeverComplete == Spec => []InputNeverComplete
<1>1. FlowInv => InputNeverComplete
  BY DEF FlowInv
<1> QED BY <1>1, InvInit, InvStep, PTL DEF Spec

(* Users become verified by a press of their own, under the message of     *)
(* their own captcha, that completes its solution, and in no other way.    *)
THEOREM OnlyBySolving == Spec => VerifiedBySolving
<1>1. TypeOK /\ FlowInv /\ [Next]_vars =>
        [\A u \in verified' \ verified :
           \E h \in Handlers :
             /\ handler[h].user = u /\ Row(h).user = u /\ Row(h).msg = handler[h].msg
             /\ Row(h).input = [i \in 1..Length |-> "right"]]_vars
  <2> SUFFICES ASSUME TypeOK, FlowInv, [Next]_vars,
                      NEW u \in verified' \ verified
               PROVE  \E h \in Handlers :
                        /\ handler[h].user = u /\ Row(h).user = u
                        /\ Row(h).msg = handler[h].msg
                        /\ Row(h).input = [i \in 1..Length |-> "right"]
    OBVIOUS
  <2>1. PICK h \in Handlers : VerifySolver(h)
    BY DEF Next, Continue, MessageArrives, LookupForMessage, SendCaptcha, SaveCaptcha,
           Press, LookupForPress, CheckExpired, CheckMessage, ApplyButton, EditPhoto,
           ValidateInput, StorePress, CloseMessage, CloseRow, DropRow, DropMessage,
           Clean, CleanerTick, CleanerDeleteRow, CleanerDeleteMessage, DeadlinePasses,
           Crash, vars
  <2>2. At(h, "verify") /\ u = Row(h).user
    BY <2>1 DEF VerifySolver
  <2> QED BY <2>2 DEF FlowInv, RowsInHand, Sound, At, Row
<1> QED BY <1>1, InvInit, InvStep, PTL DEF Spec, VerifiedBySolving

(* What the steps below rely on holds in every reachable state.            *)
THEOREM FlowIsSound == Spec => []FlowInv
<1>1. TypeOK /\ FlowInv => FlowInv
  OBVIOUS
<1> QED BY <1>1, InvInit, InvStep, PTL DEF Spec

-----------------------------------------------------------------------------
(* KeysInv is inductive.                                                   *)

(* It holds of an empty table.                                             *)
LEMMA KeysInit == Init => KeysInv
BY DEF Init, KeysInv, Rows, Adding, Copying, Idle

(* A step that brings in no new pair of an id and a message, and no new    *)
(* message to be added, keeps it, if the table's ids stay unique.          *)
LEMMA KeysKept ==
  ASSUME TypeOK, KeysInv,
         inserted' \in Nat, inserted <= inserted',
         generated' \in Nat, generated <= generated',
         \A r \in Rows' : \E s \in Rows : s.id = r.id /\ s.msg = r.msg,
         \A r1, r2 \in captchas' : r1.id = r2.id => r1 = r2,
         \A h \in Adding' : h \in Adding /\ Row(h)'.msg = Row(h).msg
  PROVE  KeysInv'
<1>0. inserted \in Nat /\ generated \in Nat
  BY NumbersAreNat DEF TypeOK
<1>1. ASSUME NEW r \in Rows' PROVE r.id \in 1..inserted' /\ r.msg \in 1..generated'
  <2>1. PICK s \in Rows : s.id = r.id /\ s.msg = r.msg
    OBVIOUS
  <2>2. s.id \in 1..inserted /\ s.msg \in 1..generated
    BY DEF KeysInv
  <2> QED BY <1>0, <2>1, <2>2
<1>2. ASSUME NEW r1 \in Rows', NEW r2 \in Rows' PROVE r1.id = r2.id <=> r1.msg = r2.msg
  <2>1. PICK s1 \in Rows : s1.id = r1.id /\ s1.msg = r1.msg
    OBVIOUS
  <2>2. PICK s2 \in Rows : s2.id = r2.id /\ s2.msg = r2.msg
    OBVIOUS
  <2> QED BY <2>1, <2>2 DEF KeysInv
<1>3. ASSUME NEW h \in Adding'
      PROVE  /\ Row(h)'.msg \in 1..generated'
             /\ \A r \in Rows' : r.msg # Row(h)'.msg
             /\ \A g \in Adding' : Row(g)'.msg = Row(h)'.msg => g = h
  <2>1. /\ h \in Adding /\ Row(h)'.msg = Row(h).msg
        /\ \A g \in Adding' : g \in Adding /\ Row(g)'.msg = Row(g).msg
    OBVIOUS
  <2>2. /\ Row(h).msg \in 1..generated
        /\ \A r \in Rows : r.msg # Row(h).msg
        /\ \A g \in Adding : Row(g).msg = Row(h).msg => g = h
    BY <2>1 DEF KeysInv
  <2>3. \A r \in Rows' : r.msg # Row(h)'.msg
    BY <2>1, <2>2
  <2> QED BY <1>0, <2>1, <2>2, <2>3
<1> QED BY <1>1, <1>2, <1>3 DEF KeysInv

(* One handler takes a step that adds nothing to the table: what it holds  *)
(* after it has the keys of something that was there.                      *)
LEMMA KeysOfHandler ==
  ASSUME TypeOK, KeysInv, NEW h \in Handlers, NEW new,
         handler' = [handler EXCEPT ![h] = new],
         captchas' \subseteq captchas, inserted' = inserted,
         generated' \in Nat, generated <= generated',
         new.pc \in {"send", "save"} => h \in Adding /\ new.row.msg = Row(h).msg,
         \/ new.pc \in {"idle", "lookup", "find", "send", "save"}
         \/ \E s \in Rows : s.id = new.row.id /\ s.msg = new.row.msg
  PROVE  KeysInv'
<1>1. inserted' \in Nat /\ inserted <= inserted'
  BY DEF TypeOK
<1>2. /\ handler'[h] = new
      /\ \A g \in Handlers \ {h} : handler'[g] = handler[g]
  BY DEF TypeOK
<1>3. ASSUME NEW r \in Rows' PROVE \E s \in Rows : s.id = r.id /\ s.msg = r.msg
  <2>1. CASE r \in captchas'
    BY <2>1 DEF Rows
  <2>2. CASE r \notin captchas'
    <3>1. PICK g \in Handlers : r = handler'[g].row
                              /\ handler'[g].pc \notin {"idle", "lookup", "find", "send", "save"}
      BY <2>2 DEF Rows, Copying, Row
    <3>2. CASE g = h
      BY <1>2, <3>1, <3>2
    <3>3. CASE g # h
      <4>1. handler'[g] = handler[g]
        BY <1>2, <3>3
      <4>2. g \in Copying /\ r = Row(g)
        BY <3>1, <4>1 DEF Copying, Row
      <4>3. r \in Rows
        BY <4>2 DEF Rows
      <4> QED BY <4>3
    <3> QED BY <3>2, <3>3
  <2> QED BY <2>1, <2>2
<1>4. \A r1, r2 \in captchas' : r1.id = r2.id => r1 = r2
  BY DEF KeysInv
<1>5. \A g \in Adding' : g \in Adding /\ Row(g)'.msg = Row(g).msg
  BY <1>2 DEF Adding, Row
<1> QED BY <1>1, <1>3, <1>4, <1>5, KeysKept

(* A handler that goes on with the row it has, or returns.                 *)
LEMMA KeysOfRow ==
  ASSUME TypeOK, KeysInv, NEW h \in Handlers,
         captchas' \subseteq captchas, inserted' = inserted, generated' = generated,
         \/ Return(h)
         \/ At(h, "send") /\ Goto(h, "save")
         \/ h \in Copying /\ \E pc \in AtPress \ {"find"} : Goto(h, pc)
  PROVE  KeysInv'
<1>0. generated' \in Nat /\ generated <= generated' /\ handler \in [Handlers -> HandlerStates]
  BY NumbersAreNat DEF TypeOK
<1>1. CASE Return(h)
  BY <1>0, <1>1, KeysOfHandler DEF Return, Idle
<1>2. CASE At(h, "send") /\ Goto(h, "save")
  <2> DEFINE new == [handler[h] EXCEPT !.pc = "save"]
  <2>1. handler[h] \in HandlerStates
    BY <1>0
  <2>2. new.pc = "save" /\ new.row = Row(h)
    BY <2>1 DEF HandlerStates, Idle, Row
  <2>3. h \in Adding /\ handler' = [handler EXCEPT ![h] = new]
    BY <1>2 DEF Adding, At, Goto
  <2> HIDE DEF new
  <2> QED BY <1>0, <2>2, <2>3, KeysOfHandler
<1>3. ASSUME h \in Copying, NEW pc \in AtPress \ {"find"}, Goto(h, pc)
      PROVE  KeysInv'
  <2> DEFINE new == [handler[h] EXCEPT !.pc = pc]
  <2>1. handler[h] \in HandlerStates
    BY <1>0
  <2>2. new.pc = pc /\ new.row = Row(h)
    BY <2>1 DEF HandlerStates, Idle, Row
  <2>3. Row(h) \in Rows /\ handler' = [handler EXCEPT ![h] = new]
    BY <1>3 DEF Rows, Goto
  <2>4. pc \notin {"send", "save"}
    BY DEF AtPress
  <2> HIDE DEF new
  <2> QED BY <1>0, <2>2, <2>3, <2>4, KeysOfHandler
<1> QED BY <1>1, <1>2, <1>3

(* A handler that goes on with a row whose keys are not new.               *)
LEMMA KeysOfNewRow ==
  ASSUME TypeOK, KeysInv, NEW h \in Handlers, NEW pc \in AtPress \ {"find"}, NEW row,
         NEW s \in Rows, s.id = row.id, s.msg = row.msg,
         captchas' = captchas, inserted' = inserted,
         generated' \in Nat, generated <= generated',
         GotoWith(h, pc, row) \/ Pressed(h, pc, row)
  PROVE  KeysInv'
<1>0. handler[h] \in HandlerStates /\ pc \notin {"send", "save"} /\ captchas' \subseteq captchas
  BY DEF TypeOK, AtPress
<1>1. CASE GotoWith(h, pc, row)
  <2> DEFINE new == [handler[h] EXCEPT !.pc = pc, !.row = row]
  <2>1. new.pc = pc /\ new.row = row
    BY <1>0 DEF HandlerStates, Idle
  <2>2. handler' = [handler EXCEPT ![h] = new]
    BY <1>1 DEF GotoWith
  <2> HIDE DEF new
  <2> QED BY <1>0, <2>1, <2>2, KeysOfHandler
<1>2. CASE Pressed(h, pc, row)
  <2> DEFINE new == [handler[h] EXCEPT !.pc = pc, !.row = row, !.button = "none"]
  <2>1. new.pc = pc /\ new.row = row
    BY <1>0 DEF HandlerStates, Idle
  <2>2. handler' = [handler EXCEPT ![h] = new]
    BY <1>2 DEF Pressed
  <2> HIDE DEF new
  <2> QED BY <1>0, <2>1, <2>2, KeysOfHandler
<1> QED BY <1>1, <1>2

(* The two steps that make new keys: a message gets a number nobody has,   *)
LEMMA KeysAfterLookup ==
  ASSUME TypeOK, FlowInv, KeysInv, NEW h \in Handlers, LookupForMessage(h)
  PROVE  KeysInv'
<1>0. /\ captchas' = captchas /\ inserted' = inserted
      /\ inserted \in Nat /\ generated \in Nat
      /\ handler \in [Handlers -> HandlerStates] /\ At(h, "lookup")
  BY NumbersAreNat DEF LookupForMessage, TypeOK
<1>1. CASE Return(h) /\ UNCHANGED generated
  BY <1>0, <1>1, KeysOfRow
<1>2. CASE Generate /\ GotoWith(h, "send", Fresh(handler[h].user))
  <2> DEFINE new == [handler[h] EXCEPT !.pc = "send", !.row = Fresh(handler[h].user)]
             m == generated + 1
  <2>1. generated' = m
    BY <1>2, GenerateNext
  <2>2. new.pc = "send" /\ new.row.msg = m
    <3>1. handler[h] \in HandlerStates
      BY <1>0
    <3> QED BY <3>1 DEF HandlerStates, Idle, Fresh, New
  <2>3. handler' = [handler EXCEPT ![h] = new]
    BY <1>2 DEF GotoWith
  <2> HIDE DEF new
  <2>4. handler'[h] = new /\ \A g \in Handlers \ {h} : handler'[g] = handler[g]
    BY <1>0, <2>3
  <2>5. Copying' = Copying /\ Adding' = Adding \cup {h} /\ h \notin Copying
    BY <1>0, <2>2, <2>4 DEF Copying, Adding, At
  <2>6. \A g \in Copying : Row(g)' = Row(g)
    BY <2>4, <2>5 DEF Row, Copying
  <2>7. Rows' = Rows
    BY <1>0, <2>5, <2>6 DEF Rows
  <2>8. h \notin Adding /\ Row(h)'.msg = m /\ \A g \in Adding : Row(g)' = Row(g)
    BY <1>0, <2>2, <2>4 DEF Adding, At, Row
  <2>9. \A r \in Rows : r.id \in 1..inserted' /\ r.msg \in 1..generated' /\ r.msg # m
    <3>1. \A r \in Rows : r.id \in 1..inserted /\ r.msg \in 1..generated
      BY DEF KeysInv
    <3> QED BY <1>0, <2>1, <3>1
  <2>10. \A g \in Adding : /\ Row(g).msg \in 1..generated' /\ Row(g).msg # m
                           /\ \A r \in Rows : r.msg # Row(g).msg
                           /\ \A f \in Adding : Row(f).msg = Row(g).msg => f = g
    <3>1. \A g \in Adding : /\ Row(g).msg \in 1..generated
                            /\ \A r \in Rows : r.msg # Row(g).msg
                            /\ \A f \in Adding : Row(f).msg = Row(g).msg => f = g
      BY DEF KeysInv
    <3> QED BY <1>0, <2>1, <3>1
  <2>11. \A g \in Adding' : /\ Row(g)'.msg \in 1..generated'
                            /\ \A r \in Rows' : r.msg # Row(g)'.msg
                            /\ \A f \in Adding' : Row(f)'.msg = Row(g)'.msg => f = g
    <3>1. m \in 1..generated'
      BY <1>0, <2>1
    <3> HIDE DEF m
    <3> QED BY <2>5, <2>7, <2>8, <2>9, <2>10, <3>1
  <2>12. /\ \A r1, r2 \in Rows' : r1.id = r2.id <=> r1.msg = r2.msg
         /\ \A r1, r2 \in captchas' : r1.id = r2.id => r1 = r2
    BY <1>0, <2>7 DEF KeysInv
  <2> QED BY <2>7, <2>9, <2>11, <2>12 DEF KeysInv
<1> QED BY <1>1, <1>2 DEF LookupForMessage

(* and its row an id no row has had.                                       *)
LEMMA KeysAfterSave ==
  ASSUME TypeOK, FlowInv, KeysInv, NEW h \in Handlers, SaveCaptcha(h)
  PROVE  KeysInv'
<1>0. /\ generated' = generated /\ Return(h) /\ At(h, "save")
      /\ inserted \in Nat /\ generated \in Nat
      /\ handler \in [Handlers -> HandlerStates]
  BY NumbersAreNat DEF SaveCaptcha, TypeOK
<1>1. CASE UNCHANGED <<captchas, inserted>>
  BY <1>0, <1>1, KeysOfRow
<1>2. CASE /\ inserted' = inserted + 1
           /\ captchas' = captchas \cup {[Row(h) EXCEPT !.id = inserted + 1]}
  <2> DEFINE i == inserted + 1
             m == Row(h).msg
             new == [Row(h) EXCEPT !.id = inserted + 1]
  <2>1. Row(h) \in Captcha
    BY <1>0, HasRow DEF FlowInv, At
  <2>2. new.id = i /\ new.msg = m
    BY <2>1 DEF Captcha
  <2>3. captchas' = captchas \cup {new} /\ inserted' = i /\ i \in Nat /\ inserted < i
    BY <1>0, <1>2
  <2> HIDE DEF new
  <2>4. handler'[h] = Idle /\ \A g \in Handlers \ {h} : handler'[g] = handler[g]
    BY <1>0 DEF Return
  <2>5. Copying' = Copying /\ Adding' = Adding \ {h} /\ h \notin Copying /\ h \in Adding
    BY <1>0, <2>4 DEF Copying, Adding, At, Idle
  <2>6. \A g \in Copying \cup Adding' : Row(g)' = Row(g)
    BY <2>4, <2>5 DEF Row, Copying, Adding
  <2>7. Rows' = Rows \cup {new}
    BY <2>3, <2>5, <2>6 DEF Rows
  <2>8. \A r \in Rows : /\ r.id \in 1..inserted' /\ r.id # i
                       /\ r.msg \in 1..generated /\ r.msg # m
    <3>1. \A r \in Rows : r.id \in 1..inserted /\ r.msg \in 1..generated
      BY DEF KeysInv
    <3>2. \A r \in Rows : r.msg # m
      BY <2>5 DEF KeysInv
    <3> QED BY <1>0, <2>3, <3>1, <3>2
  <2>9. m \in 1..generated /\ i \in 1..inserted'
    BY <1>0, <2>3, <2>5 DEF KeysInv
  <2> HIDE DEF i, m
  <2>10. \A r \in Rows' : r.id \in 1..inserted' /\ r.msg \in 1..generated'
    BY <1>0, <2>2, <2>7, <2>8, <2>9
  <2>11. \A r1, r2 \in Rows' : r1.id = r2.id <=> r1.msg = r2.msg
    <3>1. \A r1, r2 \in Rows : r1.id = r2.id <=> r1.msg = r2.msg
      BY DEF KeysInv
    <3> QED BY <2>2, <2>7, <2>8, <3>1
  <2>12. \A r1, r2 \in captchas' : r1.id = r2.id => r1 = r2
    <3>1. \A r1, r2 \in captchas : r1.id = r2.id => r1 = r2
      BY DEF KeysInv
    <3>2. captchas \subseteq Rows
      BY DEF Rows
    <3> QED BY <2>2, <2>3, <2>8, <3>1, <3>2
  <2>13. \A g \in Adding' : /\ Row(g).msg \in 1..generated
                            /\ \A r \in Rows : r.msg # Row(g).msg
                            /\ \A f \in Adding : Row(f).msg = Row(g).msg => f = g
    BY <2>5 DEF KeysInv
  <2>14. \A g \in Adding' : m # Row(g).msg
    BY <2>5, <2>13 DEF m
  <2>15. \A g \in Adding' : /\ Row(g)'.msg \in 1..generated'
                            /\ \A r \in Rows' : r.msg # Row(g)'.msg
                            /\ \A f \in Adding' : Row(f)'.msg = Row(g)'.msg => f = g
    BY <1>0, <2>2, <2>5, <2>6, <2>7, <2>13, <2>14
  <2> QED BY <2>10, <2>11, <2>12, <2>15 DEF KeysInv
<1> QED BY <1>1, <1>2 DEF SaveCaptcha

(* The other steps of a handler work with the row it has.                  *)
LEMMA KeysAfterContinue ==
  ASSUME TypeOK, FlowInv, KeysInv, NEW h \in Handlers, Continue(h)
  PROVE  KeysInv'
<1>0. handler[h] \in HandlerStates /\ generated \in Nat /\ inserted \in Nat
  BY NumbersAreNat DEF TypeOK
<1>1. CASE LookupForMessage(h)
  BY <1>1, KeysAfterLookup
<1>2. CASE SaveCaptcha(h)
  BY <1>2, KeysAfterSave
<1>3. CASE SendCaptcha(h)
  BY <1>3, KeysOfRow DEF SendCaptcha
<1>4. CASE LookupForPress(h)
  <2>1. UNCHANGED <<captchas, inserted, generated>>
    BY <1>4 DEF LookupForPress
  <2>2. CASE Return(h)
    BY <2>1, <2>2, KeysOfRow
  <2>3. ASSUME NEW row \in GetCaptchaForUserID(handler[h].user), GotoWith(h, "check", row)
        PROVE  KeysInv'
    <3>1. row \in Rows /\ "check" \in AtPress \ {"find"}
      BY DEF GetCaptchaForUserID, LiveRows, Rows, AtPress
    <3> QED BY <1>0, <2>1, <2>3, <3>1, KeysOfNewRow
  <2> QED BY <1>4, <2>2, <2>3 DEF LookupForPress
<1>5. CASE ~At(h, "idle") /\ ~At(h, "lookup") /\ ~At(h, "find") /\ ~At(h, "send") /\ ~At(h, "save")
  <2>1. h \in Copying /\ Row(h) \in Rows /\ Row(h) \in Captcha
    BY <1>5, HasRow DEF Copying, Rows, At, FlowInv
  <2>2. CASE CheckExpired(h) \/ VerifySolver(h) \/ CloseMessage(h) \/ CloseRow(h)
             \/ CheckMessage(h) \/ DropRow(h) \/ DropMessage(h) \/ EditPhoto(h)
    <3>1. captchas' \subseteq captchas /\ UNCHANGED <<inserted, generated>>
      BY <2>2 DEF CheckExpired, VerifySolver, CloseMessage, CloseRow, CheckMessage, DropRow,
                  DropMessage, EditPhoto, DeleteCaptchaByID, Without
    <3>2. Return(h) \/ \E pc \in AtPress \ {"find"} : Goto(h, pc)
      BY <2>2 DEF CheckExpired, VerifySolver, CloseMessage, CloseRow, CheckMessage, DropRow,
                  DropMessage, EditPhoto, AtPress
    <3> QED BY <2>1, <3>1, <3>2, KeysOfRow
  <2>3. CASE ApplyButton(h)
    <3>1. UNCHANGED <<captchas, inserted>> /\ "edit" \in AtPress \ {"find"}
                                          /\ "validate" \in AtPress \ {"find"}
      BY <2>3 DEF ApplyButton, AtPress
    <3>2. CASE Return(h) /\ UNCHANGED generated
      BY <3>1, <3>2, KeysOfRow
    <3>3. CASE Generate /\ Pressed(h, "edit", Refreshed(Row(h)))
      <4>1. generated' = generated + 1
        BY <3>3, GenerateNext
      <4>2. Refreshed(Row(h)).id = Row(h).id /\ Refreshed(Row(h)).msg = Row(h).msg
        BY DEF Refreshed, New
      <4>3. generated' \in Nat /\ generated <= generated'
        BY <1>0, <4>1
      <4> QED BY <2>1, <3>1, <3>3, <4>2, <4>3, KeysOfNewRow
    <3>4. ASSUME UNCHANGED generated, NEW s,
                 Pressed(h, "validate", [Row(h) EXCEPT !.input = s])
          PROVE  KeysInv'
      <4> DEFINE new == [Row(h) EXCEPT !.input = s]
      <4>1. new.id = Row(h).id /\ new.msg = Row(h).msg
        BY <2>1 DEF Captcha
      <4>2. Pressed(h, "validate", new)
        BY <3>4
      <4>3. generated' \in Nat /\ generated <= generated'
        BY <1>0, <3>4
      <4> HIDE DEF new
      <4> QED BY <2>1, <3>1, <4>1, <4>2, <4>3, KeysOfNewRow
    <3> QED BY <2>3, <3>2, <3>3, <3>4 DEF ApplyButton
  <2>4. CASE ValidateInput(h)
    <3>1. UNCHANGED <<captchas, inserted, generated>>
      BY <2>4 DEF ValidateInput
    <3>2. CASE \E pc \in {"verify", "store"} : Goto(h, pc)
      <4>1. \E pc \in AtPress \ {"find"} : Goto(h, pc)
        BY <3>2 DEF AtPress
      <4> QED BY <2>1, <3>1, <4>1, KeysOfRow
    <3>3. CASE GotoWith(h, "store", [Row(h) EXCEPT !.input = <<>>])
      <4> DEFINE new == [Row(h) EXCEPT !.input = <<>>]
      <4>1. new.id = Row(h).id /\ new.msg = Row(h).msg
        BY <2>1 DEF Captcha
      <4>2. GotoWith(h, "store", new) /\ "store" \in AtPress \ {"find"}
        BY <3>3 DEF AtPress
      <4>3. generated' \in Nat /\ generated <= generated'
        BY <1>0, <3>1
      <4> HIDE DEF new
      <4> QED BY <2>1, <3>1, <4>1, <4>2, <4>3, KeysOfNewRow
    <3> QED BY <2>4, <3>2, <3>3 DEF ValidateInput
  <2>5. CASE StorePress(h)
    <3>1. Return(h) /\ UNCHANGED <<inserted, generated>>
      BY <2>5 DEF StorePress
    <3>2. CASE UNCHANGED captchas
      BY <3>1, <3>2, KeysOfRow
    <3>3. CASE UpsertCaptcha(Row(h))
      <4>1. captchas' = Without(Row(h).id) \cup {Row(h)}
        BY <3>3 DEF UpsertCaptcha
      <4>2. Copying' \subseteq Copying /\ Adding' \subseteq Adding
        BY <3>1 DEF Return, Copying, Adding, Idle, TypeOK
      <4>3. \A g \in Copying' \cup Adding' : Row(g)' = Row(g)
        BY <3>1 DEF Return, Copying, Adding, Idle, Row, TypeOK
      <4>4. Rows' \subseteq Rows
        BY <2>1, <4>1, <4>2, <4>3 DEF Rows, Without
      <4>5. \A r1, r2 \in captchas' : r1.id = r2.id => r1 = r2
        <5>1. \A r1, r2 \in captchas : r1.id = r2.id => r1 = r2
          BY DEF KeysInv
        <5> QED BY <4>1, <5>1 DEF Without
      <4>6. \A r \in Rows' : \E s \in Rows : s.id = r.id /\ s.msg = r.msg
        BY <4>4
      <4>7. \A g \in Adding' : g \in Adding /\ Row(g)'.msg = Row(g).msg
        BY <4>2, <4>3
      <4>8. /\ inserted' \in Nat /\ inserted <= inserted'
            /\ generated' \in Nat /\ generated <= generated'
        BY <1>0, <3>1
      <4> QED BY <4>5, <4>6, <4>7, <4>8, KeysKept
    <3> QED BY <2>5, <3>2, <3>3 DEF StorePress
  <2>6. \/ CheckExpired(h) \/ VerifySolver(h) \/ CloseMessage(h) \/ CloseRow(h)
        \/ CheckMessage(h) \/ DropRow(h) \/ DropMessage(h) \/ EditPhoto(h)
        \/ ApplyButton(h) \/ ValidateInput(h) \/ StorePress(h)
    BY <1>5 DEF Continue, LookupForMessage, SaveCaptcha, SendCaptcha, LookupForPress
  <2> QED BY <2>2, <2>3, <2>4, <2>5, <2>6
<1>6. LookupForMessage(h) \/ SaveCaptcha(h) \/ SendCaptcha(h) \/ LookupForPress(h)
      \/ (~At(h, "idle") /\ ~At(h, "lookup") /\ ~At(h, "find") /\ ~At(h, "send") /\ ~At(h, "save"))
  BY DEF Continue, At, CheckExpired, CheckMessage, ApplyButton, EditPhoto, ValidateInput,
         StorePress, VerifySolver, CloseMessage, CloseRow, DropRow, DropMessage
<1> QED BY <1>1, <1>2, <1>3, <1>4, <1>5, <1>6

(* Nothing else makes keys.                                                *)
LEMMA KeysStep == TypeOK /\ FlowInv /\ KeysInv /\ [Next]_vars => KeysInv'
<1> SUFFICES ASSUME TypeOK, FlowInv, KeysInv, [Next]_vars PROVE KeysInv'
  OBVIOUS
<1>0. generated \in Nat /\ inserted \in Nat /\ handler \in [Handlers -> HandlerStates]
  BY NumbersAreNat DEF TypeOK
<1>1. ASSUME UNCHANGED <<inserted, generated>>, captchas' \subseteq captchas,
             \A h \in Handlers : handler'[h] = handler[h] \/ handler'[h] = Idle
      PROVE  KeysInv'
  <2>1. Copying' \subseteq Copying /\ Adding' \subseteq Adding
    BY <1>1 DEF Copying, Adding, Idle
  <2>2. \A g \in Copying' \cup Adding' : Row(g)' = Row(g)
    BY <1>1 DEF Copying, Adding, Idle, Row
  <2>3. Rows' \subseteq Rows
    BY <1>1, <2>1, <2>2 DEF Rows
  <2>4. \A r \in Rows' : \E s \in Rows : s.id = r.id /\ s.msg = r.msg
    BY <2>3
  <2>5. \A r1, r2 \in captchas' : r1.id = r2.id => r1 = r2
    BY <1>1 DEF KeysInv
  <2>6. \A g \in Adding' : g \in Adding /\ Row(g)'.msg = Row(g).msg
    BY <2>1, <2>2
  <2>7. /\ inserted' \in Nat /\ inserted <= inserted'
        /\ generated' \in Nat /\ generated <= generated'
    BY <1>0, <1>1
  <2> QED BY <2>4, <2>5, <2>6, <2>7, KeysKept
<1>2. CASE UNCHANGED vars \/ Clean \/ DeadlinePasses \/ Crash
  <2>1. UNCHANGED <<inserted, generated>> /\ captchas' \subseteq captchas
    BY <1>2 DEF vars, Clean, CleanerTick, CleanerDeleteRow, CleanerDeleteMessage,
                DeleteCaptchaByID, Without, DeadlinePasses, Crash
  <2>2. \A h \in Handlers : handler'[h] = handler[h] \/ handler'[h] = Idle
    BY <1>2 DEF vars, Clean, CleanerTick, CleanerDeleteRow, CleanerDeleteMessage,
                DeadlinePasses, Crash
  <2> QED BY <1>1, <2>1, <2>2
<1>3. ASSUME NEW h \in Handlers, NEW u \in Users, MessageArrives(h, u)
      PROVE  KeysInv'
  <2> DEFINE new == [Idle EXCEPT !.pc = "lookup", !.user = u]
  <2>1. new.pc = "lookup" /\ handler' = [handler EXCEPT ![h] = new]
    BY <1>3 DEF MessageArrives, Idle
  <2>2. captchas' \subseteq captchas /\ UNCHANGED <<inserted, generated>>
    BY <1>3 DEF MessageArrives
  <2>3. generated' \in Nat /\ generated <= generated'
    BY <1>0, <2>2
  <2> HIDE DEF new
  <2> QED BY <2>1, <2>2, <2>3, KeysOfHandler
<1>4. ASSUME NEW h \in Handlers, NEW u \in Users, NEW m \in Numbers,
             NEW button \in Buttons, Press(h, u, m, button)
      PROVE  KeysInv'
  <2> DEFINE new == [pc |-> "find", user |-> u, msg |-> m, button |-> button, row |-> NoRow]
  <2>1. new.pc = "find" /\ handler' = [handler EXCEPT ![h] = new]
    BY <1>4 DEF Press
  <2>2. captchas' \subseteq captchas /\ UNCHANGED <<inserted, generated>>
    BY <1>4 DEF Press
  <2>3. generated' \in Nat /\ generated <= generated'
    BY <1>0, <2>2
  <2> HIDE DEF new
  <2> QED BY <2>1, <2>2, <2>3, KeysOfHandler
<1> QED BY <1>2, <1>3, <1>4, KeysAfterContinue DEF Next

(* With any number of handlers, lost writes and restarts, presses that put *)
(* deleted rows back never leave two rows for one message or one id.       *)
THEOREM RowsStayDistinct == Spec => []RowsAreDistinct
<1>1. KeysInv => RowsAreDistinct
  <2>1. captchas \subseteq Rows
    BY DEF Rows
  <2> QED BY <2>1 DEF KeysInv, RowsAreDistinct
<1> QED BY <1>1, InvInit, InvStep, KeysInit, KeysStep, PTL DEF Spec

-----------------------------------------------------------------------------
(* What one step means for the handlers, in the terms the invariants of    *)
(* updates handled one after the other are stated in.                      *)

Kin(r, s) == r.id = s.id /\ r.user = s.user /\ r.msg = s.msg
Same(r, s) == Kin(r, s) /\ r.code = s.code /\ r.deadline = s.deadline

Others(h) == \A g \in Handlers \ {h} : handler'[g] = handler[g]

(* The handler goes on from one statement to the next with a row.          *)
Moves(h, from, to, row) ==
  /\ Others(h)
  /\ handler[h].pc = from /\ handler'[h].pc = to /\ Row(h)' = row
  /\ handler'[h].user = handler[h].user /\ handler'[h].msg = handler[h].msg

(* Goto, GotoWith and Pressed move one handler and leave it its user and   *)
(* its message.                                                            *)
LEMMA Moving ==
  ASSUME TypeOK, NEW h \in Handlers, NEW pc, NEW row,
         GotoWith(h, pc, row) \/ Pressed(h, pc, row) \/ (Goto(h, pc) /\ row = Row(h))
  PROVE  Moves(h, handler[h].pc, pc, row)
<1>1. handler \in [Handlers -> HandlerStates] /\ handler[h] \in HandlerStates
  BY DEF TypeOK
<1>2. handler[h] \in [pc : {"idle"} \cup AtMessage \cup AtPress, user : Users \cup {NoUser},
                      msg : Numbers \cup {0}, button : Buttons \cup {"none"},
                      row : Captcha \cup {NoRow}]
  BY <1>1 DEF HandlerStates, Idle
<1>3. CASE GotoWith(h, pc, row)
  BY <1>1, <1>2, <1>3 DEF GotoWith, Moves, Others, Row
<1>4. CASE Pressed(h, pc, row)
  BY <1>1, <1>2, <1>4 DEF Pressed, Moves, Others, Row
<1>5. CASE Goto(h, pc) /\ row = Row(h)
  BY <1>1, <1>2, <1>5 DEF Goto, Moves, Others, Row
<1> QED BY <1>3, <1>4, <1>5

(* Return leaves the handler idle.                                         *)
LEMMA Returning ==
  ASSUME TypeOK, NEW h \in Handlers, Return(h)
  PROVE  Others(h) /\ handler'[h] = Idle
BY DEF TypeOK, Return, Others

(* The steps of the callback after its query.                              *)
Works(h) ==
  \/ CheckExpired(h) \/ CheckMessage(h) \/ ApplyButton(h) \/ EditPhoto(h)
  \/ ValidateInput(h) \/ StorePress(h) \/ VerifySolver(h) \/ CloseMessage(h)
  \/ CloseRow(h) \/ DropRow(h) \/ DropMessage(h)

Arrow(from, to) ==
  \/ from = "check" /\ to \in {"drop_row", "edit", "validate"}
  \/ from = "edit" /\ to = "validate"
  \/ from = "validate" /\ to \in {"verify", "store"}
  \/ from = "verify" /\ to = "close_message"
  \/ from = "close_message" /\ to = "close_row"
  \/ from = "drop_row" /\ to = "drop_message"

(* In each the handler returns, or goes on with the same captcha, to which *)
(* only a refresh gives another code.                                      *)
Returns(h) == Others(h) /\ handler'[h] = Idle /\ generated' = generated

Proceeds(h) ==
  /\ Arrow(handler[h].pc, handler'[h].pc)
  /\ Moves(h, handler[h].pc, handler'[h].pc, Row(h)')
  /\ Kin(Row(h)', Row(h))
  /\ \/ handler'[h].pc # "edit" /\ Same(Row(h)', Row(h)) /\ generated' = generated
     \/ /\ handler'[h].pc = "edit" /\ generated' = generated + 1
        /\ Row(h)'.code = generated' /\ Row(h)'.deadline = generated'

(* A step along an arrow with a copy of the same row is progress,          *)
LEMMA Going ==
  ASSUME TypeOK, NEW h \in Handlers, NEW to, Arrow(handler[h].pc, to), to # "edit",
         NEW row, Same(row, Row(h)), generated' = generated,
         GotoWith(h, to, row) \/ Pressed(h, to, row) \/ (Goto(h, to) /\ row = Row(h))
  PROVE  Proceeds(h)
<1>1. Moves(h, handler[h].pc, to, row)
  BY Moving
<1>2. Row(h)' = row /\ handler'[h].pc = to
  BY <1>1 DEF Moves
<1> QED BY <1>1, <1>2 DEF Proceeds, Same

(* so is one that does not touch the copy,                                 *)
LEMMA GoingOn ==
  ASSUME TypeOK, NEW h \in Handlers, NEW to, Arrow(handler[h].pc, to), to # "edit",
         generated' = generated, Goto(h, to)
  PROVE  Proceeds(h)
<1>1. Same(Row(h), Row(h))
  BY DEF Same, Kin
<1> QED BY <1>1, Going

(* and the only other step of a press is to return.                        *)
LEMMA GoingBack ==
  ASSUME TypeOK, NEW h \in Handlers, generated' = generated, Return(h)
  PROVE  Returns(h)
BY Returning DEF Returns

(* A button goes on with the looked-up row and another input, or with a    *)
(* refreshed row.                                                          *)
LEMMA ButtonStep ==
  ASSUME TypeOK, NEW h \in Handlers, Row(h) \in Captcha, ApplyButton(h)
  PROVE  Returns(h) \/ Proceeds(h)
<1>1. handler[h].pc = "check" /\ Arrow(handler[h].pc, "validate") /\ Arrow(handler[h].pc, "edit")
  BY DEF ApplyButton, Arrow, At
<1>2. \A s : Same([Row(h) EXCEPT !.input = s], Row(h))
  BY DEF Same, Kin, Captcha
<1>3. ASSUME NEW s, UNCHANGED generated,
             Pressed(h, "validate", [Row(h) EXCEPT !.input = s])
      PROVE  Proceeds(h)
  <2> DEFINE row == [Row(h) EXCEPT !.input = s]
  <2>1. Same(row, Row(h)) /\ Pressed(h, "validate", row)
    BY <1>2, <1>3
  <2> HIDE DEF row
  <2> QED BY <1>1, <1>3, <2>1, Going
<1>4. ASSUME Generate, Pressed(h, "edit", Refreshed(Row(h)))
      PROVE  Proceeds(h)
  <2> DEFINE row == Refreshed(Row(h))
  <2>1. generated' = generated + 1
    BY <1>4 DEF Generate
  <2>2. Kin(row, Row(h)) /\ row.code = generated + 1 /\ row.deadline = generated + 1
    BY DEF Kin, Refreshed, New
  <2>3. Pressed(h, "edit", row)
    BY <1>4
  <2> HIDE DEF row
  <2>4. Moves(h, handler[h].pc, "edit", row)
    BY <2>3, Moving
  <2>5. Row(h)' = row /\ handler'[h].pc = "edit"
    BY <2>4 DEF Moves
  <2> QED BY <1>1, <2>1, <2>2, <2>4, <2>5 DEF Proceeds
<1>5. ASSUME Return(h), UNCHANGED generated PROVE Returns(h)
  BY <1>5, GoingBack
<1> QED BY <1>3, <1>4, <1>5 DEF ApplyButton

(* ValidateInput may clear the input of the copy, and nothing else of it.  *)
LEMMA ValidateStep ==
  ASSUME TypeOK, NEW h \in Handlers, Row(h) \in Captcha, ValidateInput(h)
  PROVE  Proceeds(h)
<1>1. Arrow(handler[h].pc, "verify") /\ Arrow(handler[h].pc, "store") /\ generated' = generated
  BY DEF Arrow, ValidateInput, At
<1>2. ASSUME GotoWith(h, "store", [Row(h) EXCEPT !.input = <<>>])
      PROVE  Proceeds(h)
  <2> DEFINE row == [Row(h) EXCEPT !.input = <<>>]
  <2>1. Same(row, Row(h)) /\ GotoWith(h, "store", row)
    BY <1>2 DEF Same, Kin, Captcha
  <2> HIDE DEF row
  <2> QED BY <1>1, <2>1, Going
<1>3. Goto(h, "verify") => Proceeds(h)
  BY <1>1, GoingOn
<1>4. Goto(h, "store") => Proceeds(h)
  BY <1>1, GoingOn
<1> QED BY <1>2, <1>3, <1>4 DEF ValidateInput

(* A press after its query has a captcha of its user in hand; it returns,  *)
(* or goes on with that captcha or one refreshed from it.                  *)
LEMMA WorkStep ==
  ASSUME TypeOK, FlowInv, NEW h \in Handlers, Works(h)
  PROVE  /\ handler[h].pc \in AtPress \ {"find"}
         /\ h \in Copying /\ Row(h) \in Captcha /\ Row(h).user = handler[h].user
         /\ UNCHANGED inserted
         /\ Returns(h) \/ Proceeds(h)
<1>1. handler[h].pc \in AtPress \ {"find"} /\ UNCHANGED inserted
  BY DEF Works, At, AtPress, CheckExpired, CheckMessage, ApplyButton, EditPhoto, ValidateInput,
         StorePress, VerifySolver, CloseMessage, CloseRow, DropRow, DropMessage
<1>2. h \in Copying /\ Row(h) \in Captcha /\ Row(h).user = handler[h].user
  BY <1>1, HasRow DEF FlowInv, At, AtPress, Copying
<1>3. Returns(h) \/ Proceeds(h)
  <2>1. ASSUME NEW to, Arrow(handler[h].pc, to), to # "edit", generated' = generated, Goto(h, to)
        PROVE  Returns(h) \/ Proceeds(h)
    BY <2>1, GoingOn
  <2>2. ASSUME generated' = generated, Return(h)
        PROVE  Returns(h) \/ Proceeds(h)
    BY <2>2, GoingBack
  <2>3. CASE ApplyButton(h)
    BY <1>2, <2>3, ButtonStep
  <2>4. CASE ValidateInput(h)
    BY <1>2, <2>4, ValidateStep
  <2>5. CASE CheckExpired(h)
    <3>1. Arrow(handler[h].pc, "drop_row") /\ Goto(h, "drop_row") /\ generated' = generated
      BY <2>5 DEF CheckExpired, Arrow, At
    <3> QED BY <2>1, <3>1
  <2>6. CASE CheckMessage(h) \/ StorePress(h) \/ CloseRow(h) \/ DropMessage(h)
    <3>1. Return(h) /\ generated' = generated
      BY <2>6 DEF CheckMessage, StorePress, CloseRow, DropMessage
    <3> QED BY <2>2, <3>1
  <2>7. CASE EditPhoto(h)
    <3>1. /\ Arrow(handler[h].pc, "validate") /\ generated' = generated
          /\ Goto(h, "validate") \/ Return(h)
      BY <2>7 DEF EditPhoto, Arrow, At
    <3> QED BY <2>1, <2>2, <3>1
  <2>8. CASE VerifySolver(h)
    <3>1. Arrow(handler[h].pc, "close_message") /\ Goto(h, "close_message") /\ generated' = generated
      BY <2>8 DEF VerifySolver, Arrow, At
    <3> QED BY <2>1, <3>1
  <2>9. CASE CloseMessage(h)
    <3>1. Arrow(handler[h].pc, "close_row") /\ Goto(h, "close_row") /\ generated' = generated
      BY <2>9 DEF CloseMessage, Arrow, At
    <3> QED BY <2>1, <3>1
  <2>10. CASE DropRow(h)
    <3>1. /\ Arrow(handler[h].pc, "drop_message") /\ generated' = generated
          /\ Goto(h, "drop_message") \/ Return(h)
      BY <2>10 DEF DropRow, Arrow, At
    <3> QED BY <2>1, <2>2, <3>1
  <2> QED BY <2>3, <2>4, <2>5, <2>6, <2>7, <2>8, <2>9, <2>10 DEF Works
<1> QED BY <1>1, <1>2, <1>3

(* The steps that begin one.                                               *)
LEMMA LookupStep ==
  ASSUME TypeOK, FlowInv, NEW h \in Handlers, LookupForMessage(h)
  PROVE  /\ UNCHANGED <<captchas, inserted, passed, chat, verified, cleaner, history>>
         /\ handler[h].pc = "lookup" /\ handler[h].user \in Users
         /\ \/ Returns(h)
            \/ /\ generated' = generated + 1
               /\ Moves(h, "lookup", "send", Fresh(handler[h].user))
               /\ GetCaptchaForUserID(handler[h].user) = {} \/ May("read")
<1>1. handler[h].pc = "lookup" /\ handler[h].user \in Users
  BY Busy DEF LookupForMessage, At, FlowInv
<1>2. CASE Return(h) /\ UNCHANGED generated
  BY <1>1, <1>2, Returning DEF LookupForMessage, Returns
<1>3. CASE /\ Generate /\ GotoWith(h, "send", Fresh(handler[h].user))
           /\ GetCaptchaForUserID(handler[h].user) = {} \/ May("read")
  <2>1. Moves(h, "lookup", "send", Fresh(handler[h].user))
    BY <1>1, <1>3, Moving
  <2> QED BY <1>1, <1>3, <2>1 DEF LookupForMessage, Generate
<1> QED BY <1>2, <1>3 DEF LookupForMessage

(* The query of a press changes no table and copies a captcha of its       *)
(* user.                                                                   *)
LEMMA FindStep ==
  ASSUME TypeOK, FlowInv, NEW h \in Handlers, LookupForPress(h)
  PROVE  /\ UNCHANGED <<captchas, inserted, generated, passed, chat, verified, cleaner, history>>
         /\ handler[h].pc = "find" /\ handler[h].user \in Users
         /\ \/ Returns(h)
            \/ \E row \in GetCaptchaForUserID(handler[h].user) : Moves(h, "find", "check", row)
<1>1. handler[h].pc = "find" /\ handler[h].user \in Users
  BY Busy DEF LookupForPress, At, FlowInv
<1>2. CASE Return(h)
  BY <1>1, <1>2, Returning DEF LookupForPress, Returns
<1>3. ASSUME NEW row \in GetCaptchaForUserID(handler[h].user), GotoWith(h, "check", row)
      PROVE  Moves(h, "find", "check", row)
  BY <1>1, <1>3, Moving
<1> QED BY <1>1, <1>2, <1>3 DEF LookupForPress

(* An update arrives: its handler has no row yet.                          *)
Arrives ==
  \E h \in Handlers, u \in Users :
    \/ MessageArrives(h, u)
    \/ \E m \in Numbers, button \in Buttons : Press(h, u, m, button)

(* An update comes to an idle handler and changes nothing else.            *)
LEMMA ArrivalStep ==
  ASSUME TypeOK, Arrives
  PROVE  /\ UNCHANGED <<captchas, inserted, generated, passed, chat, verified, cleaner, history>>
         /\ \E h \in Handlers :
              /\ Others(h) /\ handler[h].pc = "idle"
              /\ handler'[h].pc \in {"lookup", "find"}
              /\ handler'[h].user \in Users
<1>1. handler \in [Handlers -> HandlerStates]
  BY DEF TypeOK
<1>2. ASSUME NEW h \in Handlers, NEW u \in Users, MessageArrives(h, u)
      PROVE  /\ Others(h) /\ handler[h].pc = "idle"
             /\ handler'[h].pc = "lookup" /\ handler'[h].user \in Users
  BY <1>1, <1>2 DEF MessageArrives, Others, At, Idle
<1>3. ASSUME NEW h \in Handlers, NEW u \in Users, NEW m \in Numbers,
             NEW button \in Buttons, Press(h, u, m, button)
      PROVE  /\ Others(h) /\ handler[h].pc = "idle"
             /\ handler'[h].pc = "find" /\ handler'[h].user \in Users
  BY <1>1, <1>3 DEF Press, Others, At
<1>4. UNCHANGED <<captchas, inserted, generated, passed, chat, verified, cleaner, history>>
  BY DEF Arrives, MessageArrives, Press
<1> QED BY <1>2, <1>3, <1>4 DEF Arrives

(* The steps there are.                                                    *)
LEMMA Steps ==
  ASSUME Next
  PROVE  \/ \E h \in Handlers : \/ LookupForMessage(h) \/ SendCaptcha(h) \/ SaveCaptcha(h)
                                \/ LookupForPress(h) \/ Works(h)
         \/ Arrives \/ Clean \/ DeadlinePasses \/ Crash
BY DEF Next, Continue, Works, Arrives

(* What the callback's steps leave alone.                                  *)
LEMMA WorkLeaves ==
  ASSUME TypeOK, NEW h \in Handlers, Works(h)
  PROVE  /\ passed' = passed /\ cleaner' = cleaner
         /\ captchas' \subseteq captchas \/ (StorePress(h) /\ Return(h))
BY DEF Works, CheckExpired, CheckMessage, ApplyButton, EditPhoto, ValidateInput, StorePress,
       VerifySolver, CloseMessage, CloseRow, DropRow, DropMessage, DeleteCaptchaByID, Without

-----------------------------------------------------------------------------
(* LiveInv is inductive as long as no query fails.                         *)
OneEach == \A r1, r2 \in captchas :
  r1.user = r2.user /\ ~Expired(r1) /\ ~Expired(r2) => r1 = r2

LiveFor(h) ==
  /\ handler[h].pc \in {"send", "save", "drop_message"} =>
       \A row \in captchas : row.user = handler[h].user => Expired(row)
  /\ h \in Copying => \A row \in captchas :
       row.user = handler[h].user /\ ~Expired(row) => row.id = Row(h).id

(* LiveInv is of the table, and of every handler by itself,                *)
LEMMA LiveParts == LiveInv <=> OneEach /\ \A h \in Handlers : LiveFor(h)
BY DEF LiveInv, OneEach, LiveFor, At, Copying

(* and so it is after a step.                                              *)
LEMMA LivePartsNext ==
  ASSUME OneEach', \A h \in Handlers : LiveFor(h)'
  PROVE  LiveInv'
<1>1. Copying' \subseteq Handlers
  BY DEF Copying
<1> QED BY <1>1 DEF LiveInv, OneEach, LiveFor, At

LEMMA LiveInit == Init => LiveInv
BY DEF Init, LiveInv, Copying, At, Idle

(* Deadlines pass for good.                                                *)
LEMMA ExpiredForGood ==
  ASSUME TypeOK, NEW row \in Captcha, passed' \in {passed, passed + 1}, Expired(row)
  PROVE  Expired(row)'
<1>1. row.deadline \in Nat
  BY NumbersAreNat DEF Captcha
<1>2. passed \in 0..generated
  BY DEF TypeOK
<1> QED BY <1>1, <1>2 DEF Expired

(* Deleting rows and passing time leave one live captcha each.             *)
LEMMA OneEachKept ==
  ASSUME TypeOK, OneEach, captchas' \subseteq captchas, passed' \in {passed, passed + 1}
  PROVE  OneEach'
<1>1. \A row \in captchas : Expired(row) => Expired(row)'
  BY ExpiredForGood DEF TypeOK
<1> QED BY <1>1 DEF OneEach

(* A handler that takes no step notices new rows of its own user only.     *)
LEMMA LiveOther ==
  ASSUME TypeOK, NEW g \in Handlers, LiveFor(g), handler'[g] = handler[g],
         passed' \in {passed, passed + 1},
         \A row \in captchas' : row \in captchas \/ row.user # handler[g].user
  PROVE  LiveFor(g)'
<1>1. \A row \in captchas : Expired(row) => Expired(row)'
  BY ExpiredForGood DEF TypeOK
<1>2. (g \in Copying)' <=> g \in Copying
  BY DEF Copying
<1> QED BY <1>1, <1>2 DEF LiveFor, Row

(* A handler without a row in hand claims nothing.                         *)
LEMMA LiveNoRow ==
  ASSUME NEW h \in Handlers, handler'[h].pc \in {"idle", "lookup", "find"}
  PROVE  LiveFor(h)'
BY DEF LiveFor, Copying

(* A step of one handler that leaves the table alone or deletes from it.   *)
LEMMA LiveOfHandler ==
  ASSUME TypeOK, LiveInv, NEW h \in Handlers, Others(h), LiveFor(h)',
         captchas' \subseteq captchas, passed' = passed
  PROVE  LiveInv'
<1>1. OneEach /\ \A g \in Handlers : LiveFor(g)
  BY LiveParts
<1>2. OneEach'
  BY <1>1, OneEachKept
<1>3. ASSUME NEW g \in Handlers \ {h} PROVE LiveFor(g)'
  BY <1>1, LiveOther DEF Others
<1>4. \A g \in Handlers : LiveFor(g)'
  BY <1>3
<1> QED BY <1>2, <1>4, LivePartsNext

(* Before it makes a captcha for a user the middleware has found that the  *)
(* user has none to solve.                                                 *)
LEMMA NoneFound ==
  ASSUME TypeOK, OneEach, NEW u \in Users, GetCaptchaForUserID(u) = {}
  PROVE  \A row \in captchas : row.user = u => Expired(row)
<1> SUFFICES ASSUME NEW row \in captchas, row.user = u, ~Expired(row) PROVE FALSE
  OBVIOUS
<1>1. row \in LiveRows(u) /\ row.id \in Nat
  BY DEF LiveRows, TypeOK, Captcha
<1>2. \A other \in LiveRows(u) : other = row
  BY <1>1 DEF OneEach, LiveRows
<1>3. row.id <= row.id
  BY <1>1
<1> QED BY <1>1, <1>2, <1>3 DEF GetCaptchaForUserID

(* The steps of the middleware.                                            *)
LEMMA LiveAfterMessage ==
  ASSUME "read" \notin Faults, TypeOK, FlowInv, LiveInv, Serial, NEW h \in Handlers,
         LookupForMessage(h) \/ SendCaptcha(h) \/ SaveCaptcha(h)
  PROVE  LiveInv'
<1>0. OneEach /\ \A g \in Handlers : LiveFor(g)
  BY LiveParts
<1>1. CASE LookupForMessage(h)
  <2>1. /\ UNCHANGED <<captchas, passed>> /\ handler[h].user \in Users
        /\ \/ Returns(h)
           \/ /\ Moves(h, "lookup", "send", Fresh(handler[h].user))
              /\ GetCaptchaForUserID(handler[h].user) = {}
    BY <1>1, LookupStep DEF May
  <2>2. Others(h) /\ LiveFor(h)'
    <3>1. CASE Returns(h)
      BY <3>1, LiveNoRow DEF Returns, Idle
    <3>2. CASE /\ Moves(h, "lookup", "send", Fresh(handler[h].user))
               /\ GetCaptchaForUserID(handler[h].user) = {}
      <4>1. \A row \in captchas : row.user = handler[h].user => Expired(row)
        BY <1>0, <2>1, <3>2, NoneFound
      <4>2. handler'[h].pc = "send" /\ handler'[h].user = handler[h].user
        BY <3>2 DEF Moves
      <4> QED BY <2>1, <3>2, <4>1, <4>2 DEF Moves, LiveFor, Expired, Copying
    <3> QED BY <2>1, <3>1, <3>2
  <2> QED BY <2>1, <2>2, LiveOfHandler
<1>2. CASE SendCaptcha(h)
  <2>1. UNCHANGED <<captchas, passed>> /\ handler[h].pc = "send"
    BY <1>2 DEF SendCaptcha, At
  <2>2. CASE Return(h)
    BY <2>1, <2>2, Returning, LiveNoRow, LiveOfHandler DEF Idle
  <2>3. CASE Goto(h, "save")
    <3>1. Moves(h, "send", "save", Row(h))
      BY <2>1, <2>3, Moving
    <3>2. \A row \in captchas : row.user = handler[h].user => Expired(row)
      BY <1>0, <2>1 DEF LiveFor
    <3>3. LiveFor(h)'
      BY <2>1, <3>1, <3>2 DEF Moves, LiveFor, Expired, Copying
    <3> QED BY <2>1, <3>1, <3>3, LiveOfHandler DEF Moves
  <2> QED BY <1>2, <2>2, <2>3 DEF SendCaptcha
<1>3. CASE SaveCaptcha(h)
  <2>1. handler[h].pc = "save" /\ Return(h) /\ passed' = passed
    BY <1>3 DEF SaveCaptcha, At
  <2>2. Row(h) \in Captcha /\ Row(h).user = handler[h].user
    BY <2>1, HasRow DEF At, FlowInv
  <2>3. Others(h) /\ LiveFor(h)'
    BY <2>1, Returning, LiveNoRow DEF Idle
  <2> DEFINE new == [Row(h) EXCEPT !.id = inserted + 1]
  <2>4. new.user = handler[h].user
    BY <2>2 DEF Captcha
  <2>5. captchas' \subseteq captchas \cup {new}
    BY <1>3 DEF SaveCaptcha
  <2> HIDE DEF new
  <2>6. \A row \in captchas : row.user = handler[h].user => Expired(row)
    BY <1>0, <2>1 DEF LiveFor
  <2>7. OneEach'
    BY <2>1, <2>4, <2>5, <2>6 , <1>0 DEF OneEach, Expired
  <2>8. ASSUME NEW g \in Handlers \ {h} PROVE LiveFor(g)'
    <3>1. handler[g].user # handler[h].user
      BY <2>1 DEF Serial, At
    <3> QED BY <1>0, <2>1, <2>3, <2>4, <2>5, <3>1, LiveOther DEF Others
  <2>9. \A g \in Handlers : LiveFor(g)'
    BY <2>3, <2>8
  <2> QED BY <2>7, <2>9, LivePartsNext
<1> QED BY <1>1, <1>2, <1>3

(* The steps of the callback.                                              *)
LEMMA LiveAfterPress ==
  ASSUME TypeOK, FlowInv, LiveInv, Serial, NEW h \in Handlers,
         LookupForPress(h) \/ Works(h)
  PROVE  LiveInv'
<1>0. OneEach /\ \A g \in Handlers : LiveFor(g)
  BY LiveParts
<1>1. CASE LookupForPress(h)
  <2>1. /\ UNCHANGED <<captchas, passed>> /\ handler[h].user \in Users
        /\ \/ Returns(h)
           \/ \E row \in GetCaptchaForUserID(handler[h].user) : Moves(h, "find", "check", row)
    BY <1>1, FindStep
  <2>2. CASE Returns(h)
    BY <2>1, <2>2, LiveNoRow, LiveOfHandler DEF Returns, Idle
  <2>3. ASSUME NEW row \in GetCaptchaForUserID(handler[h].user), Moves(h, "find", "check", row)
        PROVE  LiveInv'
    <3>1. row \in captchas /\ row.user = handler[h].user /\ ~Expired(row)
      BY DEF GetCaptchaForUserID, LiveRows
    <3>2. \A r \in captchas : r.user = handler[h].user /\ ~Expired(r) => r = row
      BY <1>0, <3>1 DEF OneEach
    <3>3. LiveFor(h)'
      BY <2>1, <2>3, <3>2 DEF Moves, LiveFor, Expired, Copying
    <3> QED BY <2>1, <2>3, <3>3, LiveOfHandler DEF Moves
  <2> QED BY <2>1, <2>2, <2>3
<1>2. CASE Works(h)
  <2>1. /\ h \in Copying /\ Row(h) \in Captcha /\ Row(h).user = handler[h].user
        /\ Returns(h) \/ Proceeds(h)
    BY <1>2, WorkStep
  <2>2. /\ passed' = passed
        /\ captchas' \subseteq captchas \/ (StorePress(h) /\ Return(h))
    BY <1>2, WorkLeaves
  <2>3. \A row \in captchas : row.user = handler[h].user /\ ~Expired(row) => row.id = Row(h).id
    BY <1>0, <2>1 DEF LiveFor
  <2>4. CASE Returns(h) /\ captchas' \subseteq captchas
    BY <2>2, <2>4, LiveNoRow, LiveOfHandler DEF Returns, Idle
  <2>5. CASE Proceeds(h) /\ captchas' \subseteq captchas
    <3>1. /\ handler'[h].user = handler[h].user /\ Row(h)'.id = Row(h).id
          /\ handler'[h].pc \notin {"send", "save"} /\ Others(h)
      BY <2>5 DEF Proceeds, Moves, Kin, Arrow
    <3>2. CASE handler'[h].pc # "drop_message"
      <4>1. LiveFor(h)'
        BY <2>2, <2>3, <2>5, <3>1, <3>2 DEF LiveFor, Expired
      <4> QED BY <2>2, <2>5, <3>1, <4>1, LiveOfHandler
    <3>3. CASE handler'[h].pc = "drop_message"
      <4>1. handler[h].pc = "drop_row"
        BY <2>5, <3>3 DEF Proceeds, Arrow
      <4>2. DropRow(h)
        BY <1>2, <4>1 DEF Works, At, CheckExpired, CheckMessage, ApplyButton, EditPhoto,
                  ValidateInput, StorePress, VerifySolver, CloseMessage, CloseRow, DropMessage
      <4>3. captchas' = Without(Row(h).id)
        <5>1. ~Return(h)
          BY <3>3, Returning DEF Idle
        <5> QED BY <4>2, <5>1 DEF DropRow, DeleteCaptchaByID
      <4>4. \A row \in captchas' : row.user = handler[h].user => Expired(row)
        BY <2>3, <4>3 DEF Without
      <4>5. LiveFor(h)'
        BY <2>2, <3>1, <4>4 DEF LiveFor, Expired
      <4> QED BY <2>2, <2>5, <3>1, <4>5, LiveOfHandler
    <3> QED BY <3>2, <3>3
  <2>6. CASE StorePress(h) /\ Return(h)
    <3>1. captchas' \subseteq Without(Row(h).id) \cup {Row(h)} \/ captchas' = captchas
      BY <2>6 DEF StorePress, UpsertCaptcha
    <3>2. Others(h) /\ LiveFor(h)'
      BY <2>6, Returning, LiveNoRow DEF Idle
    <3>3. CASE captchas' = captchas
      BY <2>2, <3>2, <3>3, LiveOfHandler
    <3>4. CASE captchas' \subseteq Without(Row(h).id) \cup {Row(h)}
      <4>1. \A row \in Without(Row(h).id) : row.user = handler[h].user => Expired(row)
        BY <2>3 DEF Without
      <4>2. OneEach'
        BY <1>0, <2>1, <2>2, <3>4, <4>1 DEF OneEach, Expired, Without
      <4>3. ASSUME NEW g \in Handlers \ {h} PROVE LiveFor(g)'
        <5>1. handler[g].user # handler[h].user
          BY <2>6 DEF Serial, At, StorePress
        <5>2. \A row \in captchas' : row \in captchas \/ row.user # handler[g].user
          BY <2>1, <3>4, <5>1 DEF Without
        <5> QED BY <1>0, <2>2, <3>2, <5>2, LiveOther DEF Others
      <4>4. \A g \in Handlers : LiveFor(g)'
        BY <3>2, <4>3
      <4> QED BY <4>2, <4>4, LivePartsNext
    <3> QED BY <3>1, <3>3, <3>4
  <2> QED BY <2>1, <2>2, <2>4, <2>5, <2>6
<1> QED BY <1>1, <1>2

(* Nothing else makes captchas.                                            *)
LEMMA LiveStep ==
  ASSUME "read" \notin Faults, TypeOK, FlowInv, LiveInv, Serial, [Next]_vars
  PROVE  LiveInv'
<1>0. OneEach /\ \A g \in Handlers : LiveFor(g)
  BY LiveParts
<1>1. ASSUME captchas' \subseteq captchas, passed' \in {passed, passed + 1},
             \A g \in Handlers : handler'[g] = handler[g] \/ handler'[g].pc \in {"idle", "lookup", "find"}
      PROVE  LiveInv'
  <2>1. OneEach'
    BY <1>0, <1>1, OneEachKept
  <2>2. ASSUME NEW g \in Handlers PROVE LiveFor(g)'
    BY <1>0, <1>1, LiveOther, LiveNoRow
  <2>3. \A g \in Handlers : LiveFor(g)'
    BY <2>2
  <2> QED BY <2>1, <2>3, LivePartsNext
<1>2. CASE UNCHANGED vars \/ Clean \/ DeadlinePasses \/ Crash
  <2>1. captchas' \subseteq captchas /\ passed' \in {passed, passed + 1}
    BY <1>2 DEF vars, Clean, CleanerTick, CleanerDeleteRow, CleanerDeleteMessage,
                DeleteCaptchaByID, Without, DeadlinePasses, Crash
  <2>2. \A g \in Handlers : handler'[g] = handler[g] \/ handler'[g].pc = "idle"
    BY <1>2 DEF vars, Clean, CleanerTick, CleanerDeleteRow, CleanerDeleteMessage,
                DeadlinePasses, Crash, Idle
  <2> QED BY <1>1, <2>1, <2>2
<1>3. CASE Arrives
  <2>1. captchas' \subseteq captchas /\ passed' \in {passed, passed + 1}
    BY <1>3, ArrivalStep
  <2>2. \A g \in Handlers : handler'[g] = handler[g] \/ handler'[g].pc \in {"lookup", "find"}
    BY <1>3, ArrivalStep DEF Others
  <2> QED BY <1>1, <2>1, <2>2
<1> QED BY <1>2, <1>3, LiveAfterMessage, LiveAfterPress, Steps

(* Two live captchas of one user would be one.                             *)
LEMMA LiveRowsAreFew ==
  ASSUME TypeOK, LiveInv
  PROVE  OneLiveCaptcha
<1> SUFFICES ASSUME NEW u \in Users PROVE Cardinality(LiveRows(u)) <= 1
  BY DEF OneLiveCaptcha
<1>1. CASE LiveRows(u) = {}
  BY <1>1, FS_EmptySet
<1>2. CASE LiveRows(u) # {}
  <2>1. PICK row : row \in LiveRows(u)
    BY <1>2
  <2>2. LiveRows(u) = {row}
    BY <2>1 DEF LiveRows, LiveInv
  <2>3. Cardinality({row}) = 1
    BY FS_Singleton
  <2> QED BY <2>2, <2>3
<1> QED BY <1>1, <1>2

(* If no query fails, and the updates of each user are handled one after   *)
(* the other, then nobody ever has two captchas to solve: not even after   *)
(* failed writes, messages Telegram lost, and restarts.                    *)
THEOREM OneLive ==
  ASSUME "read" \notin Faults
  PROVE  Spec /\ []Serial => []OneLiveCaptcha
<1>1. TypeOK /\ FlowInv /\ LiveInv /\ Serial /\ [Next]_vars => LiveInv'
  BY LiveStep
<1>2. TypeOK /\ LiveInv => OneLiveCaptcha
  BY LiveRowsAreFew
<1> QED BY <1>1, <1>2, InvInit, InvStep, LiveInit, PTL DEF Spec

-----------------------------------------------------------------------------
(* MadeInv is inductive.                                                   *)

Held == Rows \cup {Row(h) : h \in Adding}

Swept == \A row \in cleaner.todo \cup {cleaner.deleted} : Past(row)

(* MadeInv is of the rows held anywhere.                                   *)
LEMMA MadeParts ==
  MadeInv <=> /\ \A row \in Held : MadeTogether(row)
              /\ Swept
              /\ \A r1, r2 \in Held : r1.msg = r2.msg => r1.user = r2.user
BY DEF MadeInv, Held, Swept

LEMMA MadeInit == Init => MadeInv
BY DEF Init, MadeInv, Rows, Adding, Copying, Idle, Past

(* Every row held is a captcha,                                            *)
LEMMA HeldAreCaptchas ==
  ASSUME TypeOK, FlowInv
  PROVE  Held \subseteq Captcha
<1>1. ASSUME NEW h \in Adding \cup Copying PROVE Row(h) \in Captcha
  BY HasRow DEF Adding, Copying, FlowInv, At
<1> QED BY <1>1 DEF Held, Rows, TypeOK

(* and none is for a message not yet sent.                                 *)
LEMMA HeldBounds ==
  ASSUME TypeOK, FlowInv, MadeInv, NEW row \in Held
  PROVE  /\ row.msg \in Nat /\ row.code \in Nat /\ row.deadline \in Nat
         /\ generated \in Nat
         /\ row.msg <= row.code /\ row.code = row.deadline /\ row.code <= generated
         /\ row.msg <= generated
<1>1. row.msg \in Nat /\ row.code \in Nat /\ row.deadline \in Nat /\ generated \in Nat
  <2>1. row \in Captcha
    BY HeldAreCaptchas
  <2>2. generated \in Nat
    BY NumbersAreNat DEF TypeOK
  <2> QED BY <2>1, <2>2, NumbersAreNat DEF Captcha
<1>2. row.msg <= row.code /\ row.code = row.deadline /\ row.code <= generated
  BY MadeParts DEF MadeTogether
<1> QED BY <1>1, <1>2

(* What is held after a step of one handler.                               *)
LEMMA HeldAfter ==
  ASSUME NEW h \in Handlers, Others(h), NEW r \in Held'
  PROVE  \/ r \in captchas' \/ r \in Held
         \/ r = Row(h)' /\ handler'[h].pc \notin {"idle", "lookup", "find"}
<1>1. CASE r \in captchas'
  BY <1>1
<1>2. CASE r \notin captchas'
  <2>1. PICK g \in Adding' \cup Copying' : r = Row(g)'
    BY <1>2 DEF Held, Rows
  <2>2. g \in Handlers /\ handler'[g].pc \notin {"idle", "lookup", "find"}
    BY <2>1 DEF Adding, Copying
  <2>3. CASE g = h
    BY <2>1, <2>2, <2>3
  <2>4. CASE g # h
    <3>1. handler'[g] = handler[g]
      BY <2>2, <2>4 DEF Others
    <3>2. Row(g)' = Row(g) /\ g \in Adding \cup Copying
      BY <2>1, <3>1 DEF Row, Adding, Copying
    <3> QED BY <2>1, <3>2 DEF Held, Rows
  <2> QED BY <2>3, <2>4
<1> QED BY <1>1, <1>2

(* Rows keep their message and user, and have codes and deadlines drawn    *)
(* together; only one user's captcha is new.                               *)
From(r, s) ==
  /\ r.msg = s.msg /\ r.user = s.user
  /\ \/ r.code = s.code /\ r.deadline = s.deadline
     \/ r.code = generated' /\ r.deadline = generated'

IsNew(r, u) ==
  /\ generated' = generated + 1 /\ r.user = u
  /\ r.msg = generated' /\ r.code = generated' /\ r.deadline = generated'

(* Rows copied from rows held before, and rows made anew, keep it.         *)
LEMMA MadeKept ==
  ASSUME TypeOK, FlowInv, MadeInv, Swept', NEW u,
         generated' \in {generated, generated + 1},
         \A r \in Held' : (\E s \in Held : From(r, s)) \/ IsNew(r, u)
  PROVE  MadeInv'
<1>0. generated \in Nat
  BY NumbersAreNat DEF TypeOK
<1>1. ASSUME NEW r \in Held' PROVE MadeTogether(r)'
  <2>1. ASSUME NEW s \in Held, From(r, s) PROVE MadeTogether(r)'
    <3>1. /\ s.msg \in Nat /\ s.code \in Nat
          /\ s.msg <= s.code /\ s.code = s.deadline /\ s.code <= generated
      BY HeldBounds
    <3>2. CASE r.code = s.code /\ r.deadline = s.deadline
      BY <1>0, <2>1, <3>1, <3>2 DEF From, MadeTogether
    <3>3. CASE r.code = generated' /\ r.deadline = generated'
      BY <1>0, <2>1, <3>1, <3>3 DEF From, MadeTogether
    <3> QED BY <2>1, <3>2, <3>3 DEF From
  <2>2. CASE IsNew(r, u)
    BY <1>0, <2>2 DEF IsNew, MadeTogether
  <2> QED BY <2>1, <2>2
<1>2. ASSUME NEW r1 \in Held', NEW r2 \in Held', r1.msg = r2.msg PROVE r1.user = r2.user
  <2>1. ASSUME NEW r \in Held', NEW s \in Held, From(r, s), NEW new \in Held', IsNew(new, u)
        PROVE  r.msg # new.msg
    <3>1. s.msg \in Nat /\ s.msg <= generated
      BY HeldBounds
    <3> QED BY <1>0, <2>1, <3>1 DEF From, IsNew
  <2>2. CASE IsNew(r1, u) /\ IsNew(r2, u)
    BY <2>2 DEF IsNew
  <2>3. ASSUME NEW s1 \in Held, From(r1, s1), NEW s2 \in Held, From(r2, s2)
        PROVE  r1.user = r2.user
    BY <1>2, <2>3, MadeParts DEF From
  <2> QED BY <1>2, <2>1, <2>2, <2>3
<1>3. (\A row \in Held : MadeTogether(row))'
  BY <1>1
<1>4. (\A r1, r2 \in Held : r1.msg = r2.msg => r1.user = r2.user)'
  BY <1>2
<1> QED BY <1>3, <1>4 DEF MadeInv, Held, Swept

(* A row is a copy of itself.                                              *)
LEMMA FromItself == \A s : From(s, s)
BY DEF From

(* What the cleaner has in hand has expired, however long ago its snapshot *)
(* was.                                                                    *)
LEMMA SweptStep ==
  ASSUME TypeOK, FlowInv, MadeInv, [Next]_vars
  PROVE  Swept'
<1>0. Swept /\ passed \in Nat
  <2>1. passed \in 0..generated
    BY DEF TypeOK
  <2> QED BY <2>1, MadeParts
<1>1. \A row \in cleaner.todo \cup {cleaner.deleted} : row # NoRow => row.msg \in Nat
  BY NumbersAreNat DEF TypeOK, Captcha
<1>2. ASSUME passed' \in {passed, passed + 1},
             \A row \in cleaner'.todo \cup {cleaner'.deleted} :
               row = NoRow \/ row \in cleaner.todo \cup {cleaner.deleted}
      PROVE  Swept'
  BY <1>0, <1>1, <1>2 DEF Swept, Past
<1>3. CASE CleanerTick
  <2>1. ASSUME NEW row \in GetOutdatedCaptchas PROVE row.msg <= passed
    <3>1. row \in captchas /\ row.deadline <= passed /\ row \in Held
      BY DEF GetOutdatedCaptchas, Expired, Held, Rows
    <3>2. row.msg \in Nat /\ row.code \in Nat /\ row.msg <= row.code /\ row.code = row.deadline
      BY <3>1, HeldBounds
    <3> QED BY <1>0, <3>1, <3>2
  <2>2. /\ cleaner' = [cleaner EXCEPT !.todo = GetOutdatedCaptchas]
        /\ passed' = passed
    BY <1>3 DEF CleanerTick
  <2>3. cleaner'.todo = GetOutdatedCaptchas /\ cleaner'.deleted = cleaner.deleted
    BY <2>2 DEF TypeOK
  <2> QED BY <1>0, <2>1, <2>2, <2>3 DEF Swept, Past
<1>4. CASE CleanerDeleteRow \/ CleanerDeleteMessage
  <2>1. \A row \in cleaner'.todo \cup {cleaner'.deleted} :
          row = NoRow \/ row \in cleaner.todo \cup {cleaner.deleted}
    BY <1>4 DEF CleanerDeleteRow, CleanerDeleteMessage, TypeOK
  <2> QED BY <1>2, <1>4, <2>1 DEF CleanerDeleteRow, CleanerDeleteMessage
<1>5. CASE Crash
  BY <1>2, <1>5 DEF Crash
<1>6. CASE UNCHANGED vars \/ DeadlinePasses
  BY <1>2, <1>6 DEF vars, DeadlinePasses
<1>7. CASE Arrives
  BY <1>2, <1>7, ArrivalStep
<1>8. ASSUME NEW h \in Handlers, Works(h) PROVE Swept'
  BY <1>2, <1>8, WorkLeaves
<1>9. ASSUME NEW h \in Handlers,
             LookupForMessage(h) \/ SendCaptcha(h) \/ SaveCaptcha(h) \/ LookupForPress(h)
      PROVE  Swept'
  BY <1>2, <1>9 DEF LookupForMessage, SendCaptcha, SaveCaptcha, LookupForPress
<1> QED BY <1>3, <1>4, <1>5, <1>6, <1>7, <1>8, <1>9, Steps DEF Clean

(* A step of one handler, by the row it goes on with and the rows it puts  *)
(* into the table.                                                         *)
LEMMA MadeOfHandler ==
  ASSUME TypeOK, FlowInv, MadeInv, Swept', NEW h \in Handlers, Others(h), NEW u,
         generated' \in {generated, generated + 1},
         \A r \in captchas' : r \in captchas \/ \E s \in Held : From(r, s),
         \/ handler'[h].pc \in {"idle", "lookup", "find"}
         \/ \E s \in Held : From(Row(h)', s)
         \/ IsNew(Row(h)', u)
  PROVE  MadeInv'
<1>1. ASSUME NEW r \in Held' PROVE (\E s \in Held : From(r, s)) \/ IsNew(r, u)
  <2>1. \/ r \in captchas' \/ r \in Held
        \/ r = Row(h)' /\ handler'[h].pc \notin {"idle", "lookup", "find"}
    BY HeldAfter
  <2>2. captchas \subseteq Held
    BY DEF Held, Rows
  <2> QED BY <2>1, <2>2, FromItself
<1> QED BY <1>1, MadeKept

(* Every step keeps MadeInv: whatever row it leaves anywhere comes from    *)
(* one held before or is new.                                              *)
LEMMA MadeStep ==
  ASSUME TypeOK, FlowInv, MadeInv, [Next]_vars
  PROVE  MadeInv'
<1>0. Swept' /\ captchas \subseteq Held /\ FlowInv
  BY SweptStep DEF Held, Rows
<1>1. ASSUME captchas' \subseteq captchas, generated' = generated,
             \A g \in Handlers : handler'[g] = handler[g] \/ handler'[g] = Idle
      PROVE  MadeInv'
  <2>1. ASSUME NEW r \in Held' PROVE r \in Held
    <3>1. CASE r \in captchas'
      BY <1>0, <1>1, <3>1
    <3>2. CASE r \notin captchas'
      <4>1. PICK g \in Adding' \cup Copying' : r = Row(g)'
        BY <3>2 DEF Held, Rows
      <4>2. g \in Handlers /\ handler'[g].pc # "idle"
        BY <4>1 DEF Adding, Copying
      <4>3. handler'[g] = handler[g]
        BY <1>1, <4>2 DEF Idle
      <4>4. g \in Adding \cup Copying /\ r = Row(g)
        BY <4>1, <4>3 DEF Adding, Copying, Row
      <4> QED BY <4>4 DEF Held, Rows
    <3> QED BY <3>1, <3>2
  <2> QED BY <1>0, <1>1, <2>1, FromItself, MadeKept
<1>2. CASE UNCHANGED vars \/ Clean \/ DeadlinePasses \/ Crash
  BY <1>1, <1>2 DEF vars, Clean, CleanerTick, CleanerDeleteRow, CleanerDeleteMessage,
              DeleteCaptchaByID, Without, DeadlinePasses, Crash
<1>3. CASE Arrives
  <2>1. /\ captchas' = captchas /\ generated' = generated
        /\ \E h \in Handlers : Others(h) /\ handler'[h].pc \in {"lookup", "find"}
    BY <1>3, ArrivalStep
  <2> QED BY <1>0, <2>1, MadeOfHandler
<1>4. ASSUME NEW h \in Handlers, LookupForMessage(h)
      PROVE  MadeInv'
  <2>1. captchas' = captchas
    BY <1>4 DEF LookupForMessage
  <2>2. CASE Returns(h)
    BY <1>0, <2>1, <2>2, MadeOfHandler DEF Returns, Idle
  <2>3. CASE generated' = generated + 1 /\ Moves(h, "lookup", "send", Fresh(handler[h].user))
    <3>1. Others(h) /\ Row(h)' = Fresh(handler[h].user)
      BY <2>3 DEF Moves
    <3>2. IsNew(Fresh(handler[h].user), handler[h].user)
      BY <2>3 DEF IsNew, Fresh, New
    <3>3. IsNew(Row(h)', handler[h].user)
      BY <3>1, <3>2
    <3> QED BY <1>0, <2>1, <2>3, <3>1, <3>3, MadeOfHandler
  <2> QED BY <1>4, <2>2, <2>3, LookupStep
<1>5. ASSUME NEW h \in Handlers, SendCaptcha(h) \/ SaveCaptcha(h)
      PROVE  MadeInv'
  <2>1. handler[h].pc \in {"send", "save"} /\ generated' = generated
    BY <1>5 DEF SendCaptcha, SaveCaptcha, At
  <2>2. Row(h) \in Held /\ Row(h) \in Captcha
    BY <2>1, HasRow DEF Held, Adding, FlowInv, At
  <2>3. \A r \in captchas' : r \in captchas \/ \E s \in Held : From(r, s)
    <3>1. CASE SendCaptcha(h)
      BY <3>1 DEF SendCaptcha
    <3>2. CASE SaveCaptcha(h)
      <4> DEFINE new == [Row(h) EXCEPT !.id = inserted + 1]
      <4>1. From(new, Row(h))
        BY <2>2 DEF From, Captcha
      <4>2. captchas' \subseteq captchas \cup {new}
        BY <3>2 DEF SaveCaptcha
      <4> HIDE DEF new
      <4> QED BY <2>2, <4>1, <4>2
    <3> QED BY <1>5, <3>1, <3>2
  <2>4. CASE Return(h)
    BY <1>0, <2>1, <2>3, <2>4, Returning, MadeOfHandler DEF Idle
  <2>5. CASE Goto(h, "save")
    <3>1. Others(h) /\ Row(h)' = Row(h)
      BY <2>5, Moving DEF Moves
    <3>2. From(Row(h)', Row(h))
      BY <3>1, FromItself
    <3> QED BY <1>0, <2>1, <2>2, <2>3, <3>1, <3>2, MadeOfHandler
  <2> QED BY <1>5, <2>4, <2>5 DEF SendCaptcha, SaveCaptcha
<1>6. ASSUME NEW h \in Handlers, LookupForPress(h)
      PROVE  MadeInv'
  <2>1. captchas' = captchas /\ generated' = generated
    BY <1>6 DEF LookupForPress
  <2>2. CASE Returns(h)
    BY <1>0, <2>1, <2>2, MadeOfHandler DEF Returns, Idle
  <2>3. ASSUME NEW row \in GetCaptchaForUserID(handler[h].user), Moves(h, "find", "check", row)
        PROVE  MadeInv'
    <3>1. row \in Held /\ Others(h) /\ Row(h)' = row
      BY <1>0, <2>3 DEF GetCaptchaForUserID, LiveRows, Moves
    <3>2. From(Row(h)', row)
      BY <3>1, FromItself
    <3> QED BY <1>0, <2>1, <3>1, <3>2, MadeOfHandler
  <2> QED BY <1>6, <2>2, <2>3, FindStep
<1>7. ASSUME NEW h \in Handlers, Works(h)
      PROVE  MadeInv'
  <2>1. h \in Copying /\ (Returns(h) \/ Proceeds(h))
    BY <1>7, WorkStep
  <2>2. Row(h) \in Held
    BY <2>1 DEF Held, Rows
  <2>3. \A r \in captchas' : r \in captchas \/ \E s \in Held : From(r, s)
    <3>1. captchas' \subseteq captchas \cup {Row(h)}
      BY <1>7, WorkLeaves DEF StorePress, UpsertCaptcha, Without
    <3> QED BY <2>2, <3>1, FromItself
  <2>4. CASE Returns(h)
    BY <1>0, <2>3, <2>4, MadeOfHandler DEF Returns, Idle
  <2>5. CASE Proceeds(h)
    <3>1. Others(h) /\ generated' \in {generated, generated + 1} /\ From(Row(h)', Row(h))
      BY <2>5 DEF Proceeds, Moves, Kin, Same, From
    <3> QED BY <1>0, <2>2, <2>3, <3>1, MadeOfHandler
  <2> QED BY <2>1, <2>4, <2>5
<1> QED BY <1>2, <1>3, <1>4, <1>5, <1>6, <1>7, Steps

-----------------------------------------------------------------------------
(* PhotoInv is inductive as long as no write fails, no reply is lost and   *)
(* the process does not die.                                               *)
Shows(row) == chat[row.msg] \in {row.code, 0}

Photographing == Settling \cup {"save", "check"}

(* PhotoInv is of the rows and of the handlers that work on a photo.       *)
LEMMA PhotoParts ==
  PhotoInv <=>
    /\ \A row \in captchas :
         \/ Shows(row)
         \/ \E h \in Handlers : /\ handler[h].pc \in Settling
                                /\ Row(h).msg = row.msg /\ chat[row.msg] = Row(h).code
    /\ \A h \in Handlers : handler[h].pc \in Photographing => Shows(Row(h))
BY DEF PhotoInv, Shows, Photographing

LEMMA PhotoInit == Init => PhotoInv
BY DEF Init, PhotoInv, Settling, Idle

SamePhoto(r, s) == r.msg = s.msg /\ r.code = s.code

(* It is kept when photos are only deleted, unless a row gets into the     *)
(* table or into somebody's hands whose photo shows another code, or the   *)
(* handler that replaced a photo leaves the row behind.                    *)
LEMMA PhotoKept ==
  ASSUME TypeOK, FlowInv, TypeOK', FlowInv', PhotoInv,
         \A m \in Numbers : chat'[m] \in {chat[m], 0},
         \A row \in captchas' : row \in captchas \/ Shows(row),
         \A g \in Handlers : handler'[g].pc \in Photographing =>
           \/ handler[g].pc \in Photographing /\ SamePhoto(Row(g)', Row(g))
           \/ Shows(Row(g)'),
         \A g \in Handlers : handler[g].pc \in Settling =>
           \/ handler'[g].pc \in Settling /\ SamePhoto(Row(g)', Row(g))
           \/ \A row \in captchas' : row.msg = Row(g).msg => Shows(row)
  PROVE  PhotoInv'
<1>1. ASSUME NEW row \in Captcha, Shows(row) PROVE Shows(row)'
  BY <1>1 DEF Captcha, Shows
<1>2. ASSUME NEW row \in captchas'
      PROVE  \/ Shows(row)'
             \/ \E h \in Handlers : /\ handler'[h].pc \in Settling
                                    /\ Row(h)'.msg = row.msg /\ chat'[row.msg] = Row(h)'.code
  <2>1. row \in Captcha /\ row.msg \in Numbers
    BY DEF TypeOK, Captcha
  <2>2. CASE Shows(row)
    BY <1>1, <2>1, <2>2
  <2>3. CASE row \in captchas /\ ~Shows(row)
    <3>1. PICK g \in Handlers : /\ handler[g].pc \in Settling
                                /\ Row(g).msg = row.msg /\ chat[row.msg] = Row(g).code
      BY <2>3, PhotoParts
    <3>2. handler'[g].pc \in Settling /\ SamePhoto(Row(g)', Row(g))
      BY <2>3, <3>1
    <3>3. chat'[row.msg] \in {chat[row.msg], 0}
      BY <2>1
    <3>4. Shows(row)' <=> chat'[row.msg] \in {row.code, 0}
      BY DEF Shows
    <3> QED BY <3>1, <3>2, <3>3, <3>4 DEF SamePhoto
  <2> QED BY <2>2, <2>3
<1>3. ASSUME NEW g \in Handlers, handler'[g].pc \in Photographing
      PROVE  Shows(Row(g))'
  <2>1. Row(g)' \in Captcha
    <3>1. (~At(g, "idle") /\ ~At(g, "lookup") /\ ~At(g, "find"))'
      BY <1>3 DEF Photographing, Settling, At
    <3> QED BY <3>1 DEF FlowInv, RowsInHand, Sound, At, Row
  <2>2. Shows(Row(g)')
    <3>1. handler[g].pc \in Photographing => Shows(Row(g))
      BY PhotoParts
    <3> QED BY <1>3, <3>1 DEF SamePhoto, Shows
  <2>3. chat'[Row(g)'.msg] \in {chat[Row(g)'.msg], 0}
    BY <2>1 DEF Captcha
  <2> QED BY <2>2, <2>3 DEF Shows
<1>4. PhotoInv' <=>
        /\ \A row \in captchas' :
             \/ Shows(row)'
             \/ \E h \in Handlers : /\ handler'[h].pc \in Settling
                                    /\ Row(h)'.msg = row.msg /\ chat'[row.msg] = Row(h)'.code
        /\ \A h \in Handlers : handler'[h].pc \in Photographing => Shows(Row(h))'
  BY DEF PhotoInv, Shows, Photographing
<1> QED BY <1>2, <1>3, <1>4

(* A step of one handler keeps PhotoInv if it changes no photo, brings in  *)
(* only rows that agree with their photo and, where it lets go of an       *)
(* unsettled row, leaves it settled.                                       *)
LEMMA PhotoOfHandler ==
  ASSUME TypeOK, FlowInv, TypeOK', FlowInv', PhotoInv, NEW h \in Handlers, Others(h),
         \A m \in Numbers : chat'[m] \in {chat[m], 0},
         \A row \in captchas' : row \in captchas \/ Shows(row),
         handler'[h].pc \in Photographing =>
           \/ handler[h].pc \in Photographing /\ SamePhoto(Row(h)', Row(h))
           \/ Shows(Row(h)'),
         handler[h].pc \in Settling =>
           \/ handler'[h].pc \in Settling /\ SamePhoto(Row(h)', Row(h))
           \/ \A row \in captchas' : row.msg = Row(h).msg => Shows(row)
  PROVE  PhotoInv'
<1>1. \A g \in Handlers \ {h} : /\ handler'[g].pc = handler[g].pc
                                /\ SamePhoto(Row(g)', Row(g))
  BY DEF Others, Row, SamePhoto
<1>2. \A g \in Handlers : handler'[g].pc \in Photographing =>
        \/ handler[g].pc \in Photographing /\ SamePhoto(Row(g)', Row(g))
        \/ Shows(Row(g)')
  BY <1>1
<1>3. \A g \in Handlers : handler[g].pc \in Settling =>
        \/ handler'[g].pc \in Settling /\ SamePhoto(Row(g)', Row(g))
        \/ \A row \in captchas' : row.msg = Row(g).msg => Shows(row)
  BY <1>1
<1> QED BY <1>2, <1>3, PhotoKept

(* A photo is sent, or replaced, by the only handler that has its row.     *)
LEMMA PhotoShown ==
  ASSUME TypeOK, FlowInv, TypeOK', FlowInv', PhotoInv, NEW h \in Handlers, Others(h),
         captchas' = captchas, Row(h) \in Captcha, handler[h].pc \notin Settling,
         chat' = [chat EXCEPT ![Row(h).msg] = Row(h).code],
         handler'[h].pc \in {"idle", "save", "validate"},
         handler'[h].pc # "idle" => Row(h)' = Row(h),
         \A g \in Handlers \ {h} : handler[g].pc \in Photographing => Row(g).msg # Row(h).msg,
         handler'[h].pc # "validate" => \A row \in captchas : row.msg # Row(h).msg
  PROVE  PhotoInv'
<1>0. Row(h).msg \in Numbers /\ chat \in [Numbers -> Numbers \cup {0}]
  BY DEF Captcha, TypeOK
<1>1. chat'[Row(h).msg] = Row(h).code /\ \A m \in Numbers \ {Row(h).msg} : chat'[m] = chat[m]
  BY <1>0
<1>2. ASSUME NEW row \in captchas'
      PROVE  \/ Shows(row)'
             \/ \E g \in Handlers : /\ handler'[g].pc \in Settling
                                    /\ Row(g)'.msg = row.msg /\ chat'[row.msg] = Row(g)'.code
  <2>1. row.msg \in Numbers /\ row \in captchas
    BY DEF TypeOK, Captcha
  <2>2. CASE row.msg = Row(h).msg
    <3>1. handler'[h].pc = "validate" /\ Row(h)' = Row(h)
      BY <2>1, <2>2
    <3> QED BY <1>1, <2>2, <3>1 DEF Settling
  <2>3. CASE row.msg # Row(h).msg
    <3>1. chat'[row.msg] = chat[row.msg]
      BY <1>1, <2>1, <2>3
    <3>2. CASE Shows(row)
      BY <3>1, <3>2 DEF Shows
    <3>3. ASSUME NEW g \in Handlers, handler[g].pc \in Settling,
                 Row(g).msg = row.msg, chat[row.msg] = Row(g).code
          PROVE  /\ handler'[g].pc \in Settling
                 /\ Row(g)'.msg = row.msg /\ chat'[row.msg] = Row(g)'.code
      <4>1. handler'[g] = handler[g] /\ Row(g)' = Row(g)
        BY <3>3 DEF Others, Row
      <4> QED BY <3>1, <3>3, <4>1
    <3> QED BY <2>1, <3>2, <3>3, PhotoParts
  <2> QED BY <2>2, <2>3
<1>3. ASSUME NEW g \in Handlers, handler'[g].pc \in Photographing
      PROVE  Shows(Row(g))'
  <2>1. CASE g = h
    <3>1. Row(h)' = Row(h)
      BY <1>3, <2>1 DEF Photographing, Settling
    <3> QED BY <1>1, <2>1, <3>1 DEF Shows
  <2>2. CASE g # h
    <3>1. handler'[g] = handler[g] /\ Row(g)' = Row(g)
      BY <2>2 DEF Others, Row
    <3>2. Shows(Row(g)) /\ Row(g).msg # Row(h).msg
      BY <1>3, <2>2, <3>1, PhotoParts
    <3>3. Row(g).msg \in Numbers
      <4>1. ~At(g, "idle") /\ ~At(g, "lookup") /\ ~At(g, "find")
        BY <1>3, <3>1 DEF Photographing, Settling, At
      <4> QED BY <4>1, HasRow DEF FlowInv, Captcha
    <3>4. chat'[Row(g).msg] = chat[Row(g).msg]
      BY <1>1, <3>2, <3>3
    <3> QED BY <3>1, <3>2, <3>4 DEF Shows
  <2> QED BY <2>1, <2>2
<1>4. PhotoInv' <=>
        /\ \A row \in captchas' :
             \/ Shows(row)'
             \/ \E g \in Handlers : /\ handler'[g].pc \in Settling
                                    /\ Row(g)'.msg = row.msg /\ chat'[row.msg] = Row(g)'.code
        /\ \A g \in Handlers : handler'[g].pc \in Photographing => Shows(Row(g))'
  BY DEF PhotoInv, Shows, Photographing
<1> QED BY <1>2, <1>3, <1>4

(* Two handlers with rows of one message would be two of one user.         *)
LEMMA OneHandlerPerMessage ==
  ASSUME TypeOK, FlowInv, MadeInv, Serial,
         NEW g \in Adding \cup Copying, NEW row \in Held, Row(g).msg = row.msg,
         NEW h \in Handlers, handler[h].user = row.user
  PROVE  g = h
<1>1. Row(g) \in Held /\ g \in Handlers /\ ~At(g, "idle") /\ Row(g).user = handler[g].user
  BY HasRow DEF Held, Rows, Adding, Copying, At, FlowInv
<1>2. Row(g).user = row.user
  BY <1>1, MadeParts
<1> QED BY <1>1, <1>2 DEF Serial

(* A photo whose message is deleted is gone; the others stay.              *)
LEMMA DeletedOrNot ==
  ASSUME TypeOK, NEW m, DeleteMessage(m)
  PROVE  \A n \in Numbers : chat'[n] \in {chat[n], 0}
BY DEF DeleteMessage, TypeOK

(* The steps of the middleware: the message is new.                        *)
LEMMA PhotoAfterMessage ==
  ASSUME TypeOK, FlowInv, TypeOK', FlowInv', KeysInv, PhotoInv,
         NEW h \in Handlers,
         LookupForMessage(h) \/ SendCaptcha(h) \/ SaveCaptcha(h)
  PROVE  PhotoInv'
<1>1. CASE LookupForMessage(h)
  <2>1. /\ UNCHANGED <<captchas, chat>> /\ handler[h].pc = "lookup"
        /\ Returns(h) \/ Moves(h, "lookup", "send", Fresh(handler[h].user))
    BY <1>1, LookupStep
  <2>2. Others(h) /\ handler'[h].pc \in {"idle", "send"}
    BY <2>1 DEF Returns, Moves, Idle
  <2> QED BY <2>1, <2>2, PhotoOfHandler DEF Photographing, Settling
<1>2. CASE SendCaptcha(h)
  <2>1. handler[h].pc = "send" /\ captchas' = captchas /\ h \in Adding
    BY <1>2 DEF SendCaptcha, At, Adding
  <2>2. Row(h) \in Captcha
    BY <2>1, HasRow DEF At, FlowInv
  <2>3. Others(h) /\ (handler'[h].pc = "idle" \/ (handler'[h].pc = "save" /\ Row(h)' = Row(h)))
    <3>1. CASE Return(h)
      BY <3>1, Returning DEF Idle
    <3>2. CASE Goto(h, "save")
      BY <3>2, Moving DEF Moves
    <3> QED BY <1>2, <3>1, <3>2 DEF SendCaptcha
  <2>4. CASE UNCHANGED chat
    <3>1. handler'[h].pc = "idle" \/ ~(UNCHANGED chat) \/ handler'[h].pc = "save"
      BY <2>3
    <3>2. CASE handler'[h].pc = "idle"
      BY <2>1, <2>3, <2>4, <3>2, PhotoOfHandler DEF Photographing, Settling
    <3>3. CASE chat' = [chat EXCEPT ![Row(h).msg] = Row(h).code]
      <4>1. Shows(Row(h))
        BY <2>2, <2>4, <3>3 DEF Shows, Captcha, TypeOK
      <4> QED BY <2>1, <2>3, <2>4, <4>1, PhotoOfHandler DEF Photographing, Settling
    <3>4. handler'[h].pc = "idle" \/ chat' = [chat EXCEPT ![Row(h).msg] = Row(h).code]
      BY <1>2, Returning DEF SendCaptcha, Idle
    <3> QED BY <3>2, <3>3, <3>4
  <2>5. CASE chat' = [chat EXCEPT ![Row(h).msg] = Row(h).code]
    <3>1. ASSUME NEW g \in Handlers \ {h}, handler[g].pc \in Photographing
          PROVE  Row(g).msg # Row(h).msg
      <4>1. g \in Adding \/ g \in Copying
        BY <3>1 DEF Photographing, Settling, Adding, Copying
      <4>2. CASE g \in Adding
        BY <2>1, <3>1, <4>2 DEF KeysInv
      <4>3. CASE g \in Copying
        BY <2>1, <4>3 DEF KeysInv, Rows
      <4> QED BY <4>1, <4>2, <4>3
    <3>2. \A row \in captchas : row.msg # Row(h).msg
      BY <2>1 DEF KeysInv, Rows
    <3>3. handler[h].pc \notin Settling
      BY <2>1 DEF Settling
    <3> QED BY <2>1, <2>2, <2>3, <2>5, <3>1, <3>2, <3>3, PhotoShown
  <2> QED BY <1>2, <2>4, <2>5 DEF SendCaptcha
<1>3. CASE SaveCaptcha(h)
  <2>1. handler[h].pc = "save" /\ Return(h) /\ chat' = chat
    BY <1>3 DEF SaveCaptcha, At
  <2>2. Row(h) \in Captcha /\ Shows(Row(h))
    BY <2>1, HasRow, PhotoParts DEF At, FlowInv, Photographing
  <2> DEFINE new == [Row(h) EXCEPT !.id = inserted + 1]
  <2>3. Shows(new) /\ captchas' \subseteq captchas \cup {new}
    BY <1>3, <2>2 DEF Shows, Captcha, SaveCaptcha
  <2> HIDE DEF new
  <2>4. Others(h) /\ handler'[h].pc = "idle"
    BY <2>1, Returning DEF Idle
  <2> QED BY <2>1, <2>3, <2>4, PhotoOfHandler DEF Photographing, Settling
<1> QED BY <1>1, <1>2, <1>3

(* A press that finds a captcha is not met by another press of the user.   *)
LEMMA PhotoAfterFind ==
  ASSUME TypeOK, FlowInv, TypeOK', FlowInv', MadeInv, PhotoInv, Serial,
         NEW h \in Handlers, LookupForPress(h)
  PROVE  PhotoInv'
<1>1. /\ UNCHANGED <<captchas, chat>> /\ handler[h].pc = "find"
      /\ \/ Returns(h)
         \/ \E row \in GetCaptchaForUserID(handler[h].user) : Moves(h, "find", "check", row)
  BY FindStep
<1>2. CASE Returns(h)
  BY <1>1, <1>2, PhotoOfHandler DEF Returns, Idle, Photographing, Settling
<1>3. ASSUME NEW row \in GetCaptchaForUserID(handler[h].user), Moves(h, "find", "check", row)
      PROVE  PhotoInv'
  <2>1. row \in captchas /\ row.user = handler[h].user /\ row \in Held
    BY DEF GetCaptchaForUserID, LiveRows, Held, Rows
  <2>2. ASSUME NEW g \in Handlers, handler[g].pc \in Settling, Row(g).msg = row.msg
        PROVE  FALSE
    <3>1. g \in Copying
      BY <2>2 DEF Copying, Settling
    <3>2. g = h
      BY <2>1, <2>2, <3>1, OneHandlerPerMessage
    <3> QED BY <1>1, <2>2, <3>2 DEF Settling
  <2>3. Shows(row)
    BY <2>1, <2>2, PhotoParts
  <2>4. Others(h) /\ Row(h)' = row
    BY <1>3 DEF Moves
  <2> QED BY <1>1, <2>3, <2>4, PhotoOfHandler DEF Settling
<1> QED BY <1>1, <1>2, <1>3

(* The row a press leaves behind shows what is stored; a closed one is     *)
(* gone.                                                                   *)
LEMMA PhotoAfterWork ==
  ASSUME Faults \cap {"write", "reply", "crash"} = {},
         TypeOK, FlowInv, TypeOK', FlowInv', KeysInv, MadeInv, PhotoInv, Serial,
         NEW h \in Handlers, Works(h)
  PROVE  PhotoInv'
<1>0. /\ h \in Copying /\ Row(h) \in Captcha /\ Row(h).user = handler[h].user
      /\ Returns(h) \/ Proceeds(h)
      /\ captchas' \subseteq captchas \/ StorePress(h)
  BY WorkStep, WorkLeaves
<1>1. Row(h) \in Held /\ Row(h) \in Rows
  BY <1>0 DEF Held, Rows
<1>2. \A r \in captchas : r.msg = Row(h).msg <=> r.id = Row(h).id
  BY <1>1 DEF KeysInv, Rows
<1>3. CASE StorePress(h)
  <2>1. /\ handler[h].pc = "store" /\ Return(h) /\ chat' = chat
        /\ captchas' = Without(Row(h).id) \cup {Row(h)}
    BY <1>3 DEF StorePress, At, May, UpsertCaptcha
  <2>2. Shows(Row(h))
    BY <2>1, PhotoParts DEF Photographing, Settling
  <2>3. \A row \in captchas' : /\ row \in captchas \/ Shows(row)
                               /\ row.msg = Row(h).msg => Shows(row)
    BY <1>2, <2>1, <2>2 DEF Without
  <2>4. Others(h) /\ handler'[h].pc = "idle"
    BY <2>1, Returning DEF Idle
  <2> QED BY <2>1, <2>3, <2>4, PhotoOfHandler DEF Photographing, Settling
<1>4. CASE CloseRow(h)
  <2>1. Return(h) /\ chat' = chat /\ captchas' = Without(Row(h).id)
    BY <1>4 DEF CloseRow, May, DeleteCaptchaByID
  <2>2. \A row \in captchas' : row \in captchas /\ row.msg # Row(h).msg
    BY <1>2, <2>1 DEF Without
  <2>3. Others(h) /\ handler'[h].pc = "idle"
    BY <2>1, Returning DEF Idle
  <2> QED BY <2>1, <2>2, <2>3, PhotoOfHandler DEF Photographing, Settling
<1>5. CASE EditPhoto(h) /\ Goto(h, "validate")
  <2>1. handler[h].pc = "edit" /\ captchas' = captchas /\ Row(h).msg = handler[h].msg
    BY <1>5 DEF EditPhoto, At, FlowInv, RowsInHand, Sound, Row
  <2>2. chat' = [chat EXCEPT ![Row(h).msg] = Row(h).code] /\ ~Return(h)
    <3>1. Moves(h, "edit", "validate", Row(h))
      BY <1>5, <2>1, Moving
    <3>2. ~Return(h)
      BY <3>1, Returning DEF Moves, Idle
    <3> QED BY <1>5, <2>1, <3>2 DEF EditPhoto
  <2>3. Others(h) /\ handler'[h].pc = "validate" /\ Row(h)' = Row(h)
    BY <1>5, Moving DEF Moves
  <2>4. ASSUME NEW g \in Handlers \ {h}, handler[g].pc \in Photographing
        PROVE  Row(g).msg # Row(h).msg
    <3>1. g \in Adding \cup Copying
      BY <2>4 DEF Photographing, Settling, Adding, Copying
    <3> QED BY <1>0, <1>1, <3>1, OneHandlerPerMessage
  <2>5. handler[h].pc \notin Settling
    BY <2>1 DEF Settling
  <2> QED BY <1>0, <2>1, <2>2, <2>3, <2>4, <2>5, PhotoShown
<1>6. CASE ~StorePress(h) /\ ~CloseRow(h) /\ ~(EditPhoto(h) /\ Goto(h, "validate"))
  <2>1. \A m \in Numbers : chat'[m] \in {chat[m], 0}
    <3>1. CASE EditPhoto(h)
      <4>1. UNCHANGED chat
        BY <1>6, <3>1 DEF EditPhoto, May
      <4> QED BY <4>1
    <3>2. CASE CloseMessage(h) \/ DropMessage(h)
      BY <3>2, DeletedOrNot DEF CloseMessage, DropMessage
    <3>3. CASE ~EditPhoto(h) /\ ~CloseMessage(h) /\ ~DropMessage(h)
      <4>1. UNCHANGED chat
        BY <1>6, <3>3 DEF Works, CheckExpired, CheckMessage, ApplyButton, ValidateInput,
                          VerifySolver, DropRow
      <4> QED BY <4>1
    <3> QED BY <3>1, <3>2, <3>3
  <2>2. \A row \in captchas' : row \in captchas
    BY <1>0, <1>6
  <2>3. CASE Returns(h)
    <3>1. handler[h].pc \notin Settling
      <4>1. CASE ValidateInput(h) \/ VerifySolver(h) \/ CloseMessage(h)
        <5>1. PICK pc \in {"verify", "store", "close_message", "close_row"} :
                handler'[h].pc = pc
          <6>1. \/ Goto(h, "verify") \/ Goto(h, "store") \/ Goto(h, "close_message")
                \/ Goto(h, "close_row")
                \/ GotoWith(h, "store", [Row(h) EXCEPT !.input = <<>>])
            BY <4>1 DEF ValidateInput, VerifySolver, CloseMessage
          <6>2. \/ handler'[h].pc \in {"verify", "store", "close_message", "close_row"}
            BY <6>1, Moving DEF Moves
          <6> QED BY <6>2
        <5> QED BY <2>3, <5>1 DEF Returns, Idle
      <4>2. CASE ~ValidateInput(h) /\ ~VerifySolver(h) /\ ~CloseMessage(h)
        BY <1>6, <4>2 DEF Works, CheckExpired, CheckMessage, ApplyButton, EditPhoto,
                          DropRow, DropMessage, At, Settling
      <4> QED BY <4>1, <4>2
    <3>2. Others(h) /\ handler'[h].pc = "idle"
      BY <2>3 DEF Returns, Idle
    <3> QED BY <2>1, <2>2, <3>1, <3>2, PhotoOfHandler DEF Photographing, Settling
  <2>4. CASE Proceeds(h)
    <3>1. /\ Others(h) /\ Arrow(handler[h].pc, handler'[h].pc)
          /\ handler'[h].pc # "edit" => SamePhoto(Row(h)', Row(h))
      BY <2>4 DEF Proceeds, Moves, Same, Kin, SamePhoto
    <3>2. handler[h].pc # "edit"
      <4>1. handler[h].pc = "edit" => EditPhoto(h)
        BY DEF Works, CheckExpired, CheckMessage, ApplyButton, ValidateInput, StorePress,
               VerifySolver, CloseMessage, CloseRow, DropRow, DropMessage, At
      <4>2. EditPhoto(h) => Return(h)
        BY <1>6 DEF EditPhoto
      <4>3. ~Return(h)
        BY <3>1, Returning DEF Arrow, Idle
      <4> QED BY <4>1, <4>2, <4>3
    <3> QED BY <2>1, <2>2, <3>1, <3>2, PhotoOfHandler DEF Photographing, Settling, Arrow
  <2> QED BY <1>0, <2>3, <2>4
<1> QED BY <1>3, <1>4, <1>5, <1>6

(* Every step keeps PhotoInv while the updates of each user are handled    *)
(* one after the other.                                                    *)
LEMMA PhotoStep ==
  ASSUME Faults \cap {"write", "reply", "crash"} = {},
         TypeOK, FlowInv, KeysInv, MadeInv, PhotoInv, Serial, [Next]_vars
  PROVE  PhotoInv'
<1>0. TypeOK' /\ FlowInv'
  BY InvStep
<1>1. CASE UNCHANGED vars \/ Clean \/ DeadlinePasses
  <2>1. captchas' \subseteq captchas /\ handler' = handler
    BY <1>1 DEF vars, Clean, CleanerTick, CleanerDeleteRow, CleanerDeleteMessage,
                DeleteCaptchaByID, Without, DeadlinePasses
  <2>2. \A m \in Numbers : chat'[m] \in {chat[m], 0}
    <3>1. CASE CleanerDeleteMessage
      BY <3>1, DeletedOrNot DEF CleanerDeleteMessage
    <3>2. CASE ~CleanerDeleteMessage
      <4>1. UNCHANGED chat
        BY <1>1, <3>2 DEF vars, Clean, CleanerTick, CleanerDeleteRow, DeadlinePasses
      <4> QED BY <4>1
    <3> QED BY <3>1, <3>2
  <2>3. \A g \in Handlers : handler'[g].pc = handler[g].pc /\ SamePhoto(Row(g)', Row(g))
    BY <2>1 DEF SamePhoto, Row
  <2> QED BY <1>0, <2>1, <2>2, <2>3, PhotoKept
<1>2. CASE Arrives
  <2>1. /\ UNCHANGED <<captchas, chat>>
        /\ \E h \in Handlers :
             /\ Others(h) /\ handler[h].pc = "idle"
             /\ handler'[h].pc \in {"lookup", "find"}
    BY <1>2, ArrivalStep
  <2> QED BY <1>0, <2>1, PhotoOfHandler DEF Photographing, Settling
<1>3. ~Crash
  BY DEF Crash, May
<1> QED BY <1>0, <1>1, <1>2, <1>3, PhotoAfterMessage, PhotoAfterFind, PhotoAfterWork, Steps

(* If writes succeed, answers arrive and the process lives, and the        *)
(* updates of each user are handled one after the other, then whenever the *)
(* presses are done every live captcha's photo, if it is there, shows the  *)
(* stored code: after any number of refreshes, edits Telegram refuses and  *)
(* deleted messages.                                                       *)
THEOREM PhotoShowsCode ==
  ASSUME Faults \cap {"write", "reply", "crash"} = {}
  PROVE  Spec /\ []Serial => []PhotoShowsStoredCode
<1>1. TypeOK /\ FlowInv /\ KeysInv /\ MadeInv /\ PhotoInv /\ Serial /\ [Next]_vars => PhotoInv'
  BY PhotoStep
<1>2. TypeOK /\ FlowInv /\ MadeInv /\ [Next]_vars => MadeInv'
  BY MadeStep
<1>3. PhotoInv => PhotoShowsStoredCode
  BY DEF PhotoShowsStoredCode, PhotoInv, Quiet, At, Settling
<1> QED BY <1>1, <1>2, <1>3, InvInit, InvStep, KeysInit, KeysStep, MadeInit, PhotoInit,
           PTL DEF Spec

-----------------------------------------------------------------------------
(* SolvedInv is inductive as long as no write fails, the process does not  *)
(* die and the updates of each user are handled one after the other.       *)
LEMMA SolvedInit == Init => SolvedInv
BY DEF Init, SolvedInv, SolvedCaptchaIsGone, Adding, Idle

(* It is kept by a step of one handler that solves nothing, if what comes  *)
(* into the table or the handler's hands is not solved, and a handler that *)
(* is done with a solved captcha leaves no row of it.                      *)
LEMMA SolvedOfHandler ==
  ASSUME SolvedInv, NEW h \in Handlers, Others(h), solved' = solved,
         generated \in Nat, generated' \in Nat, generated <= generated',
         \A r \in captchas' : r.msg \in solved => r \in captchas,
         h \in Closing => \/ h \in Closing' /\ Row(h)'.msg = Row(h).msg
                          \/ \A r \in captchas' : r.msg # Row(h).msg,
         h \in Copying' /\ Row(h)'.msg \in solved => h \in Closing',
         h \in Adding' => Row(h)'.msg \notin solved
  PROVE  SolvedInv'
<1>1. \A g \in Handlers \ {h} : /\ handler'[g] = handler[g] /\ Row(g)' = Row(g)
                                /\ g \in Closing' <=> g \in Closing
                                /\ g \in Copying' <=> g \in Copying
                                /\ g \in Adding' <=> g \in Adding
  BY DEF Others, Row, Closing, Copying, Adding, At
<1>2. ASSUME NEW r \in captchas', r.msg \in solved
      PROVE  \E g \in Closing' : Row(g)'.msg = r.msg
  <2>1. PICK g \in Closing : Row(g).msg = r.msg
    BY <1>2 DEF SolvedInv, SolvedCaptchaIsGone
  <2>2. g \in Handlers
    BY DEF Closing
  <2>3. CASE g = h
    BY <1>2, <2>1, <2>3
  <2>4. CASE g # h
    BY <1>1, <2>1, <2>2, <2>4
  <2> QED BY <2>3, <2>4
<1>3. ASSUME NEW g \in Copying', Row(g)'.msg \in solved
      PROVE  g \in Closing'
  <2>1. g \in Handlers
    BY DEF Copying
  <2>2. CASE g # h
    BY <1>1, <1>3, <2>1, <2>2 DEF SolvedInv, SolvedCaptchaIsGone
  <2> QED BY <1>3, <2>2
<1>4. ASSUME NEW g \in Adding'
      PROVE  Row(g)'.msg \notin solved
  <2>1. g \in Handlers
    BY DEF Adding
  <2> QED BY <1>1, <2>1 DEF SolvedInv
<1>5. solved' \subseteq 1..generated'
  BY DEF SolvedInv
<1> QED BY <1>2, <1>3, <1>4, <1>5 DEF SolvedInv, SolvedCaptchaIsGone

(* The steps of the middleware: what it adds has a new message.            *)
LEMMA SolvedAfterMessage ==
  ASSUME TypeOK, FlowInv, SolvedInv, NEW h \in Handlers,
         LookupForMessage(h) \/ SendCaptcha(h) \/ SaveCaptcha(h)
  PROVE  SolvedInv'
<1>0. generated \in Nat
  BY NumbersAreNat DEF TypeOK
<1>1. CASE LookupForMessage(h)
  <2>1. /\ UNCHANGED <<captchas, solved>> /\ handler[h].pc = "lookup"
        /\ \/ Returns(h)
           \/ generated' = generated + 1 /\ Moves(h, "lookup", "send", Fresh(handler[h].user))
    BY <1>1, LookupStep
  <2>2. h \notin Closing
    BY <2>1 DEF Closing, At
  <2>3. CASE Returns(h)
    BY <1>0, <2>1, <2>2, <2>3, SolvedOfHandler DEF Returns, Idle, Copying, Adding
  <2>4. CASE generated' = generated + 1 /\ Moves(h, "lookup", "send", Fresh(handler[h].user))
    <3>1. Row(h)'.msg = generated + 1
      BY <2>4 DEF Moves, Fresh, New
    <3>2. Row(h)'.msg \notin solved
      BY <1>0, <3>1 DEF SolvedInv
    <3> QED BY <1>0, <2>1, <2>2, <2>4, <3>2, SolvedOfHandler DEF Moves, Copying
  <2> QED BY <2>1, <2>3, <2>4
<1>2. CASE SendCaptcha(h)
  <2>1. /\ handler[h].pc = "send" /\ UNCHANGED <<captchas, solved, generated>>
        /\ Return(h) \/ Goto(h, "save")
    BY <1>2 DEF SendCaptcha, At
  <2>2. h \notin Closing /\ Row(h).msg \notin solved
    BY <2>1 DEF Closing, At, SolvedInv, Adding
  <2>3. CASE Return(h)
    <3>1. Others(h) /\ handler'[h] = Idle
      BY <2>3, Returning
    <3> QED BY <1>0, <2>1, <2>2, <3>1, SolvedOfHandler DEF Idle, Copying, Adding
  <2>4. CASE Goto(h, "save")
    <3>1. Others(h) /\ handler'[h].pc = "save" /\ Row(h)' = Row(h)
      BY <2>4, Moving DEF Moves
    <3> QED BY <1>0, <2>1, <2>2, <3>1, SolvedOfHandler DEF Copying
  <2> QED BY <2>1, <2>3, <2>4
<1>3. CASE SaveCaptcha(h)
  <2>1. handler[h].pc = "save" /\ Return(h) /\ UNCHANGED <<solved, generated>>
    BY <1>3 DEF SaveCaptcha, At
  <2>2. h \notin Closing /\ Row(h).msg \notin solved /\ Row(h) \in Captcha
    BY <2>1, HasRow DEF Closing, At, SolvedInv, Adding, FlowInv
  <2> DEFINE new == [Row(h) EXCEPT !.id = inserted + 1]
  <2>3. captchas' \subseteq captchas \cup {new} /\ new.msg = Row(h).msg
    BY <1>3, <2>2 DEF SaveCaptcha, Captcha
  <2> HIDE DEF new
  <2>4. \A r \in captchas' : r.msg \in solved => r \in captchas
    BY <2>2, <2>3
  <2>5. Others(h) /\ handler'[h] = Idle
    BY <2>1, Returning
  <2> QED BY <1>0, <2>1, <2>2, <2>4, <2>5, SolvedOfHandler DEF Idle, Copying, Adding
<1> QED BY <1>1, <1>2, <1>3

(* The query: the row it copies is not one its own user is closing.        *)
LEMMA SolvedAfterFind ==
  ASSUME TypeOK, FlowInv, MadeInv, SolvedInv, Serial, NEW h \in Handlers, LookupForPress(h)
  PROVE  SolvedInv'
<1>0. generated \in Nat
  BY NumbersAreNat DEF TypeOK
<1>1. /\ UNCHANGED <<captchas, solved, generated>> /\ handler[h].pc = "find"
      /\ \/ Returns(h)
         \/ \E row \in GetCaptchaForUserID(handler[h].user) : Moves(h, "find", "check", row)
  BY FindStep
<1>2. h \notin Closing
  BY <1>1 DEF Closing, At
<1>3. CASE Returns(h)
  BY <1>0, <1>1, <1>2, <1>3, SolvedOfHandler DEF Returns, Idle, Copying, Adding
<1>4. ASSUME NEW row \in GetCaptchaForUserID(handler[h].user), Moves(h, "find", "check", row)
      PROVE  SolvedInv'
  <2>1. row \in captchas /\ row.user = handler[h].user /\ row \in Held
    BY DEF GetCaptchaForUserID, LiveRows, Held, Rows
  <2>2. row.msg \notin solved
    <3> SUFFICES ASSUME row.msg \in solved PROVE FALSE
      OBVIOUS
    <3>1. PICK g \in Closing : Row(g).msg = row.msg
      BY <2>1 DEF SolvedInv, SolvedCaptchaIsGone
    <3>2. g \in Copying
      BY DEF Closing, Copying, At
    <3>3. g = h
      BY <2>1, <3>1, <3>2, OneHandlerPerMessage
    <3> QED BY <1>2, <3>1, <3>3
  <2> QED BY <1>0, <1>1, <1>2, <1>4, <2>2, SolvedOfHandler DEF Moves, Adding
<1> QED BY <1>1, <1>3, <1>4

(* The captcha just solved is in nobody else's hands.                      *)
LEMMA SolvedAfterVerify ==
  ASSUME TypeOK, FlowInv, KeysInv, MadeInv, SolvedInv, Serial,
         NEW h \in Handlers, VerifySolver(h)
  PROVE  SolvedInv'
<1>1. /\ UNCHANGED <<captchas, generated>> /\ handler[h].pc = "verify"
      /\ solved' = solved \cup {Row(h).msg}
      /\ Moves(h, "verify", "close_message", Row(h))
  BY Moving DEF VerifySolver, At
<1>2. h \in Copying /\ Row(h) \in Held /\ Row(h) \in Rows /\ Row(h).user = handler[h].user
  BY <1>1, HasRow DEF Copying, Held, Rows, At, FlowInv
<1>3. h \in Closing' /\ Row(h)' = Row(h)
  BY <1>1 DEF Moves, Closing, At
<1>4. \A g \in Handlers \ {h} : /\ Row(g)' = Row(g)
                                /\ g \in Closing' <=> g \in Closing
                                /\ g \in Copying' <=> g \in Copying
                                /\ g \in Adding' <=> g \in Adding
  BY <1>1 DEF Moves, Others, Row, Closing, Copying, Adding, At
<1>5. ASSUME NEW r \in captchas', r.msg \in solved'
      PROVE  \E g \in Closing' : Row(g)'.msg = r.msg
  <2>1. CASE r.msg = Row(h).msg
    BY <1>3, <2>1
  <2>2. CASE r.msg \in solved
    <3>1. PICK g \in Closing : Row(g).msg = r.msg
      BY <1>1, <2>2 DEF SolvedInv, SolvedCaptchaIsGone
    <3>2. g \in Handlers /\ g # h
      BY <1>1 DEF Closing, At
    <3> QED BY <1>4, <3>1, <3>2
  <2> QED BY <1>1, <1>5, <2>1, <2>2
<1>6. ASSUME NEW g \in Copying', Row(g)'.msg \in solved'
      PROVE  g \in Closing'
  <2>1. g \in Handlers
    BY DEF Copying
  <2>2. CASE g # h
    <3>1. g \in Copying /\ Row(g).msg \in solved \cup {Row(h).msg}
      BY <1>1, <1>4, <1>6, <2>1, <2>2
    <3>2. Row(g).msg # Row(h).msg
      BY <1>2, <2>2, <3>1, OneHandlerPerMessage
    <3>3. g \in Closing
      BY <3>1, <3>2 DEF SolvedInv, SolvedCaptchaIsGone
    <3> QED BY <1>4, <2>1, <2>2, <3>3
  <2> QED BY <1>3, <2>2
<1>7. ASSUME NEW g \in Adding'
      PROVE  Row(g)'.msg \notin solved'
  <2>1. g \in Handlers /\ g # h
    BY <1>3 DEF Adding, Closing, At
  <2>2. g \in Adding /\ Row(g)' = Row(g)
    BY <1>4, <2>1
  <2>3. Row(h).msg # Row(g).msg
    BY <1>2, <2>2 DEF KeysInv
  <2> QED BY <1>1, <2>2, <2>3 DEF SolvedInv
<1>8. solved' \subseteq 1..generated'
  BY <1>1, <1>2 DEF SolvedInv, KeysInv
<1> QED BY <1>5, <1>6, <1>7, <1>8 DEF SolvedInv, SolvedCaptchaIsGone

(* The rest of a press: a solved captcha is not stored but deleted.        *)
LEMMA SolvedAfterWork ==
  ASSUME "write" \notin Faults, TypeOK, FlowInv, KeysInv, SolvedInv,
         NEW h \in Handlers, Works(h), ~VerifySolver(h)
  PROVE  SolvedInv'
<1>0. generated \in Nat
  BY NumbersAreNat DEF TypeOK
<1>1. /\ h \in Copying /\ Row(h) \in Rows
      /\ Returns(h) \/ Proceeds(h)
      /\ captchas' \subseteq captchas \/ StorePress(h)
      /\ solved' = solved
  <2>1. solved' = solved
    BY DEF Works, CheckExpired, CheckMessage, ApplyButton, EditPhoto, ValidateInput, StorePress,
           CloseMessage, CloseRow, DropRow, DropMessage
  <2> QED BY <2>1, WorkStep, WorkLeaves DEF Rows
<1>2. \A r \in captchas' : r.msg \in solved => r \in captchas
  <2>1. CASE StorePress(h)
    <3>1. captchas' \subseteq captchas \cup {Row(h)} /\ handler[h].pc = "store"
      BY <2>1 DEF StorePress, UpsertCaptcha, Without, At
    <3>2. h \notin Closing
      BY <3>1 DEF Closing, At
    <3>3. Row(h).msg \notin solved
      BY <1>1, <3>2 DEF SolvedInv, SolvedCaptchaIsGone
    <3> QED BY <3>1, <3>3
  <2> QED BY <1>1, <2>1
<1>3. Row(h).msg \in solved => h \in Closing
  BY <1>1 DEF SolvedInv, SolvedCaptchaIsGone
<1>4. ASSUME h \in Closing
      PROVE  CloseMessage(h) \/ CloseRow(h)
  BY <1>4 DEF Closing, Works, CheckExpired, CheckMessage, ApplyButton, EditPhoto, ValidateInput,
              StorePress, VerifySolver, DropRow, DropMessage, At
<1>5. CASE CloseRow(h)
  <2>1. Return(h) /\ captchas' = Without(Row(h).id) /\ generated' = generated
    BY <1>5 DEF CloseRow, May, DeleteCaptchaByID
  <2>2. \A r \in captchas' : r.msg # Row(h).msg
    BY <1>1, <2>1 DEF Without, KeysInv, Rows
  <2>3. Others(h) /\ handler'[h] = Idle
    BY <2>1, Returning
  <2> QED BY <1>0, <1>1, <1>2, <2>1, <2>2, <2>3, SolvedOfHandler DEF Idle, Copying, Adding
<1>6. CASE CloseMessage(h)
  <2>1. Moves(h, "close_message", "close_row", Row(h)) /\ generated' = generated
    BY <1>6, Moving DEF CloseMessage, At
  <2>2. h \in Closing' /\ Row(h)' = Row(h)
    BY <2>1 DEF Moves, Closing, At
  <2> QED BY <1>0, <1>1, <1>2, <2>1, <2>2, SolvedOfHandler DEF Moves, Adding
<1>7. CASE ~CloseRow(h) /\ ~CloseMessage(h)
  <2>1. h \notin Closing /\ Row(h).msg \notin solved
    BY <1>3, <1>4, <1>7
  <2>2. CASE Returns(h)
    BY <1>0, <1>1, <1>2, <2>1, <2>2, SolvedOfHandler DEF Returns, Idle, Copying, Adding
  <2>3. CASE Proceeds(h)
    <3>1. Others(h) /\ Row(h)'.msg = Row(h).msg /\ generated' \in {generated, generated + 1}
      BY <2>3 DEF Proceeds, Moves, Kin
    <3> QED BY <1>0, <1>1, <1>2, <2>1, <3>1, SolvedOfHandler
  <2> QED BY <1>1, <2>2, <2>3
<1> QED BY <1>5, <1>6, <1>7

LEMMA SolvedStep ==
  ASSUME Faults \cap {"write", "crash"} = {}, TypeOK, FlowInv,
         KeysInv, MadeInv, SolvedInv, Serial, [Next]_vars
  PROVE  SolvedInv'
<1>1. CASE UNCHANGED vars \/ Clean \/ DeadlinePasses
  <2>1. /\ captchas' \subseteq captchas
        /\ UNCHANGED <<handler, solved, generated>>
    BY <1>1 DEF vars, Clean, CleanerTick, CleanerDeleteRow, CleanerDeleteMessage,
                DeleteCaptchaByID, Without, DeadlinePasses
  <2>2. /\ Closing' = Closing /\ Copying' = Copying /\ Adding' = Adding
        /\ \A g \in Handlers : Row(g)' = Row(g)
    BY <2>1 DEF Closing, Copying, Adding, Row, At
  <2>3. Closing \subseteq Handlers /\ Copying \subseteq Handlers /\ Adding \subseteq Handlers
    BY DEF Closing, Copying, Adding
  <2> QED BY <2>1, <2>2, <2>3 DEF SolvedInv, SolvedCaptchaIsGone
<1>2. CASE Arrives
  <2>1. UNCHANGED <<captchas, solved, generated>> /\ generated \in Nat
    BY <1>2, ArrivalStep, NumbersAreNat DEF TypeOK
  <2>2. PICK h \in Handlers : /\ Others(h) /\ handler[h].pc = "idle"
                              /\ handler'[h].pc \in {"lookup", "find"}
    BY <1>2, ArrivalStep
  <2>3. h \notin Closing /\ h \notin Copying' /\ h \notin Adding'
    BY <2>2 DEF Closing, Copying, Adding, At
  <2> QED BY <2>1, <2>2, <2>3, SolvedOfHandler
<1>3. ~Crash
  BY DEF Crash, May
<1>4. ASSUME NEW h \in Handlers, Works(h)
      PROVE  SolvedInv'
  BY <1>4, SolvedAfterVerify, SolvedAfterWork
<1> QED BY <1>1, <1>2, <1>3, <1>4, SolvedAfterMessage, SolvedAfterFind, Steps

(* If writes succeed, the process lives and the updates of each user are   *)
(* handled one after the other, then a captcha that has been solved is in  *)
(* the hands of nobody but the handler that removes it, and in the table   *)
(* only until that handler has removed it: for any number of users whose   *)
(* presses overlap, and whatever Telegram refuses.                         *)
THEOREM SolvedIsGone ==
  ASSUME Faults \cap {"write", "crash"} = {}
  PROVE  Spec /\ []Serial => []SolvedCaptchaIsGone
<1>1. TypeOK /\ FlowInv /\ KeysInv /\ MadeInv /\ SolvedInv /\ Serial /\ [Next]_vars => SolvedInv'
  BY SolvedStep
<1>2. TypeOK /\ FlowInv /\ MadeInv /\ [Next]_vars => MadeInv'
  BY MadeStep
<1>3. SolvedInv => SolvedCaptchaIsGone
  BY DEF SolvedInv
<1> QED BY <1>1, <1>2, <1>3, InvInit, InvStep, KeysInit, KeysStep, MadeInit, SolvedInit,
           PTL DEF Spec
-----------------------------------------------------------------------------
(* ShownInv is inductive whatever interleaves, fails or dies.              *)
Kept == Rows \cup {Row(h) : h \in {g \in Handlers : At(g, "save")}}

AsMade(r, s) == r.msg = s.msg /\ r.code = s.code /\ r.deadline = s.deadline

(* A row that comes in is one that was there, or a refreshed one, or has   *)
(* its photo in the chat.                                                  *)
ComesFrom(row) ==
  (\E s \in Kept : AsMade(row, s)) \/ ~Unrefreshed(row) \/ chat'[row.msg] # 0

(* Photos that go are of solved captchas, strays or past their deadline.   *)
PhotosGo ==
  \A m \in Numbers : chat[m] # 0 => chat'[m] # 0 \/ m \in solved' \cup strays' \/ m <= passed'

Grows == solved \subseteq solved' /\ strays \subseteq strays'

LEMMA ShownInit == Init => ShownInv
BY DEF Init, ShownInv, Rows, Copying, Closing, Idle, At

(* A step that does no more keeps ShownInv.                                *)
LEMMA ShownKept ==
  ASSUME TypeOK, FlowInv, MadeInv, ShownInv, passed' \in {passed, passed + 1}, Grows, PhotosGo,
         \A row \in Kept' : ComesFrom(row),
         \A h \in Closing' : Row(h)'.msg \in solved',
         \A h \in Handlers : handler'[h].pc \in {"drop_row", "drop_message"} =>
           Row(h)'.deadline <= passed'
  PROVE  ShownInv'
<1>1. ASSUME NEW row \in Kept', Unrefreshed(row), ~(row.deadline <= passed'), chat'[row.msg] = 0
      PROVE  row.msg \in solved' \cup strays'
  <2>1. PICK s \in Kept : AsMade(row, s)
    BY <1>1 DEF ComesFrom
  <2>2. s \in Held
    BY DEF Kept, Held, Adding, At
  <2>3. /\ s.msg \in Numbers /\ s.deadline \in Nat /\ s.code = s.deadline
        /\ s.msg = row.msg /\ s.code = row.code /\ s.deadline = row.deadline
    BY <2>1, <2>2, HeldAreCaptchas, HeldBounds DEF AsMade, Captcha
  <2>4. passed \in Nat
    BY NumbersAreNat DEF TypeOK
  <2>5. Unrefreshed(s) /\ ~Expired(s)
    <3>1. ASSUME s.deadline <= passed PROVE FALSE
      <4>1. s.deadline <= passed'
        BY <2>3, <2>4, <3>1
      <4> QED BY <1>1, <2>3, <4>1
    <3>2. Unrefreshed(s)
      BY <1>1, <2>3 DEF Unrefreshed
    <3> QED BY <3>1, <3>2 DEF Expired
  <2>6. Seen(s.msg)
    BY <2>5 DEF ShownInv, Kept
  <2>7. ~(s.msg <= passed')
    BY <1>1, <2>3 DEF Unrefreshed
  <2> QED BY <1>1, <2>3, <2>6, <2>7 DEF Seen, PhotosGo, Grows
<1>2. \A row \in Kept' : Unrefreshed(row) /\ ~Expired(row)' => Seen(row.msg)'
  BY <1>1 DEF Seen, Expired
<1>3. \A row \in Kept' : Unrefreshed(row)' <=> Unrefreshed(row)
  BY DEF Unrefreshed
<1>4. \A h \in Handlers : (At(h, "drop_row") \/ At(h, "drop_message"))' => Expired(Row(h))'
  BY DEF At, Expired
<1> QED BY <1>2, <1>3, <1>4 DEF ShownInv, Kept

(* A step of one handler is one, if it is for that handler.                *)
LEMMA ShownOfHandler ==
  ASSUME TypeOK, FlowInv, MadeInv, ShownInv, NEW h \in Handlers, Others(h),
         passed' = passed, Grows, PhotosGo,
         \A row \in captchas' : \E s \in Kept : AsMade(row, s),
         h \in Copying' \/ handler'[h].pc = "save" => ComesFrom(Row(h)'),
         handler'[h].pc \in {"close_message", "close_row"} => Row(h)'.msg \in solved',
         handler'[h].pc \in {"drop_row", "drop_message"} => Row(h)'.deadline <= passed
  PROVE  ShownInv'
<1>1. \A g \in Handlers \ {h} : handler'[g] = handler[g] /\ Row(g)' = Row(g)
  BY DEF Others, Row
<1>2. ASSUME NEW row \in Kept' PROVE ComesFrom(row)
  <2>1. CASE row \in captchas'
    BY <2>1 DEF ComesFrom
  <2>2. ASSUME NEW g \in Handlers, row = Row(g)', g \in Copying' \/ handler'[g].pc = "save"
        PROVE  ComesFrom(row)
    <3>1. CASE g = h
      BY <2>2, <3>1
    <3>2. CASE g # h
      <4>1. row = Row(g) /\ (g \in Copying \/ At(g, "save"))
        BY <1>1, <2>2, <3>2 DEF Copying, At
      <4>2. row \in Kept
        BY <4>1 DEF Kept, Rows
      <4> QED BY <4>2 DEF ComesFrom, AsMade
    <3> QED BY <3>1, <3>2
  <2> QED BY <2>1, <2>2 DEF Kept, Rows, Copying, At
<1>3. ASSUME NEW g \in Closing' PROVE Row(g)'.msg \in solved'
  <2>1. g \in Handlers /\ handler'[g].pc \in {"close_message", "close_row"}
    BY DEF Closing, At
  <2>2. CASE g # h
    <3>1. g \in Closing
      BY <1>1, <2>1, <2>2 DEF Closing, At
    <3> QED BY <1>1, <2>1, <2>2, <3>1 DEF ShownInv, Grows
  <2> QED BY <2>1, <2>2
<1>4. ASSUME NEW g \in Handlers, handler'[g].pc \in {"drop_row", "drop_message"}
      PROVE  Row(g)'.deadline <= passed'
  BY <1>1, <1>4 DEF ShownInv, At, Expired
<1> QED BY <1>2, <1>3, <1>4, ShownKept

(* Deleting a message takes one photo away, sending one takes none.        *)
LEMMA OnePhotoGoes ==
  ASSUME TypeOK, NEW x, DeleteMessage(x)
  PROVE  \A m \in Numbers : chat[m] # 0 => chat'[m] # 0 \/ m = x
BY DEF DeleteMessage, TypeOK

LEMMA NoPhotoGoes ==
  ASSUME TypeOK, NEW row \in Captcha, NEW x, chat' = [chat EXCEPT ![x] = row.code]
  PROVE  PhotosGo
<1>1. row.code # 0
  BY NumbersAreNat DEF Captcha
<1> QED BY <1>1 DEF TypeOK, PhotosGo

(* The steps of the middleware.                                            *)
LEMMA ShownAfterMessage ==
  ASSUME TypeOK, FlowInv, MadeInv, ShownInv, NEW h \in Handlers,
         LookupForMessage(h) \/ SendCaptcha(h) \/ SaveCaptcha(h)
  PROVE  ShownInv'
<1>0. \A row \in captchas : \E s \in Kept : AsMade(row, s)
  BY DEF Kept, Rows, AsMade
<1>1. CASE LookupForMessage(h)
  <2>1. /\ UNCHANGED <<captchas, chat, passed, solved, strays>> /\ handler[h].pc = "lookup"
        /\ Returns(h) \/ Moves(h, "lookup", "send", Fresh(handler[h].user))
    BY <1>1, LookupStep
  <2>2. Others(h) /\ handler'[h].pc \in {"idle", "send"}
    BY <2>1 DEF Returns, Moves, Idle
  <2> QED BY <1>0, <2>1, <2>2, ShownOfHandler DEF Copying, PhotosGo, Grows
<1>2. CASE SendCaptcha(h)
  <2>1. handler[h].pc = "send" /\ UNCHANGED <<captchas, passed, solved, strays>>
    BY <1>2 DEF SendCaptcha, At
  <2>2. Row(h) \in Captcha
    BY <2>1, HasRow DEF At, FlowInv
  <2>3. PhotosGo /\ Grows
    <3>1. CASE UNCHANGED chat
      BY <2>1, <3>1 DEF PhotosGo, Grows
    <3>2. CASE chat' = [chat EXCEPT ![Row(h).msg] = Row(h).code]
      BY <2>1, <2>2, <3>2, NoPhotoGoes DEF Grows
    <3> QED BY <1>2, <3>1, <3>2 DEF SendCaptcha
  <2>4. CASE Return(h)
    <3>1. Others(h) /\ handler'[h].pc = "idle"
      BY <2>4, Returning DEF Idle
    <3> QED BY <1>0, <2>1, <2>3, <3>1, ShownOfHandler DEF Copying
  <2>5. CASE Goto(h, "save") /\ chat' = [chat EXCEPT ![Row(h).msg] = Row(h).code]
    <3>1. Others(h) /\ handler'[h].pc = "save" /\ Row(h)' = Row(h)
      BY <2>5, Moving DEF Moves
    <3>2. Row(h).code # 0 /\ Row(h).msg \in Numbers
      BY <2>2, NumbersAreNat DEF Captcha
    <3>3. ComesFrom(Row(h)')
      BY <2>5, <3>1, <3>2 DEF TypeOK, ComesFrom
    <3> QED BY <1>0, <2>1, <2>3, <3>1, <3>3, ShownOfHandler
  <2> QED BY <1>2, <2>4, <2>5 DEF SendCaptcha
<1>3. CASE SaveCaptcha(h)
  <2>1. /\ handler[h].pc = "save" /\ Return(h)
        /\ UNCHANGED <<chat, passed, solved, strays>>
    BY <1>3 DEF SaveCaptcha, At
  <2>2. Row(h) \in Captcha /\ Row(h) \in Kept
    BY <2>1, HasRow DEF At, FlowInv, Kept
  <2> DEFINE new == [Row(h) EXCEPT !.id = inserted + 1]
  <2>3. AsMade(new, Row(h)) /\ captchas' \subseteq captchas \cup {new}
    BY <1>3, <2>2 DEF AsMade, Captcha, SaveCaptcha
  <2> HIDE DEF new
  <2>4. \A row \in captchas' : \E s \in Kept : AsMade(row, s)
    BY <1>0, <2>2, <2>3
  <2>5. Others(h) /\ handler'[h].pc = "idle"
    BY <2>1, Returning DEF Idle
  <2> QED BY <2>1, <2>4, <2>5, ShownOfHandler DEF Copying, PhotosGo, Grows
<1> QED BY <1>1, <1>2, <1>3

(* The query: the row it copies is a row of the table.                     *)
LEMMA ShownAfterFind ==
  ASSUME TypeOK, FlowInv, MadeInv, ShownInv, NEW h \in Handlers, LookupForPress(h)
  PROVE  ShownInv'
<1>0. \A row \in captchas : row \in Kept /\ \E s \in Kept : AsMade(row, s)
  BY DEF Kept, Rows, AsMade
<1>1. /\ UNCHANGED <<captchas, chat, passed, solved, strays>> /\ handler[h].pc = "find"
      /\ \/ Returns(h)
         \/ \E row \in GetCaptchaForUserID(handler[h].user) : Moves(h, "find", "check", row)
  BY FindStep
<1>2. PhotosGo /\ Grows
  BY <1>1 DEF PhotosGo, Grows
<1>3. CASE Returns(h)
  BY <1>0, <1>1, <1>2, <1>3, ShownOfHandler DEF Returns, Idle, Copying
<1>4. ASSUME NEW row \in GetCaptchaForUserID(handler[h].user), Moves(h, "find", "check", row)
      PROVE  ShownInv'
  <2>1. row \in captchas
    BY DEF GetCaptchaForUserID, LiveRows
  <2>2. ComesFrom(Row(h)')
    BY <1>0, <1>4, <2>1 DEF Moves, ComesFrom
  <2> QED BY <1>0, <1>1, <1>2, <1>4, <2>2, ShownOfHandler DEF Moves
<1> QED BY <1>1, <1>3, <1>4

(* The rest of a press.  A solved captcha loses its photo; the photo of an *)
(* expired captcha goes with its row, or the photo pressed is a stray.     *)
LEMMA WorkPhotos ==
  ASSUME TypeOK, FlowInv, MadeInv, ShownInv, NEW h \in Handlers, Works(h)
  PROVE  PhotosGo /\ Grows
<1>1. /\ passed' = passed /\ Row(h) \in Captcha /\ Row(h) \in Held
  BY WorkStep, WorkLeaves DEF Held, Rows
<1>2. Grows
  BY DEF Grows, Works, CheckExpired, CheckMessage, ApplyButton, EditPhoto, ValidateInput,
         VerifySolver, StorePress, CloseMessage, CloseRow, DropRow, DropMessage
<1>3. CASE CloseMessage(h)
  <2>1. h \in Closing /\ solved' = solved
    BY <1>3 DEF CloseMessage, Closing
  <2>2. Row(h).msg = handler[h].msg
    BY <1>3 DEF CloseMessage, FlowInv, RowsInHand, Sound, Row, At
  <2>3. handler[h].msg \in solved'
    BY <2>1, <2>2 DEF ShownInv
  <2>4. \A m \in Numbers : chat[m] # 0 => chat'[m] # 0 \/ m = handler[h].msg
    BY <1>3, OnePhotoGoes DEF CloseMessage
  <2> QED BY <1>2, <2>3, <2>4 DEF PhotosGo
<1>4. CASE DropMessage(h)
  <2>1. \A m \in Numbers : chat[m] # 0 => chat'[m] # 0 \/ m = handler[h].msg
    BY <1>4, OnePhotoGoes DEF DropMessage
  <2>2. Row(h).deadline <= passed
    BY <1>4 DEF DropMessage, ShownInv, Expired
  <2>3. Row(h).msg <= Row(h).deadline /\ Row(h).msg \in Nat /\ Row(h).deadline \in Nat
    BY <1>1, HeldBounds
  <2>4. passed \in Nat
    BY NumbersAreNat DEF TypeOK
  <2>5. Row(h).msg <= passed'
    BY <1>1, <2>2, <2>3, <2>4
  <2>6. handler[h].msg = Row(h).msg \/ handler[h].msg \in strays'
    BY <1>4 DEF DropMessage
  <2> QED BY <1>2, <2>1, <2>5, <2>6 DEF PhotosGo
<1>5. CASE ~CloseMessage(h) /\ ~DropMessage(h)
  <2>1. UNCHANGED chat \/ chat' = [chat EXCEPT ![handler[h].msg] = Row(h).code]
    BY <1>5 DEF Works, CheckExpired, CheckMessage, ApplyButton, EditPhoto, ValidateInput,
                VerifySolver, StorePress, CloseRow, DropRow
  <2> QED BY <1>1, <1>2, <2>1, NoPhotoGoes DEF PhotosGo
<1> QED BY <1>3, <1>4, <1>5

LEMMA ShownAfterWork ==
  ASSUME TypeOK, FlowInv, MadeInv, ShownInv, NEW h \in Handlers, Works(h)
  PROVE  ShownInv'
<1>1. /\ passed' = passed /\ Row(h) \in Held /\ Row(h) \in Kept
      /\ Returns(h) \/ Proceeds(h)
      /\ PhotosGo /\ Grows
  BY WorkStep, WorkLeaves, WorkPhotos DEF Held, Kept, Rows
<1>2. \A row \in captchas' : \E s \in Kept : AsMade(row, s)
  <2>1. captchas' \subseteq captchas \cup {Row(h)}
    <3>1. CASE StorePress(h)
      BY <3>1 DEF StorePress, UpsertCaptcha, Without
    <3> QED BY <3>1, WorkLeaves
  <2> QED BY <1>1, <2>1 DEF Kept, Rows, AsMade
<1>3. CASE Returns(h)
  BY <1>1, <1>2, <1>3, ShownOfHandler DEF Returns, Idle, Copying
<1>4. CASE Proceeds(h)
  <2>1. /\ Others(h) /\ Arrow(handler[h].pc, handler'[h].pc)
        /\ Row(h)'.msg = Row(h).msg
    BY <1>4 DEF Proceeds, Moves, Kin
  <2>2. ComesFrom(Row(h)')
    <3>1. CASE handler'[h].pc = "edit"
      <4>1. Row(h)'.code = generated + 1 /\ Row(h)'.msg = Row(h).msg
        BY <1>4, <3>1 DEF Proceeds, Kin
      <4>2. Row(h).msg \in Nat /\ generated \in Nat /\ Row(h).msg <= generated
        BY <1>1, HeldBounds
      <4> QED BY <4>1, <4>2 DEF ComesFrom, Unrefreshed
    <3>2. CASE handler'[h].pc # "edit"
      <4>1. AsMade(Row(h)', Row(h))
        BY <1>4, <3>2 DEF Proceeds, Same, Kin, AsMade
      <4> QED BY <1>1, <4>1 DEF ComesFrom
    <3> QED BY <3>1, <3>2
  <2>3. ASSUME handler'[h].pc \in {"close_message", "close_row"}
        PROVE  Row(h)'.msg \in solved'
    <3>1. CASE handler[h].pc = "verify"
      <4>1. VerifySolver(h)
        BY <3>1 DEF Works, CheckExpired, CheckMessage, ApplyButton, EditPhoto, ValidateInput,
                    StorePress, CloseMessage, CloseRow, DropRow, DropMessage, At
      <4> QED BY <2>1, <4>1 DEF VerifySolver
    <3>2. CASE handler[h].pc = "close_message"
      <4>1. h \in Closing
        BY <3>2 DEF Closing, At
      <4> QED BY <1>1, <2>1, <4>1 DEF ShownInv, Grows
    <3> QED BY <2>1, <2>3, <3>1, <3>2 DEF Arrow
  <2>4. ASSUME handler'[h].pc \in {"drop_row", "drop_message"}
        PROVE  Row(h)'.deadline <= passed
    <3>1. Row(h)'.deadline = Row(h).deadline
      BY <1>4, <2>4 DEF Proceeds, Same
    <3>2. CASE handler[h].pc = "check"
      <4>1. CheckExpired(h)
        <5>1. ~CheckMessage(h) /\ ~ApplyButton(h)
          <6>1. ~CheckMessage(h)
            BY <2>4, Returning DEF CheckMessage, Idle
          <6>2. ApplyButton(h) => handler'[h].pc \in {"idle", "edit", "validate"}
            <7>1. Return(h) => handler'[h].pc = "idle"
              BY Returning DEF Idle
            <7>2. \A row : Pressed(h, "edit", row) => handler'[h].pc = "edit"
              BY Moving DEF Moves
            <7>3. \A row : Pressed(h, "validate", row) => handler'[h].pc = "validate"
              BY Moving DEF Moves
            <7> QED BY <7>1, <7>2, <7>3 DEF ApplyButton
          <6> QED BY <2>4, <6>1, <6>2
        <5> QED BY <3>2, <5>1 DEF Works, EditPhoto, ValidateInput, VerifySolver, StorePress,
                                  CloseMessage, CloseRow, DropRow, DropMessage, At
      <4> QED BY <3>1, <4>1 DEF CheckExpired, Expired
    <3>3. CASE handler[h].pc = "drop_row"
      BY <3>1, <3>3 DEF ShownInv, At, Expired
    <3> QED BY <2>1, <2>4, <3>2, <3>3 DEF Arrow
  <2> QED BY <1>1, <1>2, <2>1, <2>2, <2>3, <2>4, ShownOfHandler
<1> QED BY <1>1, <1>3, <1>4

(* The cleaner takes the photos of captchas whose deadline has passed.     *)
LEMMA ShownStep ==
  ASSUME TypeOK, FlowInv, MadeInv, ShownInv, [Next]_vars
  PROVE  ShownInv'
<1>0. passed \in Nat
  BY NumbersAreNat DEF TypeOK
<1>1. CASE UNCHANGED vars \/ Clean \/ DeadlinePasses
  <2>1. /\ captchas' \subseteq captchas /\ passed' \in {passed, passed + 1}
        /\ UNCHANGED <<handler, solved, strays>>
    BY <1>1 DEF vars, Clean, CleanerTick, CleanerDeleteRow, CleanerDeleteMessage,
                DeleteCaptchaByID, Without, DeadlinePasses
  <2>2. PhotosGo
    <3>1. CASE CleanerDeleteMessage
      <4>1. cleaner.deleted.msg <= passed /\ passed' = passed
        BY <3>1, MadeParts DEF CleanerDeleteMessage, Swept, Past
      <4> QED BY <3>1, <4>1, OnePhotoGoes DEF CleanerDeleteMessage, PhotosGo
    <3>2. CASE ~CleanerDeleteMessage
      <4>1. UNCHANGED chat
        BY <1>1, <3>2 DEF vars, Clean, CleanerTick, CleanerDeleteRow, DeadlinePasses
      <4> QED BY <4>1 DEF PhotosGo
    <3> QED BY <3>1, <3>2
  <2>3. /\ Kept' \subseteq Kept /\ Closing' = Closing
        /\ \A g \in Handlers : Row(g)' = Row(g) /\ handler'[g] = handler[g]
    BY <2>1 DEF Kept, Rows, Copying, Closing, Row, At
  <2>4. \A row \in Kept' : ComesFrom(row)
    BY <2>3 DEF ComesFrom, AsMade
  <2>5. \A h \in Closing' : Row(h)'.msg \in solved'
    BY <2>1, <2>3 DEF ShownInv, Closing
  <2>6. ASSUME NEW h \in Handlers, handler'[h].pc \in {"drop_row", "drop_message"}
        PROVE  Row(h)'.deadline <= passed'
    <3>1. Row(h) \in Held /\ Row(h).deadline <= passed
      BY <2>3, <2>6 DEF ShownInv, At, Expired, Held, Rows, Copying
    <3>2. Row(h).deadline \in Nat
      BY <3>1, HeldBounds
    <3> QED BY <1>0, <2>1, <2>3, <3>1, <3>2
  <2> QED BY <2>1, <2>2, <2>4, <2>5, <2>6, ShownKept DEF Grows
<1>2. CASE Arrives
  <2>1. /\ UNCHANGED <<captchas, chat, passed, solved, strays>>
        /\ \E h \in Handlers :
             /\ Others(h) /\ handler[h].pc = "idle"
             /\ handler'[h].pc \in {"lookup", "find"}
    BY <1>2, ArrivalStep
  <2>2. \A row \in captchas' : \E s \in Kept : AsMade(row, s)
    BY <2>1 DEF Kept, Rows, AsMade
  <2> QED BY <2>1, <2>2, ShownOfHandler DEF Copying, PhotosGo, Grows
<1>3. CASE Crash
  <2>1. /\ UNCHANGED <<captchas, chat, passed, solved, strays>>
        /\ \A h \in Handlers : handler'[h].pc = "idle"
    BY <1>3 DEF Crash, Idle
  <2>2. Kept' = captchas /\ Closing' = {}
    BY <2>1 DEF Kept, Rows, Copying, Closing, At
  <2>3. \A row \in Kept' : ComesFrom(row)
    BY <2>2 DEF ComesFrom, AsMade, Kept, Rows
  <2> QED BY <2>1, <2>2, <2>3, ShownKept DEF PhotosGo, Grows
<1> QED BY <1>1, <1>2, <1>3, ShownAfterMessage, ShownAfterFind, ShownAfterWork, Steps

(* A captcha that was never refreshed and can still be solved has its      *)
(* photo in the chat, unless it was solved or somebody's press under it    *)
(* was for an expired captcha of another message: for any users and        *)
(* handlers at once, with every fault and with restarts, although the      *)
(* callback and the cleaner delete photos by a number they read long       *)
(* before.                                                                 *)
THEOREM LiveIsShown == Spec => []LiveCaptchaIsShown
<1>1. TypeOK /\ FlowInv /\ MadeInv /\ ShownInv /\ [Next]_vars => ShownInv'
  BY ShownStep
<1>2. TypeOK /\ FlowInv /\ MadeInv /\ [Next]_vars => MadeInv'
  BY MadeStep
<1>3. ShownInv => LiveCaptchaIsShown
  BY DEF LiveCaptchaIsShown, ShownInv, Seen, Rows
<1> QED BY <1>1, <1>2, <1>3, InvInit, InvStep, MadeInit, ShownInit, PTL DEF Spec

-----------------------------------------------------------------------------
(* The user is told "You have been verified!" after the write.             *)
LEMMA ToldStep ==
  ASSUME "write" \notin Faults, TypeOK, FlowInv, ToldIsVerified, [Next]_vars
  PROVE  ToldIsVerified'
<1> SUFFICES ASSUME NEW h \in Handlers, handler'[h].pc = "close_message"
             PROVE  handler'[h].user \in verified'
  BY DEF ToldIsVerified, At
<1>1. verified \subseteq verified'
  <2>1. ASSUME NEW g \in Handlers, Works(g) PROVE verified \subseteq verified'
    BY <2>1 DEF Works, CheckExpired, CheckMessage, ApplyButton, EditPhoto, ValidateInput,
                StorePress, VerifySolver, CloseMessage, CloseRow, DropRow, DropMessage
  <2>2. ASSUME NEW g \in Handlers,
               LookupForMessage(g) \/ SendCaptcha(g) \/ SaveCaptcha(g) \/ LookupForPress(g)
        PROVE  verified \subseteq verified'
    BY <2>2 DEF LookupForMessage, SendCaptcha, SaveCaptcha, LookupForPress
  <2>3. CASE UNCHANGED vars \/ Clean \/ DeadlinePasses \/ Crash
    BY <2>3 DEF vars, Clean, CleanerTick, CleanerDeleteRow, CleanerDeleteMessage,
                DeadlinePasses, Crash
  <2>4. CASE Arrives
    BY <2>4, ArrivalStep
  <2> QED BY <2>1, <2>2, <2>3, <2>4, Steps
<1>2. CASE handler'[h] = handler[h]
  BY <1>1, <1>2 DEF ToldIsVerified, At
<1>3. ASSUME NEW g \in Handlers, Works(g), handler'[h] # handler[h]
      PROVE  handler'[h].user \in verified'
  <2>1. /\ g = h /\ Proceeds(h) /\ Row(h).user = handler[h].user
    BY <1>3, WorkStep DEF Returns, Proceeds, Moves, Others, Idle
  <2>2. handler[h].pc = "verify" /\ handler'[h].user = handler[h].user
    BY <2>1 DEF Proceeds, Arrow, Moves
  <2>3. VerifySolver(h)
    BY <1>3, <2>1, <2>2 DEF Works, CheckExpired, CheckMessage, ApplyButton, EditPhoto,
         ValidateInput, StorePress, CloseMessage, CloseRow, DropRow, DropMessage, At
  <2> QED BY <2>1, <2>2, <2>3 DEF VerifySolver, May
<1>4. ASSUME NEW g \in Handlers,
             LookupForMessage(g) \/ SendCaptcha(g) \/ SaveCaptcha(g) \/ LookupForPress(g)
      PROVE  handler'[h] = handler[h]
  <2>1. \/ Return(g)
        \/ \E pc \in {"send", "save", "check"} : Goto(g, pc) \/ \E row : GotoWith(g, pc, row)
    BY <1>4 DEF LookupForMessage, SendCaptcha, SaveCaptcha, LookupForPress
  <2>2. CASE Return(g)
    BY <2>2, Returning DEF Others, Idle
  <2>3. ASSUME NEW pc \in {"send", "save", "check"}, NEW row, GotoWith(g, pc, row) \/ Goto(g, pc)
        PROVE  handler'[h] = handler[h]
    <3>1. Others(g) /\ handler'[g].pc = pc
      BY <2>3, Moving DEF Moves
    <3> QED BY <3>1 DEF Others
  <2> QED BY <2>1, <2>2, <2>3
<1>5. CASE UNCHANGED vars \/ Clean \/ DeadlinePasses \/ Crash \/ Arrives
  <2>1. Arrives => handler'[h] = handler[h]
    BY ArrivalStep DEF Others
  <2>2. UNCHANGED vars \/ Clean \/ DeadlinePasses \/ Crash => handler'[h] = handler[h]
    BY DEF vars, Clean, CleanerTick, CleanerDeleteRow, CleanerDeleteMessage,
           DeadlinePasses, Crash, Idle
  <2> QED BY <1>2, <1>5, <2>1, <2>2
<1> QED BY <1>2, <1>3, <1>4, <1>5, Steps

(* Only a failed write can make the bot tell somebody who is not verified  *)
(* otherwise: no interleaving and no restart does.                         *)
THEOREM ToldAreVerified ==
  ASSUME "write" \notin Faults
  PROVE  Spec => []ToldIsVerified
<1>1. Init => ToldIsVerified
  BY DEF Init, ToldIsVerified, At, Idle
<1>2. TypeOK /\ FlowInv /\ ToldIsVerified /\ [Next]_vars => ToldIsVerified'
  BY ToldStep
<1> QED BY <1>1, <1>2, InvInit, InvStep, PTL DEF Spec
=============================================================================
