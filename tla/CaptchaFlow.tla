----------------------------- MODULE CaptchaFlow -----------------------------
(***************************************************************************)
(* A captcha from the message that causes it to its removal: the captcha   *)
(* middleware, the callback of the keyboard under the captcha photo, the   *)
(* cleaner goroutine, and the table and the chat they share.               *)
(*                                                                         *)
(* telebot runs the handler of every update in a goroutine of its own, so  *)
(* handlers interleave wherever one of them waits for the database or for  *)
(* Telegram.  Each step below is one such wait with the code that follows  *)
(* it.  There is one chat; captions are left out.                          *)
(***************************************************************************)
EXTENDS Naturals, Sequences, FiniteSets

CONSTANTS
  Users,         \* Telegram users
  NoUser,        \* the user of a handler that handles no update
  Handlers,      \* goroutines handling updates
  Length,        \* number of digits of a captcha
  Buttons,       \* what users press
  Faults,        \* what may go wrong
  MaxGenerated   \* bound on the codes generated

Digits == {"right", "wrong"}

ASSUME FlowAssumption ==
  /\ NoUser \notin Users
  /\ Length \in Nat \ {0}
  /\ Buttons \subseteq Digits \cup {"backspace", "refresh"}
  /\ Faults \subseteq {"read", "write", "generate", "telegram", "reply", "crash"}
  /\ MaxGenerated \in Nat

VARIABLES
  captchas,    \* the table of captchas, a set of rows
  inserted,    \* the last id the table has given to a row
  generated,   \* number of codes generated so far
  passed,      \* the deadlines 1..passed have passed
  chat,        \* what the captcha message m shows: a code, or 0 for no message
  verified,    \* users this flow has put in the table verified; others put
               \* users there too, and nothing here asks who is in it
  handler,     \* what every goroutine is doing
  cleaner,     \* what the cleaner goroutine is doing
  solved,      \* history: the messages of the captchas that have been solved
  strays       \* history: the messages deleted for a captcha of another message

history == <<solved, strays>>
vars == <<captchas, inserted, generated, passed, chat, verified, handler, cleaner,
          solved, strays>>

(* The n-th call of GenerateCaptcha draws code n and sets the deadline n:  *)
(* every code has the same time to live, so deadlines pass in the order in *)
(* which they were set.  The message first sent with code n has number n.  *)
Numbers == 1..MaxGenerated

(* A row of the table, or a goroutine's copy of one (its id is 0 until it  *)
(* is inserted).  A digit of the input is right or wrong at its place.     *)
Captcha == [id : Nat, user : Users, msg : Numbers, code : Numbers,
            deadline : Numbers, input : Seq(Digits)]

NoRow == [id |-> 0, user |-> NoUser, msg |-> 0, code |-> 0, deadline |-> 0,
          input |-> <<>>]

Expired(row) == row.deadline <= passed

Validate(row) ==
  /\ Len(row.input) = Length
  /\ \A i \in DOMAIN row.input : row.input[i] = "right"
  /\ ~Expired(row)

(* pc names what a handler waits for: the middleware looks a captcha up,   *)
(* sends one and saves it; the callback finds the captcha of the user who  *)
(* pressed a button and checks it, edits the photo after a refresh,        *)
(* validates the input, and then stores the captcha or records the user as *)
(* verified and closes it; an expired captcha it drops.                    *)
AtMessage == {"lookup", "send", "save"}
AtPress   == {"find", "check", "edit", "validate", "store", "verify",
              "close_message", "close_row", "drop_row", "drop_message"}

Idle == [pc |-> "idle", user |-> NoUser, msg |-> 0, button |-> "none", row |-> NoRow]

HandlerStates ==
  {Idle} \cup [pc     : AtMessage \cup AtPress,
               user   : Users,
               msg    : Numbers \cup {0},          \* the message of a press
               button : Buttons \cup {"none"},
               row    : Captcha \cup {NoRow}]

May(fault) == fault \in Faults

At(h, pc) == handler[h].pc = pc
Row(h) == handler[h].row
Goto(h, pc) == handler' = [handler EXCEPT ![h] = [@ EXCEPT !.pc = pc]]
GotoWith(h, pc, row) ==
  handler' = [handler EXCEPT ![h] = [@ EXCEPT !.pc = pc, !.row = row]]
Pressed(h, pc, row) ==
  handler' = [handler EXCEPT ![h] = [@ EXCEPT !.pc = pc, !.row = row, !.button = "none"]]
Return(h) == handler' = [handler EXCEPT ![h] = Idle]

-----------------------------------------------------------------------------
(* Mutant: the query forgets the user.                                     *)
LiveRowsOfAnyone(u) == {row \in captchas : ~Expired(row)}

(* GetCaptchaForUserID, as a set of at most one row: of the user's rows    *)
(* that have not expired the one inserted first.                           *)
LiveRows(u) == {row \in captchas : row.user = u /\ ~Expired(row)}

GetCaptchaForUserID(u) ==
  {row \in LiveRows(u) : \A other \in LiveRows(u) : row.id <= other.id}

(* Mutant: the comparison the wrong way round.                             *)
GetUnexpiredCaptchas == {row \in captchas : ~Expired(row)}

GetOutdatedCaptchas == {row \in captchas : Expired(row)}

Without(id) == {row \in captchas : row.id # id}

DeleteCaptchaByID(id) == captchas' = Without(id)

(* Mutant: the row is inserted, not updated.                               *)
InsertCaptcha(row) == captchas' = captchas \cup {row}

(* UpsertCaptcha of a row that has an id; a row that is no longer there is *)
(* inserted again.                                                         *)
UpsertCaptcha(row) == captchas' = Without(row.id) \cup {row}

(* GenerateCaptcha uses up the next number; New is what it makes of it.    *)
Generate == generated < MaxGenerated /\ generated' = generated + 1

New(id, u, m) == [id |-> id, user |-> u, msg |-> m, code |-> generated + 1,
                  deadline |-> generated + 1, input |-> <<>>]

(* Mutant: the captcha is not given its user.                              *)
FreshWithoutUser(u) == New(0, NoUser, generated + 1)

Fresh(u) == New(0, u, generated + 1)

(* Captcha.Refresh: a new code, a new deadline and an empty input.         *)
Refreshed(row) == New(row.id, row.user, row.msg)

-----------------------------------------------------------------------------
Init ==
  /\ captchas = {} /\ inserted = 0
  /\ generated = 0 /\ passed = 0
  /\ chat = [m \in Numbers |-> 0]
  /\ verified = {}
  /\ handler = [h \in Handlers |-> Idle]
  /\ cleaner = [todo |-> {}, deleted |-> NoRow]
  /\ solved = {} /\ strays = {}

(* The middleware, on a message of a user whom the gate before it takes for *)
(* unverified: it asks a cache, which may not know yet of a user verified  *)
(* here, by the API or as an administrator, so the user may be anyone.     *)
MessageArrives(h, u) ==
  /\ At(h, "idle")
  /\ handler' = [handler EXCEPT ![h] = [Idle EXCEPT !.pc = "lookup", !.user = u]]
  /\ UNCHANGED <<captchas, inserted, generated, passed, chat, verified, cleaner, history>>

(* Mutant: the middleware does not look for a captcha first.               *)
LookupForMessageSkipped(h) ==
  /\ At(h, "lookup")
  /\ Generate /\ GotoWith(h, "send", Fresh(handler[h].user))
  /\ UNCHANGED <<captchas, inserted, passed, chat, verified, cleaner, history>>

(* A failed query is logged and taken for "no captcha".                    *)
LookupForMessage(h) ==
  /\ At(h, "lookup")
  /\ \/ /\ GetCaptchaForUserID(handler[h].user) # {}
        /\ Return(h) /\ UNCHANGED generated
     \/ /\ GetCaptchaForUserID(handler[h].user) = {} \/ May("read")
        /\ Generate /\ GotoWith(h, "send", Fresh(handler[h].user))
     \/ May("generate") /\ Return(h) /\ UNCHANGED generated
  /\ UNCHANGED <<captchas, inserted, passed, chat, verified, cleaner, history>>

(* Mutant: a captcha that could not be sent is saved all the same.         *)
SendCaptchaIgnoresError(h) ==
  /\ At(h, "send")
  /\ \/ chat' = [chat EXCEPT ![Row(h).msg] = Row(h).code]
     \/ May("telegram") /\ UNCHANGED chat
  /\ Goto(h, "save")
  /\ UNCHANGED <<captchas, inserted, generated, passed, verified, cleaner, history>>

(* A reply that is lost leaves a photo in the chat the bot knows nothing of.*)
SendCaptcha(h) ==
  /\ At(h, "send")
  /\ \/ chat' = [chat EXCEPT ![Row(h).msg] = Row(h).code] /\ Goto(h, "save")
     \/ /\ May("reply") /\ Return(h)
        /\ chat' = [chat EXCEPT ![Row(h).msg] = Row(h).code]
     \/ May("telegram") /\ Return(h) /\ UNCHANGED chat
  /\ UNCHANGED <<captchas, inserted, generated, passed, verified, cleaner, history>>

SaveCaptcha(h) ==
  /\ At(h, "save")
  /\ \/ /\ inserted' = inserted + 1
        /\ captchas' = captchas \cup {[Row(h) EXCEPT !.id = inserted + 1]}
     \/ May("write") /\ UNCHANGED <<captchas, inserted>>
  /\ Return(h)
  /\ UNCHANGED <<generated, passed, chat, verified, cleaner, history>>

(* The callback, on a button pressed under a photo that is in the chat, by *)
(* the user it was meant for or by another.                                *)
Press(h, u, m, button) ==
  /\ At(h, "idle") /\ chat[m] # 0
  /\ handler' = [handler EXCEPT ![h] = [pc |-> "find", user |-> u, msg |-> m,
                                        button |-> button, row |-> NoRow]]
  /\ UNCHANGED <<captchas, inserted, generated, passed, chat, verified, cleaner, history>>

LookupForPress(h) ==
  /\ At(h, "find")
  /\ \/ \E row \in GetCaptchaForUserID(handler[h].user) : GotoWith(h, "check", row)
     \/ GetCaptchaForUserID(handler[h].user) = {} /\ Return(h)
     \/ May("read") /\ Return(h)
  /\ UNCHANGED <<captchas, inserted, generated, passed, chat, verified, cleaner, history>>

(* Time has gone on since the query: the captcha may have expired.         *)
CheckExpired(h) ==
  /\ At(h, "check") /\ Expired(Row(h))
  /\ Goto(h, "drop_row")
  /\ UNCHANGED <<captchas, inserted, generated, passed, chat, verified, cleaner, history>>

CheckMessage(h) ==
  /\ At(h, "check") /\ ~Expired(Row(h)) /\ Row(h).msg # handler[h].msg
  /\ Return(h)
  /\ UNCHANGED <<captchas, inserted, generated, passed, chat, verified, cleaner, history>>

(* Mutant: a digit counts under whatever photo it was pressed.             *)
ApplyButtonAnywhere(h) ==
  /\ At(h, "check") /\ ~Expired(Row(h))
  /\ handler[h].button \in Digits
  /\ Pressed(h, "validate", [Row(h) EXCEPT !.input = Append(@, handler[h].button)])
  /\ UNCHANGED <<captchas, inserted, generated, passed, chat, verified, cleaner, history>>

ApplyButton(h) ==
  /\ At(h, "check") /\ ~Expired(Row(h)) /\ Row(h).msg = handler[h].msg
  /\ LET row == Row(h)
         button == handler[h].button
     IN  \/ /\ button = "refresh"
            /\ \/ Generate /\ Pressed(h, "edit", Refreshed(row))
               \/ May("generate") /\ Return(h) /\ UNCHANGED generated
         \/ /\ button = "backspace"            \* no digit, nothing to take back
            /\ Pressed(h, "validate", [row EXCEPT !.input = SubSeq(@, 1, Len(@) - 1)])
            /\ UNCHANGED generated
         \/ /\ button \in Digits
            /\ Pressed(h, "validate", [row EXCEPT !.input = Append(@, button)])
            /\ UNCHANGED generated
  /\ UNCHANGED <<captchas, inserted, passed, chat, verified, cleaner, history>>

(* Mutant: the photo is not replaced.                                      *)
EditPhotoForgotten(h) ==
  /\ At(h, "edit")
  /\ Goto(h, "validate")
  /\ UNCHANGED <<captchas, inserted, generated, passed, chat, verified, cleaner, history>>

(* Telegram refuses to edit a message that is gone.                        *)
EditPhoto(h) ==
  /\ At(h, "edit")
  /\ LET m == handler[h].msg
         show == chat[m] # 0 /\ chat' = [chat EXCEPT ![m] = Row(h).code]
     IN  \/ show /\ Goto(h, "validate")
         \/ May("reply") /\ show /\ Return(h)
         \/ (chat[m] = 0 \/ May("telegram")) /\ Return(h) /\ UNCHANGED chat
  /\ UNCHANGED <<captchas, inserted, generated, passed, verified, cleaner, history>>

(* Mutants: a wrong input stays, and a wrong input closes the captcha.     *)
ValidateInputKeepsWrong(h) ==
  /\ At(h, "validate")
  /\ \/ Validate(Row(h)) /\ Goto(h, "verify")
     \/ ~Validate(Row(h)) /\ Goto(h, "store")
  /\ UNCHANGED <<captchas, inserted, generated, passed, chat, verified, cleaner, history>>

ValidateInputClosesWrong(h) ==
  /\ At(h, "validate")
  /\ \/ Validate(Row(h)) /\ Goto(h, "verify")
     \/ ~Validate(Row(h)) /\ Len(Row(h).input) >= Length /\ Goto(h, "close_message")
     \/ ~Validate(Row(h)) /\ Len(Row(h).input) < Length /\ Goto(h, "store")
  /\ UNCHANGED <<captchas, inserted, generated, passed, chat, verified, cleaner, history>>

ValidateInput(h) ==
  /\ At(h, "validate")
  /\ \/ Validate(Row(h)) /\ Goto(h, "verify")
     \/ /\ ~Validate(Row(h)) /\ Len(Row(h).input) >= Length
        /\ GotoWith(h, "store", [Row(h) EXCEPT !.input = <<>>])
     \/ /\ ~Validate(Row(h)) /\ Len(Row(h).input) < Length
        /\ Goto(h, "store")
  /\ UNCHANGED <<captchas, inserted, generated, passed, chat, verified, cleaner, history>>

(* The user is told "You have been verified!" in either case.              *)
VerifySolver(h) ==
  /\ At(h, "verify")
  /\ \/ verified' = verified \cup {Row(h).user}
     \/ May("write") /\ UNCHANGED verified
  /\ solved' = solved \cup {Row(h).msg}
  /\ Goto(h, "close_message")
  /\ UNCHANGED <<captchas, inserted, generated, passed, chat, cleaner, strays>>

DeleteMessage(m) ==
  \/ chat' = [chat EXCEPT ![m] = 0]
  \/ May("telegram") /\ UNCHANGED chat

CloseMessage(h) ==
  /\ At(h, "close_message")
  /\ DeleteMessage(handler[h].msg)
  /\ Goto(h, "close_row")
  /\ UNCHANGED <<captchas, inserted, generated, passed, verified, cleaner, history>>

(* Mutant: the solved captcha stays in the table.                          *)
CloseRowForgotten(h) ==
  /\ At(h, "close_row")
  /\ Return(h)
  /\ UNCHANGED <<captchas, inserted, generated, passed, chat, verified, cleaner, history>>

CloseRow(h) ==
  /\ At(h, "close_row")
  /\ \/ DeleteCaptchaByID(Row(h).id)
     \/ May("write") /\ UNCHANGED captchas
  /\ Return(h)
  /\ UNCHANGED <<inserted, generated, passed, chat, verified, cleaner, history>>

StorePress(h) ==
  /\ At(h, "store")
  /\ \/ UpsertCaptcha(Row(h))
     \/ May("write") /\ UNCHANGED captchas
  /\ Return(h)
  /\ UNCHANGED <<inserted, generated, passed, chat, verified, cleaner, history>>

DropRow(h) ==
  /\ At(h, "drop_row")
  /\ \/ DeleteCaptchaByID(Row(h).id) /\ Goto(h, "drop_message")
     \/ May("write") /\ Return(h) /\ UNCHANGED captchas
  /\ UNCHANGED <<inserted, generated, passed, chat, verified, cleaner, history>>

(* The message of the press goes, whichever message the row was for.       *)
DropMessage(h) ==
  /\ At(h, "drop_message")
  /\ DeleteMessage(handler[h].msg)
  /\ strays' = strays \cup ({handler[h].msg} \ {Row(h).msg})
  /\ Return(h)
  /\ UNCHANGED <<captchas, inserted, generated, passed, verified, cleaner, solved>>

-----------------------------------------------------------------------------
(* The cleaner works on a snapshot of the outdated rows; deleted is the    *)
(* row whose message it deletes next.                                      *)
CleanerTick ==
  /\ cleaner.todo = {} /\ cleaner.deleted = NoRow
  /\ cleaner' = [cleaner EXCEPT !.todo = GetOutdatedCaptchas]
  /\ UNCHANGED <<captchas, inserted, generated, passed, chat, verified, handler, history>>

CleanerDeleteRow ==
  /\ cleaner.deleted = NoRow
  /\ \E row \in cleaner.todo :
       \/ /\ DeleteCaptchaByID(row.id)
          /\ cleaner' = [todo |-> cleaner.todo \ {row}, deleted |-> row]
       \/ /\ May("write") /\ UNCHANGED captchas
          /\ cleaner' = [cleaner EXCEPT !.todo = @ \ {row}]
  /\ UNCHANGED <<inserted, generated, passed, chat, verified, handler, history>>

CleanerDeleteMessage ==
  /\ cleaner.deleted # NoRow
  /\ DeleteMessage(cleaner.deleted.msg)
  /\ cleaner' = [cleaner EXCEPT !.deleted = NoRow]
  /\ UNCHANGED <<captchas, inserted, generated, passed, verified, handler, history>>

Clean == CleanerTick \/ CleanerDeleteRow \/ CleanerDeleteMessage

DeadlinePasses ==
  /\ passed < generated
  /\ passed' = passed + 1
  /\ UNCHANGED <<captchas, inserted, generated, chat, verified, handler, cleaner, history>>

(* The process dies and is started again.                                  *)
Crash ==
  /\ May("crash")
  /\ handler' = [h \in Handlers |-> Idle]
  /\ cleaner' = [todo |-> {}, deleted |-> NoRow]
  /\ UNCHANGED <<captchas, inserted, generated, passed, chat, verified, history>>

Continue(h) ==
  \/ LookupForMessage(h) \/ SendCaptcha(h) \/ SaveCaptcha(h)
  \/ LookupForPress(h) \/ CheckExpired(h) \/ CheckMessage(h) \/ ApplyButton(h)
  \/ EditPhoto(h) \/ ValidateInput(h) \/ StorePress(h)
  \/ VerifySolver(h) \/ CloseMessage(h) \/ CloseRow(h)
  \/ DropRow(h) \/ DropMessage(h)

Next ==
  \/ \E h \in Handlers, u \in Users :
       \/ MessageArrives(h, u)
       \/ \E m \in Numbers, button \in Buttons : Press(h, u, m, button)
  \/ \E h \in Handlers : Continue(h)
  \/ Clean
  \/ DeadlinePasses
  \/ Crash

Spec == Init /\ [][Next]_vars

(* Goroutines are scheduled, the cleaner's timer fires and time passes.    *)
Fairness ==
  /\ \A h \in Handlers : WF_vars(Continue(h))
  /\ WF_vars(Clean)
  /\ WF_vars(DeadlinePasses)

FairSpec == Spec /\ Fairness
-----------------------------------------------------------------------------
(* Every variable has its type.                                            *)
TypeOK ==
  /\ captchas \subseteq Captcha
  /\ inserted \in Nat
  /\ generated \in Numbers \cup {0}
  /\ passed \in 0..generated
  /\ chat \in [Numbers -> Numbers \cup {0}]
  /\ verified \subseteq Users
  /\ handler \in [Handlers -> HandlerStates]
  /\ cleaner \in [todo : SUBSET Captcha, deleted : Captcha \cup {NoRow}]
  /\ solved \subseteq Numbers /\ strays \subseteq Numbers \cup {0}

(* No stored captcha has all its digits: a complete input is taken at once,*)
(* as the solution or as a failed attempt that starts over.  With presses  *)
(* handled at once, lost writes and restarts, a captcha stored with a      *)
(* complete wrong input could never be solved again.                       *)
InputNeverComplete == \A row \in captchas : Len(row.input) < Length

(* The table never holds two captchas for one message or under one id.     *)
RowsAreDistinct ==
  \A r1, r2 \in captchas : r1.id = r2.id \/ r1.msg = r2.msg => r1 = r2

(* Only the captcha's own user becomes verified by it, by a press under    *)
(* its own message, and for digits that are all right.                     *)
VerifiedBySolving ==
  [][\A u \in verified' \ verified :
       \E h \in Handlers :
         /\ handler[h].user = u /\ Row(h).user = u /\ Row(h).msg = handler[h].msg
         /\ Row(h).input = [i \in 1..Length |-> "right"]]_vars

(* What InputNeverComplete and VerifiedBySolving rest on: the copy of a row*)
(* in a handler's hands is the pressing user's, from the check on it is    *)
(* the one of the pressed message, and its input is complete only between  *)
(* the button and the validation, or when it is the solution.              *)
Sound(s) ==
  /\ s.pc \notin {"idle", "lookup", "find"} => s.row \in Captcha /\ s.row.user = s.user
  /\ s.pc \in {"edit", "validate", "verify", "close_message", "close_row"} =>
       s.row.msg = s.msg
  /\ s.pc \in {"send", "save", "check", "edit", "store"} => Len(s.row.input) < Length
  /\ s.pc = "validate" => Len(s.row.input) <= Length
  /\ s.pc = "verify" => s.row.input = [i \in 1..Length |-> "right"]

RowsInHand == \A h \in Handlers : Sound(handler[h])

FlowInv == InputNeverComplete /\ RowsInHand

(* Handlers that are about to add a row, and handlers with a copy of one.  *)
Adding == {h \in Handlers : handler[h].pc \in {"send", "save"}}
Copying == {h \in Handlers : handler[h].pc \notin {"idle", "lookup", "find", "send", "save"}}

Rows == captchas \cup {Row(h) : h \in Copying}

(* What RowsAreDistinct rests on: an id belongs to one message for good,   *)
(* in the table and in the copies a handler may put back after the row was *)
(* deleted, and the message a handler has just sent is nobody else's.      *)
KeysInv ==
  /\ \A r \in Rows : r.id \in 1..inserted /\ r.msg \in 1..generated
  /\ \A r1, r2 \in Rows : r1.id = r2.id <=> r1.msg = r2.msg
  /\ \A r1, r2 \in captchas : r1.id = r2.id => r1 = r2
  /\ \A h \in Adding : /\ Row(h).msg \in 1..generated
                       /\ \A r \in Rows : r.msg # Row(h).msg
                       /\ \A g \in Adding : Row(g).msg = Row(h).msg => g = h

(* A row no refresh has given another code: refreshing changes the code and *)
(* the deadline of the row but not its message.                            *)
Unrefreshed(row) == row.code = row.msg

-----------------------------------------------------------------------------
(* The updates of one user are handled one after the other.  telebot       *)
(* promises no such thing; what follows on it is what a user may expect    *)
(* who waits for the answer to every press.                                *)
Serial ==
  \A g, h \in Handlers : handler[g].user = handler[h].user /\ ~At(g, "idle") => g = h

(* What OneLiveCaptcha rests on: while a captcha is being made for a user  *)
(* there is none to solve, and while a press is being handled there is     *)
(* none besides the one in hand.                                           *)
LiveInv ==
  /\ \A r1, r2 \in captchas :
       r1.user = r2.user /\ ~Expired(r1) /\ ~Expired(r2) => r1 = r2
  /\ \A h \in Handlers : At(h, "send") \/ At(h, "save") \/ At(h, "drop_message") =>
       \A row \in captchas : row.user = handler[h].user => Expired(row)
  /\ \A h \in Copying : \A row \in captchas :
       row.user = handler[h].user /\ ~Expired(row) => row.id = Row(h).id

(* Handlers that have taken a captcha as solved and are to remove it.      *)
Closing == {h \in Handlers : At(h, "close_message") \/ At(h, "close_row")}

(* What PhotoShowsStoredCode rests on: a photo shows the code of the row in *)
(* the hands of the handler of a press, from the edit of the photo until   *)
(* the row is stored.                                                      *)
Settling == {"validate", "store", "verify", "close_message", "close_row"}

PhotoInv ==
  /\ \A row \in captchas :
       \/ chat[row.msg] \in {row.code, 0}
       \/ \E h \in Handlers : /\ handler[h].pc \in Settling
                             /\ Row(h).msg = row.msg /\ chat[row.msg] = Row(h).code
  /\ \A h \in Handlers : handler[h].pc \in Settling \cup {"save", "check"} =>
       chat[Row(h).msg] \in {Row(h).code, 0}

(* What the codes tell of the deadlines: both are drawn together, after    *)
(* the message was first sent, so a captcha that was never refreshed has   *)
(* expired when any row of its message has.                                *)
MadeTogether(row) == row.code = row.deadline /\ row.msg <= row.code /\ row.code <= generated

Past(row) == row # NoRow => row.msg <= passed

MadeInv ==
  /\ \A row \in Rows \cup {Row(h) : h \in Adding} : MadeTogether(row)
  /\ \A row \in cleaner.todo \cup {cleaner.deleted} : Past(row)
  /\ \A r1, r2 \in Rows \cup {Row(h) : h \in Adding} : r1.msg = r2.msg => r1.user = r2.user

(* What LiveCaptchaIsShown rests on: the photo of every row, in the table  *)
(* or in hand, that may still be solved is there or went for a reason, and *)
(* a handler is where it is only for a reason.                             *)
Seen(m) == chat[m] # 0 \/ m \in solved \cup strays

ShownInv ==
  /\ \A row \in Rows \cup {Row(h) : h \in {g \in Handlers : At(g, "save")}} :
       Unrefreshed(row) /\ ~Expired(row) => Seen(row.msg)
  /\ \A h \in Closing : Row(h).msg \in solved
  /\ \A h \in Handlers : At(h, "drop_row") \/ At(h, "drop_message") => Expired(Row(h))

Quiet == /\ \A h \in Handlers : At(h, "idle")
         /\ cleaner.deleted = NoRow

(* "User already has a captcha, skip the current message"                  *)
(* (middlewares.go:348): a user has at most one captcha to solve.          *)
OneLiveCaptcha == \A u \in Users : Cardinality(LiveRows(u)) <= 1

(* The photo above a keyboard shows the code the presses are checked       *)
(* against.                                                                *)
PhotoShowsStoredCode ==
  Quiet => \A row \in captchas : ~Expired(row) => chat[row.msg] \in {row.code, 0}

(* A captcha that can still be solved has its photo in the chat, whatever  *)
(* presses overlap, whatever fails and whenever the process dies: neither  *)
(* a captcha whose photo was never sent nor one whose photo the callback   *)
(* or the cleaner took for outdated stays in the table.  The photo goes    *)
(* first only if the captcha was solved, if a press under it was for some- *)
(* body's expired captcha (see DropsItsOwn), or after a refresh (see       *)
(* CleanerSparesLive).                                                     *)
LiveCaptchaIsShown ==
  \A row \in captchas :
    Unrefreshed(row) /\ ~Expired(row) => chat[row.msg] # 0 \/ row.msg \in solved \cup strays

(* A captcha that has been solved is in the table only as long as its      *)
(* solver's handler is about to delete it, and in no other handler's hands:*)
(* it cannot be solved again, and nobody puts it back.                     *)
SolvedCaptchaIsGone ==
  \A m \in solved :
    /\ \A row \in captchas : row.msg = m => \E h \in Closing : Row(h).msg = m
    /\ \A h \in Copying : Row(h).msg = m => h \in Closing

(* What it rests on: a captcha on its way to the table is a new one.       *)
SolvedInv ==
  /\ SolvedCaptchaIsGone
  /\ solved \subseteq 1..generated
  /\ \A h \in Adding : Row(h).msg \notin solved

(* The cleaner deletes only what has expired ("outdated captcha deleted",  *)
(* main.go:205).                                                           *)
CleanerSparesLive ==
  [][\A row \in captchas :
       CleanerDeleteRow /\ row \notin captchas' => Expired(row)]_vars

(* The callback deletes the message of the captcha that has expired       *)
(* ("captcha message", telegram.go:159).  It does not: see                 *)
(* MCCaptchaFlow_others.cfg.                                               *)
DropsItsOwn == strays = {}

(* "You have been verified!" (telegram.go:263) is said to those who are.   *)
ToldIsVerified ==
  \A h \in Handlers : At(h, "close_message") => handler[h].user \in verified

(* A stored press is to "Reset the expiration time" (telegram.go:295).     *)
PressResetsExpiration ==
  [][\A row \in captchas, h \in Handlers :
       At(h, "store") /\ Row(h).id = row.id /\ Row(h) \in captchas'
         => Row(h).deadline # row.deadline]_vars

(* No captcha stays in the table for good once it has expired, whatever    *)
(* handlers put back: again and again the row of a message is gone, or not *)
(* expired.                                                                *)
ExpiredCaptchasAreRemoved ==
  \A m \in Numbers : []<>(\A row \in captchas : row.msg = m => ~Expired(row))
=============================================================================
