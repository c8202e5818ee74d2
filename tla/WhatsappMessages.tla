-------------------------- MODULE WhatsappMessages --------------------------
(***************************************************************************)
(* WhatsApp accounts, the messages sent and received through them and the  *)
(* notices of what became of a message (src/whatsapp).                     *)
(*                                                                         *)
(* A message is sent in two steps, the provider's API and then the row, so *)
(* that a crash may leave a message without a row, and a notice may come   *)
(* before the row.  The webhook handler reads the row of a notice in one   *)
(* statement and writes it in another.  The provider repeats notices and   *)
(* delivers them in any order.                                             *)
(*                                                                         *)
(* Abstractions.  A webhook carries several items, which are handled one   *)
(* after the other with nothing between them in common: each is a request  *)
(* of its own here.  Customers, orders, payments, phone numbers and texts  *)
(* are not represented; which active account a query finds is any of them. *)
(* That the provider took a message means that its answer has an id.       *)
(***************************************************************************)
EXTENDS Naturals

CONSTANTS Accounts, Messages,  \* row ids
          Sends,               \* the provider's ids of messages sent through it
          Inbounds,            \* the provider's ids of messages to us
          Notices,             \* what the provider may say of a message
          Requests,            \* requests being served at the same time
          None

ASSUME WhatsappAssumption ==
  /\ Notices \subseteq {"sent", "delivered", "read", "failed", "other"}
  /\ Sends \cap Inbounds = {}
  /\ None \notin Sends \cup Inbounds \cup Accounts \cup Messages

VARIABLES accounts,   \* whatsapp_accounts
          messages,   \* whatsapp_messages
          accepted,   \* the provider: the messages it took
          reported,   \* the provider: the notices it has of each message
          req,        \* where each request stands
          handled,    \* history: the notices that were answered and had a row
          origin,     \* history: the send each row was written for, if it was taken
          broken,     \* history: the sends whose answer or insert failed
          blurred,    \* history: messages of which two notices were handled at once
          alone,      \* history: account creations that no other has overlapped
          crowded     \* history: the last account was created while another was

links == <<origin, broken>>
vars == <<accounts, messages, accepted, reported, req, handled, links, blurred, alone, crowded>>

Timed == {"DELIVERED", "READ", "FAILED"}
Statuses == {"PENDING", "SENT", "RECEIVED"} \cup Timed
Templates == {"order_confirmation", "payment_received"}

\* mapWhatsappStatus.
Mapped(notice) ==
  CASE notice = "sent"      -> "SENT"
    [] notice = "delivered" -> "DELIVERED"
    [] notice = "read"      -> "READ"
    [] notice = "failed"    -> "FAILED"
    [] OTHER                -> "PENDING"

\* times are those of deliveredAt, readAt and failedAt that are set.
Row == [row : {"unborn", "stored"}, direction : {"INBOUND", "OUTBOUND"}, status : Statuses,
        whatsappMessageId : Sends \cup Inbounds \cup {None}, times : SUBSET Timed]

UnbornRow == [row |-> "unborn", direction |-> "OUTBOUND", status |-> "PENDING",
              whatsappMessageId |-> None, times |-> {}]
SentRow(id) == [row |-> "stored", direction |-> "OUTBOUND", status |-> "SENT",
                whatsappMessageId |-> id, times |-> {}]
\* (UnmarkedRow is a mistake.)
UnmarkedRow == [row |-> "stored", direction |-> "OUTBOUND", status |-> "PENDING",
                whatsappMessageId |-> None, times |-> {"FAILED"}]
FailedRow == [row |-> "stored", direction |-> "OUTBOUND", status |-> "FAILED",
              whatsappMessageId |-> None, times |-> {"FAILED"}]
ReceivedRow(id) == [row |-> "stored", direction |-> "INBOUND", status |-> "RECEIVED",
                    whatsappMessageId |-> id, times |-> {}]

Active == {a \in Accounts : accounts[a] = "active"}

(***************************************************************************)
(* A request.                                                              *)
(*   account      has deactivated found, creates an account, active or not *)
(*   call         waits for the provider to take a message of template     *)
(*   store        the provider took the message as id, its row comes next  *)
(*   storeFailed  something failed, the row that says so comes next        *)
(*   (origin is no part of the code: the send, if the provider took it)    *)
(*   update       found the row message of notice with times, writes next  *)
(*   receive      found an account for the inbound id, creates its row next *)
(***************************************************************************)
Idle == [pc |-> "idle", isActive |-> FALSE, found |-> {}, template |-> "order_confirmation",
         id |-> None, origin |-> None, message |-> None, notice |-> "other", times |-> {}]

Request == [pc : {"idle", "account", "call", "store", "storeFailed", "update", "receive"},
            isActive : BOOLEAN, found : SUBSET Accounts, template : Templates,
            id : Sends \cup Inbounds \cup {None}, origin : Sends \cup {None},
            message : Messages \cup {None}, notice : Notices \cup {"other"},
            times : SUBSET Timed]

TypeOK ==
  /\ accounts \in [Accounts -> {"unborn", "active", "inactive"}]
  /\ messages \in [Messages -> Row]
  /\ \A m \in Messages :
       /\ messages[m].row = "unborn" => messages[m] = UnbornRow
       /\ messages[m].direction = "INBOUND" =>
            /\ messages[m].whatsappMessageId \in Inbounds
            /\ messages[m].status = "RECEIVED" /\ messages[m].times = {}
       /\ messages[m].direction = "OUTBOUND" =>
            /\ messages[m].whatsappMessageId \in accepted \cup {None}
            /\ messages[m].status # "RECEIVED"
            /\ messages[m].row = "stored" /\ messages[m].whatsappMessageId = None =>
                 messages[m].status = "FAILED" /\ messages[m].times = {"FAILED"}
  /\ accepted \in SUBSET Sends
  /\ reported \in [Sends -> SUBSET Notices]
  /\ req \in [Requests -> Request]
  /\ \A w \in Requests :
       /\ req[w].pc = "store" => req[w].id \in accepted /\ req[w].origin = req[w].id
       /\ req[w].pc = "receive" => req[w].id \in Inbounds
       /\ req[w].pc = "update" =>
            /\ req[w].id \in accepted /\ req[w].message \in Messages
            /\ req[w].notice \in reported[req[w].id]
            /\ messages[req[w].message].row = "stored"
            /\ messages[req[w].message].whatsappMessageId = req[w].id
  /\ handled \in SUBSET (Sends \X Notices)
  /\ origin \in [Messages -> Sends \cup {None}]
  /\ broken \in SUBSET Sends
  /\ blurred \in SUBSET Sends
  /\ alone \in SUBSET Requests
  /\ crowded \in BOOLEAN

Init ==
  /\ accounts = [a \in Accounts |-> "unborn"]
  /\ messages = [m \in Messages |-> UnbornRow]
  /\ accepted = {} /\ reported = [s \in Sends |-> {}]
  /\ req = [w \in Requests |-> Idle]
  /\ origin = [m \in Messages |-> None] /\ broken = {}
  /\ handled = {} /\ blurred = {} /\ alone = {} /\ crowded = FALSE

----------------------------------------------------------------------------
(* The provider.  The notices it has stay: it may deliver each of them at   *)
(* any later time, any number of times and in any order.                    *)

Report(s, notice) ==
  /\ s \in accepted /\ notice \notin reported[s]
  /\ reported' = [reported EXCEPT ![s] = @ \cup {notice}]
  /\ UNCHANGED <<accounts, messages, accepted, req, handled, links, blurred, alone, crowded>>

----------------------------------------------------------------------------
(* createAccount, one transaction. *)

Flags == {"true", "false", "undefined"}

\* isActive !== false, and isActive ?? true.  (DeactivatesIfAsked is a mistake.)
DeactivatesIfAsked(flag) == flag = "true"
Deactivates(flag) == flag # "false"
Activates(flag) == flag # "false"

\* Creations of active accounts that have found the accounts to deactivate.
Activating == {w \in Requests : req[w].pc = "account" /\ req[w].isActive}

CreateAccountFind(w, flag) ==
  /\ req[w].pc = "idle"
  /\ req' = [req EXCEPT ![w] =
       [Idle EXCEPT !.pc = "account", !.isActive = Activates(flag),
                    !.found = IF Deactivates(flag) THEN Active ELSE {}]]
  /\ alone' = IF ~Activates(flag) THEN alone ELSE IF Activating = {} THEN {w} ELSE {}
  /\ UNCHANGED <<accounts, messages, accepted, reported, handled, links, blurred, crowded>>

CreateAccountCommit(w, a) ==
  /\ req[w].pc = "account" /\ accounts[a] = "unborn"
  /\ accounts' = [b \in Accounts |->
       IF b = a THEN IF req[w].isActive THEN "active" ELSE "inactive"
       ELSE IF b \in req[w].found THEN "inactive" ELSE accounts[b]]
  /\ crowded' = IF req[w].isActive THEN w \notin alone ELSE crowded
  /\ alone' = alone \ {w}
  /\ req' = [req EXCEPT ![w] = Idle]
  /\ UNCHANGED <<messages, accepted, reported, handled, links, blurred>>

----------------------------------------------------------------------------
(* Sending an order confirmation or a payment receipt. *)

SendBegin(w, template) ==
  /\ req[w].pc = "idle" /\ Active # {}
  /\ req' = [req EXCEPT ![w] = [Idle EXCEPT !.pc = "call", !.template = template]]
  /\ UNCHANGED <<accounts, messages, accepted, reported, handled, links, blurred, alone, crowded>>

CallAccepted(w, s) ==
  /\ req[w].pc = "call" /\ s \notin accepted
  /\ accepted' = accepted \cup {s}
  /\ req' = [req EXCEPT ![w] = [@ EXCEPT !.pc = "store", !.id = s, !.origin = s]]
  /\ UNCHANGED <<accounts, messages, reported, handled, links, blurred, alone, crowded>>

\* Only a confirmation catches what goes wrong, in the call or in the insert.
Caught(w, s) == IF req[w].template = "order_confirmation"
                THEN [req[w] EXCEPT !.pc = "storeFailed", !.id = None, !.origin = s] ELSE Idle

\* The provider refuses, or takes the message as s and its answer is lost.
CallFails(w) ==
  /\ req[w].pc = "call"
  /\ \E s \in (Sends \ accepted) \cup {None} :
       /\ accepted' = accepted \cup ({s} \ {None})
       /\ broken' = broken \cup ({s} \ {None})
       /\ req' = [req EXCEPT ![w] = Caught(w, s)]
  /\ UNCHANGED <<accounts, messages, reported, handled, origin, blurred, alone, crowded>>

StoreSent(w, m) ==
  /\ req[w].pc = "store" /\ messages[m].row = "unborn"
  /\ messages' = [messages EXCEPT ![m] = SentRow(req[w].id)]
  /\ origin' = [origin EXCEPT ![m] = req[w].origin]
  /\ req' = [req EXCEPT ![w] = Idle]
  /\ UNCHANGED <<accounts, accepted, reported, handled, broken, blurred, alone, crowded>>

StoreFails(w) ==
  /\ req[w].pc = "store"
  /\ broken' = broken \cup {req[w].id}
  /\ req' = [req EXCEPT ![w] = Caught(w, req[w].id)]
  /\ UNCHANGED <<accounts, messages, accepted, reported, handled, origin, blurred, alone, crowded>>

StoreFailed(w, m) ==
  /\ req[w].pc = "storeFailed" /\ messages[m].row = "unborn"
  /\ messages' = [messages EXCEPT ![m] = FailedRow]
  /\ origin' = [origin EXCEPT ![m] = req[w].origin]
  /\ req' = [req EXCEPT ![w] = Idle]
  /\ UNCHANGED <<accounts, accepted, reported, handled, broken, blurred, alone, crowded>>

----------------------------------------------------------------------------
(* The webhook: a notice. *)

\* The rows that findFirst may find.  (KnownOutbound is a mistake.)
KnownOutbound(s) ==
  {m \in Messages : messages[m].row = "stored" /\ messages[m].direction = "OUTBOUND"}
Known(s) == {m \in Messages : messages[m].row = "stored" /\ messages[m].whatsappMessageId = s}

\* The requests that have found the row of s and not written it.
Updating(s) == {w \in Requests : req[w].pc = "update" /\ req[w].id = s}

\* A notice that finds no row is answered like any other, and changes nothing.
StatusFind(w, s, notice, m) ==
  /\ req[w].pc = "idle" /\ notice \in reported[s] /\ m \in Known(s)
  /\ req' = [req EXCEPT ![w] =
       [Idle EXCEPT !.pc = "update", !.id = s, !.message = m, !.notice = notice,
                    !.times = messages[m].times]]
  /\ blurred' = IF Updating(s) = {} THEN blurred ELSE blurred \cup {s}
  /\ UNCHANGED <<accounts, messages, accepted, reported, handled, links, alone, crowded>>

\* The columns the notice is not about are written too, as they were found.
\* (TimesOfNotice is a mistake.)
TimesOfNotice(times, status) == Timed \cap {status}
TimesWritten(times, status) == times \cup (Timed \cap {status})

StatusUpdate(w) ==
  LET status == Mapped(req[w].notice)
  IN /\ req[w].pc = "update"
     /\ messages' = [messages EXCEPT ![req[w].message] =
          [@ EXCEPT !.status = status, !.times = TimesWritten(req[w].times, status)]]
     /\ handled' = handled \cup {<<req[w].id, req[w].notice>>}
     /\ req' = [req EXCEPT ![w] = Idle]
     /\ UNCHANGED <<accounts, accepted, reported, links, blurred, alone, crowded>>

(* The webhook: a message to us. *)

\* A message for a number without an active account is answered and dropped.
Receive(w, i) ==
  /\ req[w].pc = "idle" /\ Active # {}
  /\ req' = [req EXCEPT ![w] = [Idle EXCEPT !.pc = "receive", !.id = i]]
  /\ UNCHANGED <<accounts, messages, accepted, reported, handled, links, blurred, alone, crowded>>

ReceiveStore(w, m) ==
  /\ req[w].pc = "receive" /\ messages[m].row = "unborn"
  /\ messages' = [messages EXCEPT ![m] = ReceivedRow(req[w].id)]
  /\ req' = [req EXCEPT ![w] = Idle]
  /\ UNCHANGED <<accounts, accepted, reported, handled, links, blurred, alone, crowded>>

----------------------------------------------------------------------------

\* The statement the request stands before fails, or the process stops.
Abort(w) ==
  /\ req[w].pc # "idle"
  /\ req' = [req EXCEPT ![w] = Idle]
  /\ alone' = alone \ {w}
  /\ UNCHANGED <<accounts, messages, accepted, reported, handled, links, blurred, crowded>>

Serve(w) ==
  \/ \E flag \in Flags : CreateAccountFind(w, flag)
  \/ \E a \in Accounts : CreateAccountCommit(w, a)
  \/ \E template \in Templates : SendBegin(w, template)
  \/ \E s \in Sends : CallAccepted(w, s)
  \/ CallFails(w) \/ StoreFails(w)
  \/ \E m \in Messages : StoreSent(w, m) \/ StoreFailed(w, m) \/ ReceiveStore(w, m)
  \/ \E s \in Sends, notice \in Notices, m \in Messages : StatusFind(w, s, notice, m)
  \/ StatusUpdate(w)
  \/ \E i \in Inbounds : Receive(w, i)
  \/ Abort(w)

Next ==
  \/ \E w \in Requests : Serve(w)
  \/ \E s \in Sends, notice \in Notices : Report(s, notice)

Spec == Init /\ [][Next]_vars

----------------------------------------------------------------------------
(* Properties. *)

\* What the answered notices of the send s said of it.
Heard(s) == {Mapped(n) : n \in {n \in Notices : <<s, n>> \in handled}}

\* Every delivered, read and failed notice that was answered after its row was updated
\* is still in the row, and no other is, in whatever order they came and however often,
\* unless two notices of the message were handled at once (processStatuses).
NoticesKept ==
  \A m \in Messages :
    LET s == messages[m].whatsappMessageId
    IN s \in Sends \ blurred => messages[m].times = Timed \cap Heard(s)

\* Of a message the provider took there is one row at most.  Either it has the id, and
\* shows what answered notices of that very message said, SENT if there were none: also
\* when two are handled at once, it never shows a status without its time, nor anything
\* neither said (processStatuses).  Or it says FAILED without an id, which happens only
\* if the answer or the insert failed, and then no notice ever reaches it (the catch of
\* sendOrderCreated).
RowsOfSends ==
  /\ \A m, n \in Messages : origin[m] # None /\ origin[m] = origin[n] => m = n
  /\ \A m \in Messages : origin[m] # None =>
       LET s == origin[m]
           r == messages[m]
       IN \/ /\ r.whatsappMessageId = s /\ r.times \subseteq Heard(s)
             /\ r.status \in (IF Heard(s) = {} THEN {"SENT"} ELSE Heard(s))
             /\ r.status \in Timed => r.status \in r.times
          \/ s \in broken /\ Heard(s) = {} /\ r = FailedRow

\* After any number of creations and failures one account at most is active, unless the
\* last one created was created while another was (createAccount).
OneActiveAccount == ~crowded => \A a, b \in Active : a = b
=============================================================================
