-------------------------------- MODULE Mail --------------------------------
(***************************************************************************)
(* A mail is an event of the process: EventsEmitter.sendEmail returns once *)
(* the listener has started, and the request that sent it never learns     *)
(* what came of it.  EmailService renders the mail and asks one provider   *)
(* after the other until one does not throw.  A provider throws when it    *)
(* refuses the mail, and also when it has taken it and its answer is lost. *)
(***************************************************************************)
EXTENDS Naturals, Sequences

CONSTANTS
  Mails,       \* mails that the requests of the other modules send
  Providers    \* Resend, Gmail, MailerSend and Brevo, in this order

ASSUME MailAssumption == Providers \in Seq(STRING) /\ Providers # << >>

VARIABLES
  letter,      \* where each mail is, and the provider that is asked next
  copies,      \* history: copies that a provider has taken
  doubts,      \* history: providers that took the mail and threw
  refusals     \* history: providers that did not take it

mailVars == <<letter, copies, doubts, refusals>>

Turns == 1 .. Len(Providers)
Resting == {"unsent", "sent", "unrendered", "refused", "lost"}

MailTypeOK ==
  /\ letter \in [Mails -> [at : Resting \union {"render", "provider"}, turn : Turns]]
  /\ copies \in [Mails -> SUBSET Turns]
  /\ doubts \in [Mails -> SUBSET Turns] /\ refusals \in [Mails -> SUBSET Turns]

MailInit ==
  /\ letter = [m \in Mails |-> [at |-> "unsent", turn |-> 1]]
  /\ copies = [m \in Mails |-> {}]
  /\ doubts = [m \in Mails |-> {}] /\ refusals = [m \in Mails |-> {}]

LetterIs(m, at) == letter' = [letter EXCEPT ![m].at = at]
Turn(m) == letter[m].turn
AtProvider(m) == letter[m].at = "provider"

\* EventsEmitter.sendEmail: the listener runs up to its first await.
SendEmail(m) ==
  /\ letter[m].at = "unsent" /\ LetterIs(m, "render")
  /\ UNCHANGED <<copies, doubts, refusals>>

RenderEmail(m) ==
  /\ letter[m].at = "render" /\ LetterIs(m, "provider")
  /\ UNCHANGED <<copies, doubts, refusals>>

\* No template, or one that does not fit its context.
RenderFails(m) ==
  /\ letter[m].at = "render" /\ LetterIs(m, "unrendered")
  /\ UNCHANGED <<copies, doubts, refusals>>

\* The next provider, or the end of the list.
NextProvider(m) ==
  IF Turn(m) = Len(Providers) THEN LetterIs(m, "refused")
  ELSE letter' = [letter EXCEPT ![m].turn = @ + 1]

\* Mutant: the loop goes on after a provider that took the mail.
SucceedAndGoOn(m) == NextProvider(m)
\* The first provider that does not throw ends the loop.
Succeed(m) == LetterIs(m, "sent")

ProviderTakes(m) ==
  /\ AtProvider(m)
  /\ copies' = [copies EXCEPT ![m] = @ \union {Turn(m)}]
  /\ Succeed(m)
  /\ UNCHANGED <<doubts, refusals>>

\* fetch, or the body of the answer, breaks off after the mail was taken.
ProviderTakesAndThrows(m) ==
  /\ AtProvider(m)
  /\ copies' = [copies EXCEPT ![m] = @ \union {Turn(m)}]
  /\ doubts' = [doubts EXCEPT ![m] = @ \union {Turn(m)}]
  /\ NextProvider(m)
  /\ UNCHANGED refusals

ProviderRefuses(m) ==
  /\ AtProvider(m)
  /\ refusals' = [refusals EXCEPT ![m] = @ \union {Turn(m)}]
  /\ NextProvider(m)
  /\ UNCHANGED <<copies, doubts>>

\* The server stops: nothing keeps the mails under way.
MailRestart ==
  /\ letter' = [m \in Mails |-> IF letter[m].at \in Resting THEN letter[m]
                            ELSE [letter[m] EXCEPT !.at = "lost"]]
  /\ letter' # letter
  /\ UNCHANGED <<copies, doubts, refusals>>

MailNext ==
  \/ \E m \in Mails : \/ SendEmail(m) \/ RenderEmail(m) \/ RenderFails(m) \/ ProviderTakes(m)
                      \/ ProviderTakesAndThrows(m) \/ ProviderRefuses(m)
  \/ MailRestart

MailSpec == MailInit /\ [][MailNext]_mailVars

-----------------------------------------------------------------------------
(* Property *)

\* A second copy of a mail goes out only after a provider that took the first threw, and
\* a mail that was rendered and not lost in a restart goes unsent only when all refused.
MailIsAccountedFor ==
  \A m \in Mails :
    /\ \E p \in Turns : copies[m] \subseteq doubts[m] \union {p}
    /\ letter[m].at = "refused" => doubts[m] \union refusals[m] = Turns
    /\ letter[m].at = "sent" => copies[m] \ doubts[m] # {}
=============================================================================
