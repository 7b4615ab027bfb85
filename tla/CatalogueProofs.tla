--------------------------- MODULE CatalogueProofs ---------------------------
(*****************************************************************************)
(* Proofs about the course catalogue, reviews and mails, for any courses,    *)
(* departments, students, requests and providers; the last section composes  *)
(* the three.                                                                *)
(*****************************************************************************)
EXTENDS MCCatalogue, FiniteSetTheorems, TLAPS

-----------------------------------------------------------------------------
(*****************************************************************************)
(* Mails.  Until a mail is off, exactly the providers before its turn were   *)
(* asked (MailAsksInTurn).                                                   *)
(*****************************************************************************)

Asked(m) == doubts[m] \union refusals[m]

\* Until a mail is off, exactly the providers before its turn were asked.
MailAsksInTurn ==
  \A m \in Mails : letter[m].at \in {"unsent", "render", "provider"} => Asked(m) = 1 .. Turn(m) - 1

\* Only the provider that ended the loop has a copy beyond doubt.
MailCopies ==
  \A m \in Mails :
    IF letter[m].at = "sent"
    THEN copies[m] \subseteq doubts[m] \union {Turn(m)} /\ Turn(m) \in copies[m] \ doubts[m]
    ELSE copies[m] \subseteq doubts[m]

MailRefused == \A m \in Mails : letter[m].at = "refused" => Asked(m) = Turns

MailIInv == MailTypeOK /\ MailAsksInTurn /\ MailCopies /\ MailRefused

-----------------------------------------------------------------------------

LEMMA TurnsAreNumbers == Len(Providers) \in Nat /\ Len(Providers) >= 1
  BY MailAssumption

LEMMA MailTypeInit == MailInit => MailTypeOK
<1> SUFFICES ASSUME MailInit PROVE MailTypeOK
  OBVIOUS
<1>1. 1 \in Turns
  BY TurnsAreNumbers DEF Turns
<1> QED BY <1>1 DEF MailInit, MailTypeOK, Resting

LEMMA MailTypeStep == MailTypeOK /\ [MailNext]_mailVars => MailTypeOK'
<1> SUFFICES ASSUME MailTypeOK, [MailNext]_mailVars PROVE MailTypeOK'
  OBVIOUS
<1> USE TurnsAreNumbers DEF MailTypeOK, Resting, Turns, LetterIs, Turn, AtProvider
<1>0. ASSUME NEW m \in Mails, NextProvider(m)
      PROVE  letter' \in [Mails -> [at : Resting \union {"render", "provider"}, turn : Turns]]
  <2>1. CASE Turn(m) = Len(Providers)
    BY <1>0, <2>1 DEF NextProvider
  <2>2. CASE Turn(m) # Len(Providers)
    <3>1. Turn(m) + 1 \in Turns
      BY <2>2
    <3>2. letter' = [letter EXCEPT ![m].turn = Turn(m) + 1]
      BY <1>0, <2>2 DEF NextProvider
    <3> QED BY <3>1, <3>2
  <2> QED BY <2>1, <2>2
<1>1. ASSUME NEW m \in Mails, SendEmail(m) PROVE MailTypeOK'
  BY <1>1 DEF SendEmail
<1>2. ASSUME NEW m \in Mails, RenderEmail(m) PROVE MailTypeOK'
  BY <1>2 DEF RenderEmail
<1>3. ASSUME NEW m \in Mails, RenderFails(m) PROVE MailTypeOK'
  BY <1>3 DEF RenderFails
<1>4. ASSUME NEW m \in Mails, ProviderTakes(m) PROVE MailTypeOK'
  <2>1. letter' \in [Mails -> [at : Resting \union {"render", "provider"}, turn : Turns]]
    BY <1>4 DEF ProviderTakes, Succeed
  <2>2. copies' \in [Mails -> SUBSET Turns]
    BY <1>4 DEF ProviderTakes
  <2> QED BY <1>4, <2>1, <2>2 DEF ProviderTakes
<1>5. ASSUME NEW m \in Mails, ProviderTakesAndThrows(m) PROVE MailTypeOK'
  BY <1>0, <1>5 DEF ProviderTakesAndThrows
<1>6. ASSUME NEW m \in Mails, ProviderRefuses(m) PROVE MailTypeOK'
  BY <1>0, <1>6 DEF ProviderRefuses
<1>7. CASE MailRestart
  BY <1>7 DEF MailRestart
<1>8. CASE UNCHANGED mailVars
  BY <1>8 DEF mailVars
<1> QED BY <1>1, <1>2, <1>3, <1>4, <1>5, <1>6, <1>7, <1>8 DEF MailNext

\* Every reachable state of the mails is well typed.
THEOREM MailTypeCorrect == MailSpec => []MailTypeOK
  BY MailTypeInit, MailTypeStep, PTL DEF MailSpec

LEMMA MailInvInit == MailInit => MailIInv
  BY MailTypeInit, TurnsAreNumbers
  DEF MailInit, MailIInv, MailAsksInTurn, MailCopies, MailRefused, Asked, Turn

LEMMA MailInvStep == MailIInv /\ [MailNext]_mailVars => MailIInv'
<1> SUFFICES ASSUME MailIInv, [MailNext]_mailVars PROVE MailIInv'
  OBVIOUS
<1>T. MailTypeOK /\ MailTypeOK' /\ MailAsksInTurn /\ MailCopies /\ MailRefused
  BY MailTypeStep DEF MailIInv
<1> DEFINE Good == MailAsksInTurn /\ MailCopies /\ MailRefused
<1> SUFFICES Good'
  BY <1>T DEF MailIInv
<1> USE <1>T, TurnsAreNumbers
    DEF MailTypeOK, Resting, Turns, LetterIs, Turn, AtProvider,
        MailAsksInTurn, MailCopies, MailRefused, Asked
<1>1. ASSUME NEW m \in Mails, SendEmail(m) PROVE Good'
  BY <1>1 DEF SendEmail
<1>2. ASSUME NEW m \in Mails, RenderEmail(m) PROVE Good'
  BY <1>2 DEF RenderEmail
<1>3. ASSUME NEW m \in Mails, RenderFails(m) PROVE Good'
  BY <1>3 DEF RenderFails
<1>4. ASSUME NEW m \in Mails, ProviderTakes(m) PROVE Good'
  BY <1>4 DEF ProviderTakes, Succeed
<1>5. ASSUME NEW m \in Mails, ProviderTakesAndThrows(m) PROVE Good'
  BY <1>5 DEF ProviderTakesAndThrows, NextProvider
<1>6. ASSUME NEW m \in Mails, ProviderRefuses(m) PROVE Good'
  <2>1. Asked(m)' = 1 .. Turn(m)
    BY <1>6 DEF ProviderRefuses
  <2>2. \A n \in Mails \ {m} : letter'[n] = letter[n] /\ Asked(n)' = Asked(n)
    BY <1>6 DEF ProviderRefuses, NextProvider
  <2>3. UNCHANGED <<copies, doubts>>
    BY <1>6 DEF ProviderRefuses
  <2>4. CASE Turn(m) = Len(Providers)
    <3>1. letter' = [letter EXCEPT ![m].at = "refused"]
      BY <1>6, <2>4 DEF ProviderRefuses, NextProvider
    <3> QED BY <1>6, <2>1, <2>2, <2>3, <2>4, <3>1 DEF ProviderRefuses
  <2>5. CASE Turn(m) # Len(Providers)
    <3>1. letter' = [letter EXCEPT ![m].turn = @ + 1]
      BY <1>6, <2>5 DEF ProviderRefuses, NextProvider
    <3> QED BY <1>6, <2>1, <2>2, <2>3, <2>5, <3>1 DEF ProviderRefuses
  <2> QED BY <2>4, <2>5
<1>7. CASE MailRestart
  BY <1>7 DEF MailRestart
<1>8. CASE UNCHANGED mailVars
  BY <1>8 DEF mailVars
<1> QED BY <1>1, <1>2, <1>3, <1>4, <1>5, <1>6, <1>7, <1>8 DEF MailNext

\* A second copy goes out only after a provider that took the first threw, and a mail
\* that was rendered goes unsent only when every provider refused it or threw.
THEOREM MailIsAccountedForHolds == MailSpec => []MailIsAccountedFor
<1>1. MailIInv => MailIsAccountedFor
  <2> SUFFICES ASSUME MailIInv, NEW m \in Mails
               PROVE  /\ \E p \in Turns : copies[m] \subseteq doubts[m] \union {p}
                      /\ letter[m].at = "refused" => doubts[m] \union refusals[m] = Turns
                      /\ letter[m].at = "sent" => copies[m] \ doubts[m] # {}
    BY DEF MailIsAccountedFor
  <2>1. Turn(m) \in Turns /\ copies[m] \subseteq doubts[m] \union {Turn(m)}
    BY DEF MailIInv, MailTypeOK, MailCopies, Turn
  <2> QED BY <2>1 DEF MailIInv, MailCopies, MailRefused, Asked
<1> QED BY <1>1, MailInvInit, MailInvStep, PTL DEF MailSpec

-----------------------------------------------------------------------------
(*****************************************************************************)
(* Reviews.  An item whose verdict is not told yet has a request that will   *)
(* tell it; what a count read between two queries is a mixture of both.      *)
(*****************************************************************************)

\* What a request holds at each of its awaits.
RevFits ==
  \A r \in ReviewRequests : LET q == rev[r] IN
    /\ q.at \in {"idle", "count", "counted"} => q.about = {}
    /\ q.at \in {"write", "tell", "notify"} =>
         \E i \in Reviewed : q.about = {i} /\ (q.at = "notify" => Kind[i] = "material")
    /\ q.at = "counted" => q.action = "rejected"

\* Nothing is known or under way of an item that is not there yet.
ReviewUnborn ==
  \A i \in Reviewed : verdict[i] = "unborn" =>
    i \notin mailed /\ notified[i] = "nothing" /\ \A r \in ReviewRequests : ~About(r, i)

\* A review that none has overlapped is the only one of its item.
ReviewsAlone ==
  \A r \in ReviewRequests, i \in Reviewed : About(r, i) =>
    IF rev[r].alone THEN \A s \in ReviewRequests : About(s, i) => s = r ELSE i \in contested

ToldOf(i) ==
  /\ verdict[i] \in Verdicts => (i \in mailed) = (verdict[i] = "rejected")
  /\ notified[i] \in {"nothing", NoticeOf(verdict[i])}

\* What a review that runs alone has done so far: the status is its verdict, and the
\* mail is on its way.
DoneSoFar(r, i) ==
  /\ rev[r].at \in {"tell", "notify"} => verdict[i] = rev[r].action
  /\ rev[r].at = "notify" /\ verdict[i] \in Verdicts => (i \in mailed) = (verdict[i] = "rejected")

\* The creator knows the status of an item up to the moment a verdict is written.
TellsWell(i) ==
  Submitted(i) =>
    /\ i \notin contested \union untold
         /\ (\A r \in ReviewRequests : About(r, i) => rev[r].at = "write") => ToldOf(i)
    /\ \A r \in ReviewRequests : About(r, i) /\ rev[r].alone => DoneSoFar(r, i)

CreatorsTold == \A i \in Reviewed \ Seeded : TellsWell(i)

\* Which queries of a count have been answered.
Counted(r, s) ==
  \/ rev[r].at = "counted"
  \/ /\ rev[r].at = "count"
     /\ \/ s = "pending" /\ rev[r].action \in {"approved", "rejected"}
        \/ s = "approved" /\ rev[r].action = "rejected"

\* A count during which no item moved has what its queries would still answer.
TalliesHold ==
  \A r \in ReviewRequests, s \in ReviewStatuses :
    Counted(r, s) /\ ~rev[r].moved => rev[r].tally[s] = Having(s)

RevIInv ==
  /\ ReviewTypeOK /\ RevFits /\ ReviewUnborn
  /\ ReviewsAlone /\ CreatorsTold
  /\ TalliesHold

-----------------------------------------------------------------------------
(* Operators *)

\* How many items have a status is a number that fits the tally.
LEMMA HavingFits ==
  ASSUME NEW s PROVE Having(s) \in 0 .. Cardinality(Reviewed)
<1> DEFINE S == {i \in Reviewed : verdict[i] = s}
<1>1. IsFiniteSet(S) /\ Cardinality(S) <= Cardinality(Reviewed)
  BY ReviewAssumption, FS_Subset
<1>2. Cardinality(S) \in Nat /\ Cardinality(Reviewed) \in Nat
  BY <1>1, ReviewAssumption, FS_CardinalityType
<1> QED BY <1>1, <1>2 DEF Having

\* A change of an item marks the counts under way and leaves everything else of them alone.
LEMMA StirredFits ==
  ASSUME ReviewTypeOK
  PROVE  /\ Stirred \in [ReviewRequests -> RevRequest]
         /\ \A r \in ReviewRequests :
              /\ Stirred[r].at = rev[r].at /\ Stirred[r].about = rev[r].about
              /\ Stirred[r].action = rev[r].action /\ Stirred[r].alone = rev[r].alone
              /\ Stirred[r].at \in {"count", "counted"} => Stirred[r].moved
<1>1. \A r \in ReviewRequests : rev[r] \in RevRequest
  BY DEF ReviewTypeOK
<1>2. ASSUME NEW q \in RevRequest
      PROVE  /\ [q EXCEPT !.moved = TRUE] \in RevRequest
             /\ LET c == [q EXCEPT !.moved = TRUE]
                IN  c.at = q.at /\ c.about = q.about /\ c.action = q.action
                    /\ c.alone = q.alone /\ c.moved
  BY DEF RevRequest
<1> QED BY <1>1, <1>2 DEF Stirred

-----------------------------------------------------------------------------
(* Types and what a request holds *)

LEMMA IdleFits == RevIdle \in RevRequest /\ RevIdle.at = "idle" /\ RevIdle.about = {}
<1>1. NoTally \in [ReviewStatuses -> 0 .. Cardinality(Reviewed)]
  <2>1. Cardinality(Reviewed) \in Nat
    BY ReviewAssumption, FS_CardinalityType
  <2> QED BY <2>1 DEF NoTally
<1> QED BY <1>1 DEF RevIdle, RevRequest, ReviewStatuses, Verdicts

RevBase == ReviewTypeOK /\ RevFits /\ ReviewUnborn

LEMMA RevBaseInit == ReviewInit => RevBase
<1> SUFFICES ASSUME ReviewInit PROVE RevBase
  OBVIOUS
<1>1. ReviewTypeOK
  BY IdleFits, ReviewAssumption DEF ReviewInit, ReviewTypeOK, ReviewStatuses, Verdicts
<1>2. RevFits
  BY IdleFits DEF ReviewInit, RevFits
<1>3. ReviewUnborn
  BY IdleFits DEF ReviewInit, ReviewUnborn, About
<1> QED BY <1>1, <1>2, <1>3 DEF RevBase

\* A request replaced by one that fits, and nothing said of an item that is not there.
LEMMA OneMoves ==
  ASSUME RevBase, NEW r \in ReviewRequests, NEW c \in RevRequest,
         rev' = [rev EXCEPT ![r] = c]
  PROVE  /\ rev' \in [ReviewRequests -> RevRequest]
         /\ rev'[r] = c /\ \A s \in ReviewRequests \ {r} : rev'[s] = rev[s]
BY DEF RevBase, ReviewTypeOK

LEMMA EndMoves ==
  ASSUME RevBase, NEW r \in ReviewRequests, RevEnd(r)
  PROVE  /\ rev' \in [ReviewRequests -> RevRequest]
         /\ rev'[r].at = "idle" /\ rev'[r].about = {}
         /\ \A s \in ReviewRequests \ {r} : rev'[s] = rev[s]
BY OneMoves, IdleFits DEF RevEnd

LEMMA GotoMoves ==
  ASSUME RevBase, NEW r \in ReviewRequests, NEW at \in {"tell", "notify"}, RevGoto(r, at)
  PROVE  /\ rev' \in [ReviewRequests -> RevRequest]
         /\ rev'[r].at = at /\ rev'[r].about = rev[r].about /\ rev'[r].action = rev[r].action
         /\ rev'[r].alone = rev[r].alone
         /\ \A s \in ReviewRequests \ {r} : rev'[s] = rev[s]
<1> DEFINE c == [rev[r] EXCEPT !.at = at]
<1>1. rev[r] \in RevRequest
  BY DEF RevBase, ReviewTypeOK
<1>2. /\ c \in RevRequest /\ c.at = at /\ c.about = rev[r].about /\ c.action = rev[r].action
      /\ c.alone = rev[r].alone
  BY <1>1 DEF RevRequest
<1>3. rev' = [rev EXCEPT ![r] = c]
  BY DEF RevGoto
<1> QED BY <1>2, <1>3, OneMoves

LEMMA ReadMoves ==
  ASSUME RevBase, NEW r \in ReviewRequests, NEW i \in Reviewed, NEW a \in ReviewStatuses,
         ReadItem(r, i, a)
  PROVE  /\ rev' \in [ReviewRequests -> RevRequest]
         /\ rev[r].at = "idle" /\ rev[r].about = {} /\ Submitted(i)
         /\ rev'[r].at = "write" /\ rev'[r].about = {i}
         /\ rev'[r].alone = (Others(r, i) = {})
         /\ \A s \in ReviewRequests \ {r} :
              /\ rev'[s].at = rev[s].at /\ rev'[s].about = rev[s].about
              /\ rev'[s].action = rev[s].action /\ rev'[s].tally = rev[s].tally
              /\ rev'[s].moved = rev[s].moved
              /\ rev'[s].alone = (rev[s].alone /\ ~About(s, i))
<1> DEFINE c == [RevIdle EXCEPT !.at = "write", !.about = {i}, !.action = a,
                                !.alone = (Others(r, i) = {})]
           d(s) == [rev[s] EXCEPT !.alone = @ /\ ~About(s, i)]
<1>1. c \in RevRequest
  BY IdleFits DEF RevRequest
<1>2. c.at = "write" /\ c.about = {i} /\ c.alone = (Others(r, i) = {})
  BY DEF RevIdle
<1>3. ASSUME NEW s \in ReviewRequests
      PROVE  /\ d(s) \in RevRequest
             /\ d(s).at = rev[s].at /\ d(s).about = rev[s].about /\ d(s).action = rev[s].action
             /\ d(s).tally = rev[s].tally /\ d(s).moved = rev[s].moved
             /\ d(s).alone = (rev[s].alone /\ ~About(s, i))
  <2>1. rev[s] \in RevRequest
    BY DEF RevBase, ReviewTypeOK
  <2>2. (rev[s].alone /\ ~About(s, i)) \in BOOLEAN
    OBVIOUS
  <2> QED BY <2>1, <2>2 DEF RevRequest
<1>4. rev' = [s \in ReviewRequests |-> IF s = r THEN c ELSE d(s)] /\ rev[r] = RevIdle /\ Submitted(i)
  BY DEF ReadItem
<1> HIDE DEF c, d
<1>5. rev' \in [ReviewRequests -> RevRequest]
  BY <1>1, <1>3, <1>4
<1>6. rev'[r] = c /\ \A s \in ReviewRequests \ {r} : rev'[s] = d(s)
  BY <1>4
<1>7. rev[r].at = "idle" /\ rev[r].about = {}
  BY <1>4, IdleFits
<1> QED BY <1>2, <1>3, <1>4, <1>5, <1>6, <1>7

\* WriteVerdict, by what it finds.
LEMMA WriteMoves ==
  ASSUME RevBase, NEW r \in ReviewRequests, WriteVerdict(r), NEW i \in Reviewed, rev[r].about = {i}
  PROVE  /\ rev[r].at = "write" /\ rev[r].action \in ReviewStatuses /\ verdict[i] # "unborn"
         /\ rev' \in [ReviewRequests -> RevRequest]
         /\ \A s \in ReviewRequests \ {r} :
              /\ rev'[s].at = rev[s].at /\ rev'[s].about = rev[s].about
              /\ rev'[s].action = rev[s].action /\ rev'[s].alone = rev[s].alone
         /\ \/ /\ verdict' = [verdict EXCEPT ![i] = rev[r].action]
               /\ \A s \in ReviewRequests : rev'[s].at \in {"count", "counted"} => rev'[s].moved
            \/ /\ verdict' = verdict /\ ~Submitted(i)
               /\ \A s \in ReviewRequests \ {r} : rev'[s] = rev[s]
         /\ \/ /\ rev'[r].at = "tell" /\ rev'[r].about = {i}
               /\ rev'[r].action = rev[r].action /\ rev'[r].alone = rev[r].alone
            \/ /\ rev'[r].at = "idle" /\ rev'[r].about = {}
               /\ ~Submitted(i)
<1>1. rev[r].at = "write" /\ rev[r].action \in ReviewStatuses /\ verdict[i] # "unborn"
  BY DEF WriteVerdict, RevBase, ReviewTypeOK, RevRequest, ReviewUnborn, About
<1>2. CASE Submitted(i)
  <2> DEFINE c == [Stirred[r] EXCEPT !.at = "tell"]
  <2>1. Stirred[r] \in RevRequest
    BY StirredFits DEF RevBase
  <2>2. /\ c \in RevRequest /\ c.at = "tell" /\ c.about = Stirred[r].about
        /\ c.action = Stirred[r].action /\ c.alone = Stirred[r].alone
    BY <2>1 DEF RevRequest
  <2>3. rev' = [Stirred EXCEPT ![r] = c] /\ verdict' = [verdict EXCEPT ![i] = rev[r].action]
    BY <1>2 DEF WriteVerdict
  <2>4. /\ rev' \in [ReviewRequests -> RevRequest]
        /\ rev'[r] = c /\ \A s \in ReviewRequests \ {r} : rev'[s] = Stirred[s]
    BY <2>2, <2>3, StirredFits DEF RevBase
  <2> QED BY <1>1, <2>2, <2>3, <2>4, StirredFits DEF RevBase
<1>3. CASE ~Submitted(i)
  <2>1. verdict' = verdict /\ (RevGoto(r, "tell") \/ RevEnd(r))
    BY <1>3 DEF WriteVerdict
  <2> QED BY <1>1, <1>3, <2>1, GotoMoves, EndMoves
<1> QED BY <1>2, <1>3

LEMMA RevBaseStep == RevBase /\ [ReviewNext]_reviewVars => RevBase'
<1> SUFFICES ASSUME RevBase, [ReviewNext]_reviewVars PROVE RevBase'
  OBVIOUS
<1>T. ReviewTypeOK /\ RevFits /\ ReviewUnborn
  BY DEF RevBase
<1>V. Verdicts \subseteq ReviewStatuses /\ "approved" \in Verdicts /\ "rejected" \in Verdicts
      /\ "pending" \in ReviewStatuses /\ "unborn" \notin ReviewStatuses /\ "gone" \notin ReviewStatuses
  BY DEF ReviewStatuses, Verdicts
<1>1. ASSUME NEW i \in Reviewed, NEW st \in ReviewStatuses \union {"gone"},
             verdict' = [verdict EXCEPT ![i] = st], rev' = Stirred,
             UNCHANGED <<notified, mailed, contested, untold, reviewFaults>>
      PROVE  RevBase'
  <2>1. ReviewTypeOK'
    BY <1>1, <1>T, StirredFits DEF ReviewTypeOK
  <2>2. RevFits'
    BY <1>1, <1>T, StirredFits DEF RevFits
  <2>3. ReviewUnborn'
    BY <1>1, <1>T, <1>V, StirredFits DEF ReviewUnborn, About, ReviewTypeOK
  <2> QED BY <2>1, <2>2, <2>3 DEF RevBase
<1>2. ASSUME NEW r \in ReviewRequests, NEW i \in Reviewed, NEW a \in ReviewStatuses, ReadItem(r, i, a)
      PROVE  RevBase'
  <2>1. /\ UNCHANGED <<verdict, notified, mailed, untold, reviewFaults>>
        /\ contested' \in {contested, contested \union {i}}
    BY <1>2 DEF ReadItem
  <2>2. ReviewTypeOK'
    BY <1>2, <2>1, <1>T, ReadMoves DEF ReviewTypeOK
  <2>3. RevFits'
    BY <1>2, <2>1, <1>T, ReadMoves DEF RevFits
  <2>4. ReviewUnborn'
    BY <1>2, <2>1, <1>T, <1>V, ReadMoves DEF ReviewUnborn, About, Submitted
  <2> QED BY <2>2, <2>3, <2>4 DEF RevBase
<1>3. ASSUME NEW r \in ReviewRequests, WriteVerdict(r) PROVE RevBase'
  <2>1. PICK i \in Reviewed : rev[r].about = {i}
    BY <1>3, <1>T DEF WriteVerdict, RevFits
  <2>2. UNCHANGED <<notified, mailed, contested, untold, reviewFaults>>
    BY <1>3 DEF WriteVerdict
  <2>3. verdict' \in [Reviewed -> ReviewStatuses \union {"unborn", "gone"}]
    BY <1>3, <1>T, <1>V, <2>1, WriteMoves DEF ReviewTypeOK
  <2>4. \A j \in Reviewed : verdict'[j] = "unborn" => verdict[j] = "unborn"
    BY <1>3, <1>T, <1>V, <2>1, WriteMoves DEF ReviewTypeOK
  <2>5. \A s \in ReviewRequests : rev'[s].about \subseteq rev[s].about
    BY <1>3, <2>1, WriteMoves
  <2>6. ReviewTypeOK'
    BY <1>3, <1>T, <2>1, <2>2, <2>3, WriteMoves DEF ReviewTypeOK
  <2>7. RevFits'
    BY <1>3, <1>T, <2>1, WriteMoves DEF RevFits
  <2>8. ReviewUnborn'
    BY <1>T, <2>2, <2>4, <2>5 DEF ReviewUnborn, About
  <2> QED BY <2>6, <2>7, <2>8 DEF RevBase
<1>4. ASSUME NEW r \in ReviewRequests, TellCreator(r) PROVE RevBase'
  <2>1. PICK i \in Reviewed : rev[r].about = {i}
    BY <1>4, <1>T DEF TellCreator, RevFits
  <2>2. /\ UNCHANGED <<verdict, notified, reviewFaults>>
        /\ contested' \subseteq contested /\ untold' \subseteq untold
        /\ IF Kind[i] = "material" THEN RevGoto(r, "notify") ELSE RevEnd(r)
    BY <1>4, <2>1 DEF TellCreator, Told
  <2>3. mailed' \in {mailed, mailed \ {i}, mailed \union ({i} \ Seeded)}
    <3>1. rev[r].action \in {"pending", "approved", "rejected"}
      BY <1>T DEF ReviewTypeOK, RevRequest, ReviewStatuses, Verdicts
    <3> QED BY <1>4, <2>1, <3>1 DEF TellCreator
  <2>4. ReviewTypeOK'
    BY <2>2, <2>3, <1>T, GotoMoves, EndMoves DEF ReviewTypeOK
  <2>5. RevFits'
    BY <2>1, <2>2, <1>T, GotoMoves, EndMoves DEF RevFits
  <2>6. \A s \in ReviewRequests : rev'[s].about \subseteq rev[s].about
    BY <2>2, GotoMoves, EndMoves
  <2>7. verdict[i] # "unborn"
    BY <1>T, <2>1 DEF ReviewUnborn, About
  <2>8. ReviewUnborn'
    BY <2>2, <2>3, <1>T, <2>6, <2>7 DEF ReviewUnborn, About
  <2> QED BY <2>4, <2>5, <2>8 DEF RevBase
<1>5. ASSUME NEW r \in ReviewRequests, CreateNotification(r) PROVE RevBase'
  <2>1. PICK i \in Reviewed : rev[r].about = {i} /\ Kind[i] = "material"
    BY <1>5, <1>T DEF CreateNotification, RevFits
  <2>2. /\ UNCHANGED <<verdict, mailed, reviewFaults>> /\ RevEnd(r)
        /\ contested' \subseteq contested /\ untold' \subseteq untold
        /\ notified' = [notified EXCEPT ![i] = NoticeOf(rev[r].action)]
    BY <1>5, <2>1 DEF CreateNotification, Told
  <2>3. ReviewTypeOK'
    BY <2>1, <2>2, <1>T, EndMoves DEF ReviewTypeOK, NoticeOf, Verdicts
  <2>4. RevFits'
    BY <2>2, <1>T, EndMoves DEF RevFits
  <2>5. verdict[i] # "unborn"
    BY <1>T, <2>1 DEF ReviewUnborn, About
  <2>6. ReviewUnborn'
    BY <2>2, <1>T, <2>5, EndMoves DEF ReviewUnborn, About, ReviewTypeOK
  <2> QED BY <2>3, <2>4, <2>6 DEF RevBase
<1>6. ASSUME NEW r \in ReviewRequests, NEW c \in RevRequest, rev' = [rev EXCEPT ![r] = c],
             c.at \in {"idle", "count", "counted"}, c.about = {},
             c.at = "counted" => c.action = "rejected",
             UNCHANGED <<verdict, notified, mailed, contested>>, untold' \in SUBSET Reviewed,
             reviewFaults' \in 0 .. MaxReviewFaults
      PROVE  RevBase'
  <2>1. ReviewTypeOK'
    BY <1>6, <1>T, OneMoves DEF ReviewTypeOK
  <2>2. RevFits'
    BY <1>6, <1>T, OneMoves DEF RevFits
  <2>3. ReviewUnborn'
    BY <1>6, <1>T, OneMoves DEF ReviewUnborn, About
  <2> QED BY <2>1, <2>2, <2>3 DEF RevBase
<1>7. ASSUME NEW r \in ReviewRequests, BeginCount(r) PROVE RevBase'
  <2>1. [RevIdle EXCEPT !.at = "count"] \in RevRequest
    BY IdleFits DEF RevRequest
  <2>2. LET c == [RevIdle EXCEPT !.at = "count"] IN c.at = "count" /\ c.about = {}
    BY DEF RevIdle
  <2> QED BY <1>6, <1>7, <1>T, <2>1, <2>2 DEF BeginCount, itemVars, ReviewTypeOK
<1>8. ASSUME NEW r \in ReviewRequests, CountByStatus(r) PROVE RevBase'
  <2> DEFINE q == rev[r]
             c == [q EXCEPT !.tally[q.action] = Having(q.action),
                            !.action = IF q.action = "pending" THEN "approved" ELSE "rejected",
                            !.at = IF q.action = "rejected" THEN "counted" ELSE "count"]
  <2>1. q \in RevRequest /\ q.at = "count" /\ q.about = {}
    BY <1>8, <1>T DEF CountByStatus, ReviewTypeOK, RevFits
  <2>2. Having(q.action) \in 0 .. Cardinality(Reviewed)
    BY HavingFits
  <2>3. c \in RevRequest
    BY <2>1, <2>2, <1>V DEF RevRequest
  <2>4. /\ c.at \in {"count", "counted"} /\ c.about = {}
        /\ c.at = "counted" => c.action = "rejected"
    BY <2>1 DEF RevRequest
  <2>5. rev' = [rev EXCEPT ![r] = c] /\ UNCHANGED <<itemVars, reviewFaults>>
    BY <1>8 DEF CountByStatus
  <2> QED BY <1>6, <1>T, <2>3, <2>4, <2>5 DEF itemVars, ReviewTypeOK
<1>9. ASSUME NEW r \in ReviewRequests, AnswerCount(r) PROVE RevBase'
  BY <1>6, <1>9, <1>T, IdleFits DEF AnswerCount, RevEnd, itemVars, ReviewTypeOK
<1>10. ASSUME NEW r \in ReviewRequests, ReviewAbort(r) PROVE RevBase'
  <2>1. rev[r].about \subseteq Reviewed /\ reviewFaults' \in 0 .. MaxReviewFaults
    BY <1>10, <1>T, ReviewAssumption DEF ReviewAbort, ReviewTypeOK, RevRequest
  <2>2. untold' \in SUBSET Reviewed
    BY <1>10, <1>T, <2>1 DEF ReviewAbort, ReviewTypeOK
  <2> QED BY <1>6, <1>10, <2>1, <2>2, IdleFits DEF ReviewAbort, RevEnd
<1>11. CASE UNCHANGED reviewVars
  BY <1>11, <1>T DEF RevBase, reviewVars, itemVars, ReviewTypeOK, RevFits, ReviewUnborn, About
<1>12. ASSUME NEW i \in Reviewed, RemoveItem(i) \/ \E st \in ReviewStatuses : Submit(i, st)
       PROVE  RevBase'
  BY <1>1, <1>12 DEF RemoveItem, Submit
<1> QED BY <1>2, <1>3, <1>4, <1>5, <1>7, <1>8, <1>9, <1>10, <1>11, <1>12 DEF ReviewNext

\* Every reachable state of the reviews is well typed.
THEOREM ReviewTypeCorrect == ReviewSpec => []ReviewTypeOK
<1>1. RevBase => ReviewTypeOK
  BY DEF RevBase
<1> QED BY <1>1, RevBaseInit, RevBaseStep, PTL DEF ReviewSpec

-----------------------------------------------------------------------------
(* What the creator knows *)

\* A review that moves, while everything about other items stays: what is left to show
\* of its own item.
LEMMA OneTells ==
  ASSUME RevBase, ReviewsAlone, CreatorsTold,
         NEW r \in ReviewRequests, NEW i \in Reviewed, rev[r].about = {i},
         \A j \in Reviewed \ {i} : /\ verdict'[j] = verdict[j] /\ notified'[j] = notified[j]
                                   /\ (j \in mailed') = (j \in mailed)
                                   /\ (j \in contested') = (j \in contested)
                                   /\ (j \in untold') = (j \in untold),
         rev'[r].about \subseteq {i},
         rev'[r].about = {i} => rev'[r].alone = rev[r].alone,
         \A s \in ReviewRequests \ {r} :
           /\ rev'[s].at = rev[s].at /\ rev'[s].about = rev[s].about
           /\ rev'[s].action = rev[s].action /\ rev'[s].alone = rev[s].alone,
         contested' = contested \/ rev[r].alone,
         ~rev[r].alone => contested' = contested,
         rev'[r].about = {i} => contested' = contested,
         i \notin Seeded /\ Submitted(i)' =>
           /\ /\ i \notin contested' \union untold'
              /\ rev'[r].about = {i} => rev'[r].at = "write"
              /\ rev[r].alone
              => ToldOf(i)'
           /\ rev'[r].about = {i} /\ rev[r].alone => DoneSoFar(r, i)'
  PROVE  ReviewsAlone' /\ CreatorsTold'
<1>1. \A s \in ReviewRequests, j \in Reviewed : About(s, j)' => About(s, j)
  BY DEF About
<1>2. About(r, i) /\ (About(r, i)' => rev'[r].about = {i})
  BY DEF About
<1>3. \A s \in ReviewRequests \ {r} : About(s, i) => ~rev[s].alone /\ ~rev[r].alone /\ i \in contested
  BY <1>2 DEF ReviewsAlone
<1>4. ReviewsAlone'
  <2> SUFFICES ASSUME NEW s \in ReviewRequests, NEW j \in Reviewed, About(s, j)'
               PROVE  IF rev'[s].alone THEN \A q \in ReviewRequests : About(q, j)' => q = s
                      ELSE j \in contested'
    BY DEF ReviewsAlone
  <2>1. About(s, j) /\ rev'[s].alone = rev[s].alone
    BY <1>1, <1>2 DEF About
  <2>2. CASE rev[s].alone
    BY <1>1, <2>1, <2>2 DEF ReviewsAlone
  <2>3. CASE ~rev[s].alone
    <3>1. j \in contested
      BY <2>1, <2>3 DEF ReviewsAlone
    <3>2. CASE j = i
      <4>1. contested' = contested
        <5>1. CASE s = r
          BY <5>1, <2>3
        <5>2. CASE s # r
          BY <5>2, <3>2, <2>1, <1>3
        <5> QED BY <5>1, <5>2
      <4> QED BY <3>1, <4>1, <2>1, <2>3
    <3>3. CASE j # i
      BY <3>1, <3>3, <2>1, <2>3
    <3> QED BY <3>2, <3>3
  <2> QED BY <2>2, <2>3
<1>5. ASSUME NEW j \in Reviewed \ Seeded PROVE TellsWell(j)'
  <2>1. CASE j # i
    <3>1. \A s \in ReviewRequests : About(s, j)' = About(s, j)
      BY <2>1 DEF About
    <3>2. \A s \in ReviewRequests : About(s, j) => s # r
      BY <2>1 DEF About
    <3>3. Submitted(j)' = Submitted(j) /\ ToldOf(j)' = ToldOf(j)
      BY <2>1 DEF Submitted, ToldOf
    <3>4. \A s \in ReviewRequests : About(s, j) => DoneSoFar(s, j)' = DoneSoFar(s, j)
      BY <2>1, <3>2 DEF DoneSoFar
    <3>5. TellsWell(j)
      BY DEF CreatorsTold
    <3> QED BY <2>1, <3>1, <3>2, <3>3, <3>4, <3>5 DEF TellsWell
  <2>2. CASE j = i
    <3> SUFFICES ASSUME Submitted(i)'
                 PROVE  /\ i \notin contested' \union untold'
                             /\ (\A s \in ReviewRequests : About(s, i)' => rev'[s].at = "write")
                             => ToldOf(i)'
                        /\ \A s \in ReviewRequests : About(s, i)' /\ rev'[s].alone => DoneSoFar(s, i)'
      BY <2>2 DEF TellsWell
    <3>1. i \notin Seeded
      BY <2>2
    <3>2. ASSUME i \notin contested' \union untold',
                 \A s \in ReviewRequests : About(s, i)' => rev'[s].at = "write"
          PROVE  ToldOf(i)'
      <4>1. rev[r].alone
        <5>1. CASE contested' = contested
          BY <3>2, <5>1, <1>2 DEF ReviewsAlone
        <5>2. CASE contested' # contested
          BY <5>2
        <5> QED BY <5>1, <5>2
      <4>2. rev'[r].about = {i} => rev'[r].at = "write"
        BY <3>2 DEF About
      <4> QED BY <3>1, <3>2, <4>1, <4>2
    <3>3. ASSUME NEW s \in ReviewRequests, About(s, i)', rev'[s].alone PROVE DoneSoFar(s, i)'
      <4>1. s = r
        BY <3>3, <1>1, <1>3
      <4> QED BY <3>1, <3>3, <4>1, <1>2
    <3> QED BY <3>2, <3>3
  <2> QED BY <2>1, <2>2
<1> QED BY <1>4, <1>5 DEF CreatorsTold

LEMMA TellingStep ==
  RevBase /\ ReviewsAlone /\ CreatorsTold /\ [ReviewNext]_reviewVars => ReviewsAlone' /\ CreatorsTold'
<1> DEFINE Good == ReviewsAlone /\ CreatorsTold
<1> SUFFICES ASSUME RevBase, ReviewsAlone, CreatorsTold, [ReviewNext]_reviewVars PROVE Good'
  OBVIOUS
<1>T. ReviewTypeOK /\ RevFits /\ ReviewUnborn /\ ReviewTypeOK'
  BY RevBaseStep DEF RevBase
<1>V. /\ ReviewStatuses = {"pending", "approved", "rejected"}
      /\ Verdicts = {"approved", "rejected"}
  BY DEF ReviewStatuses, Verdicts
<1> HIDE DEF Good
<1>1. ASSUME NEW i \in Reviewed, NEW st \in ReviewStatuses \union {"gone"},
             verdict' = [verdict EXCEPT ![i] = st], rev' = Stirred,
             st # "gone" => verdict[i] = "unborn" /\ st \in {"pending", "approved"},
             UNCHANGED <<notified, mailed, contested, untold>>
      PROVE  Good'
  <2>1. \A s \in ReviewRequests :
          /\ rev'[s].at = rev[s].at /\ rev'[s].about = rev[s].about
          /\ rev'[s].action = rev[s].action /\ rev'[s].alone = rev[s].alone
    BY <1>1, <1>T, StirredFits
  <2>2. ReviewsAlone'
    BY <1>1, <2>1 DEF ReviewsAlone, About
  <2>3. ASSUME NEW j \in Reviewed \ Seeded PROVE TellsWell(j)'
    <3>1. CASE j = i
      <4>1. CASE st = "gone"
        <5>1. ~Submitted(i)'
          BY <1>1, <1>T, <1>V, <4>1 DEF ReviewTypeOK, Submitted
        <5> QED BY <3>1, <5>1 DEF TellsWell
      <4>2. CASE st # "gone"
        <5>1. verdict'[i] \in {"pending", "approved"} /\ verdict[i] = "unborn"
          BY <1>1, <1>T, <4>2 DEF ReviewTypeOK
        <5>2. notified'[i] = "nothing" /\ i \notin mailed'
          BY <1>1, <1>T, <5>1 DEF ReviewUnborn
        <5>3. ToldOf(i)'
          BY <5>1, <5>2 DEF ToldOf
        <5>4. \A r \in ReviewRequests : ~About(r, i)'
          BY <1>T, <2>1, <5>1 DEF ReviewUnborn, About
        <5> QED BY <3>1, <5>3, <5>4 DEF TellsWell
      <4> QED BY <4>1, <4>2
    <3>2. CASE j # i
      <4>1. verdict'[j] = verdict[j]
        BY <1>1, <1>T, <3>2 DEF ReviewTypeOK
      <4>2. TellsWell(j)
        BY DEF CreatorsTold
      <4>3. \A r \in ReviewRequests : About(r, j)' = About(r, j) /\ DoneSoFar(r, j)' = DoneSoFar(r, j)
        BY <1>1, <2>1, <4>1 DEF About, DoneSoFar
      <4>4. Submitted(j)' = Submitted(j) /\ ToldOf(j)' = ToldOf(j)
        BY <1>1, <4>1 DEF Submitted, ToldOf
      <4> QED BY <1>1, <2>1, <4>2, <4>3, <4>4 DEF TellsWell
    <3> QED BY <3>1, <3>2
  <2> QED BY <2>2, <2>3 DEF Good, CreatorsTold
<1>2. ASSUME NEW r \in ReviewRequests, NEW i \in Reviewed, NEW a \in ReviewStatuses, ReadItem(r, i, a)
      PROVE  Good'
  <2>1. /\ UNCHANGED <<verdict, notified, mailed, untold>>
        /\ contested' = IF Others(r, i) = {} THEN contested ELSE contested \union {i}
    BY <1>2 DEF ReadItem
  <2>2. /\ rev[r].about = {} /\ rev'[r].at = "write" /\ rev'[r].about = {i}
        /\ rev'[r].alone = (Others(r, i) = {})
    BY <1>2, ReadMoves
  <2>3. \A s \in ReviewRequests \ {r} :
          /\ rev'[s].at = rev[s].at /\ rev'[s].about = rev[s].about
          /\ rev'[s].action = rev[s].action
          /\ rev'[s].alone = (rev[s].alone /\ ~About(s, i))
    BY <1>2, ReadMoves
  <2>4. \A s \in ReviewRequests, j \in Reviewed : About(s, j)' = (About(s, j) \/ (s = r /\ j = i))
    BY <2>2, <2>3 DEF About
  <2>5. Others(r, i) = {} <=> \A s \in ReviewRequests \ {r} : ~About(s, i)
    BY DEF Others
  <2>6. ReviewsAlone'
    <3> SUFFICES ASSUME NEW s \in ReviewRequests, NEW j \in Reviewed, About(s, j)'
                 PROVE  IF rev'[s].alone THEN \A q \in ReviewRequests : About(q, j)' => q = s
                        ELSE j \in contested'
      BY DEF ReviewsAlone
    <3>1. CASE s = r
      <4>1. j = i
        BY <2>2, <3>1 DEF About
      <4> QED BY <2>1, <2>2, <2>4, <2>5, <3>1, <4>1
    <3>2. CASE s # r
      <4>1. About(s, j)
        BY <2>4, <3>2
      <4>2. CASE rev'[s].alone
        <5>1. rev[s].alone /\ ~About(s, i)
          BY <2>3, <3>2, <4>2
        <5>2. j # i
          BY <4>1, <5>1
        <5>3. \A q \in ReviewRequests : About(q, j) => q = s
          BY <4>1, <5>1 DEF ReviewsAlone
        <5> QED BY <2>4, <4>2, <5>2, <5>3
      <4>3. CASE ~rev'[s].alone
        <5>1. CASE rev[s].alone
          <6>1. About(s, i) /\ rev[s].about = {j}
            <7>1. About(s, i)
              BY <2>3, <3>2, <4>3, <5>1
            <7>2. \E k \in Reviewed : rev[s].about = {k}
              <8>1. rev[s].at \in {"idle", "count", "counted", "write", "tell", "notify"}
                BY <1>T DEF ReviewTypeOK, RevRequest
              <8> QED BY <8>1, <7>1, <1>T DEF RevFits, About
            <7> QED BY <4>1, <7>1, <7>2 DEF About
          <6>2. j = i /\ Others(r, i) # {}
            BY <6>1, <2>5, <3>2, <4>1 DEF About
          <6> QED BY <2>1, <6>2, <4>3
        <5>2. CASE ~rev[s].alone
          <6>1. j \in contested
            BY <4>1, <5>2 DEF ReviewsAlone
          <6> QED BY <2>1, <6>1, <4>3
        <5> QED BY <5>1, <5>2
      <4> QED BY <4>2, <4>3
    <3> QED BY <3>1, <3>2
  <2>7. ASSUME NEW j \in Reviewed \ Seeded PROVE TellsWell(j)'
    <3>1. TellsWell(j)
      BY DEF CreatorsTold
    <3>2. Submitted(j)' = Submitted(j) /\ ToldOf(j)' = ToldOf(j)
      BY <2>1 DEF Submitted, ToldOf
    <3>3. j \notin contested' \union untold' => j \notin contested \union untold
      BY <2>1
    <3>4. \A s \in ReviewRequests \ {r} : DoneSoFar(s, j)' = DoneSoFar(s, j)
      BY <2>1, <2>3 DEF DoneSoFar
    <3>5. DoneSoFar(r, j)'
      BY <2>2 DEF DoneSoFar
    <3>6. (\A s \in ReviewRequests : About(s, j)' => rev'[s].at = "write")
            => \A s \in ReviewRequests : About(s, j) => rev[s].at = "write"
      <4>1. ~About(r, j)
        BY <2>2 DEF About
      <4> QED BY <2>3, <2>4, <4>1
    <3>7. ASSUME NEW s \in ReviewRequests, About(s, j)', rev'[s].alone, Submitted(j)
          PROVE  DoneSoFar(s, j)'
      <4>1. CASE s = r
        BY <3>5, <4>1
      <4>2. CASE s # r
        <5>1. About(s, j) /\ rev[s].alone
          BY <2>3, <2>4, <3>7, <4>2
        <5> QED BY <3>1, <3>4, <3>7, <4>2, <5>1 DEF TellsWell
      <4> QED BY <4>1, <4>2
    <3> QED BY <3>1, <3>2, <3>3, <3>6, <3>7 DEF TellsWell
  <2> QED BY <2>6, <2>7 DEF Good, CreatorsTold
<1>4. ASSUME NEW r \in ReviewRequests, WriteVerdict(r) PROVE Good'
  <2>1. PICK i \in Reviewed : rev[r].about = {i}
    BY <1>4, <1>T DEF WriteVerdict, RevFits
  <2>2. UNCHANGED <<notified, mailed, contested, untold>>
    BY <1>4 DEF WriteVerdict
  <2>4. \A j \in Reviewed \ {i} : verdict'[j] = verdict[j]
    BY <1>4, <1>T, <2>1, WriteMoves DEF ReviewTypeOK
  <2>5. \A s \in ReviewRequests \ {r} :
          /\ rev'[s].at = rev[s].at /\ rev'[s].about = rev[s].about
          /\ rev'[s].action = rev[s].action /\ rev'[s].alone = rev[s].alone
    BY <1>4, <2>1, WriteMoves
  <2>6. \/ Submitted(i) /\ verdict'[i] = rev[r].action
        \/ verdict'[i] = verdict[i] /\ ~Submitted(i)
    BY <1>4, <1>T, <2>1 DEF WriteVerdict, ReviewTypeOK
  <2>7. \/ /\ rev'[r].at = "tell" /\ rev'[r].about = {i} /\ rev'[r].action = rev[r].action
           /\ rev'[r].alone = rev[r].alone
        \/ rev'[r].at = "idle" /\ rev'[r].about = {} /\ ~Submitted(i)
    BY <1>4, <2>1, WriteMoves
  <2>8. Submitted(i)' => Submitted(i)
    BY <2>6 DEF Submitted
  <2>9. Submitted(i)' => rev'[r].about = {i} /\ rev'[r].at = "tell" /\ DoneSoFar(r, i)'
    BY <2>6, <2>7, <2>8 DEF DoneSoFar
  <2> QED BY <2>1, <2>2, <2>4, <2>5, <2>7, <2>9, OneTells DEF Good
<1>5. ASSUME NEW r \in ReviewRequests, TellCreator(r) PROVE Good'
  <2>1. PICK i \in Reviewed : rev[r].about = {i}
    BY <1>5, <1>T DEF TellCreator, RevFits
  <2>2. /\ rev[r].at = "tell" /\ UNCHANGED <<verdict, notified>>
        /\ IF Kind[i] = "material" THEN RevGoto(r, "notify") /\ UNCHANGED <<contested, untold>>
           ELSE RevEnd(r) /\ Told(r, i)
    BY <1>5, <2>1 DEF TellCreator
  <2>3. /\ rev'[r].about \subseteq {i}
        /\ \A s \in ReviewRequests \ {r} : rev'[s] = rev[s]
        /\ \/ /\ rev'[r].at = "notify" /\ rev'[r].about = {i} /\ rev'[r].action = rev[r].action
              /\ rev'[r].alone = rev[r].alone /\ UNCHANGED <<contested, untold>>
           \/ rev'[r].about = {} /\ Kind[i] # "material" /\ Told(r, i)
    BY <2>1, <2>2, GotoMoves, EndMoves
  <2>4. rev[r].action \in {"pending", "approved", "rejected"}
    BY <1>T, <1>V DEF ReviewTypeOK, RevRequest
  <2>5. /\ rev[r].action = "rejected" => mailed' = mailed \union ({i} \ Seeded)
        /\ rev[r].action = "approved" => mailed' = mailed \ {i}
        /\ rev[r].action = "pending" => mailed' = mailed
    BY <1>5, <2>1, <2>4 DEF TellCreator
  <2>6. \A j \in Reviewed \ {i} : (j \in mailed') = (j \in mailed)
    BY <2>4, <2>5
  <2>7. ASSUME i \notin Seeded, Submitted(i)', rev[r].alone
        PROVE  /\ verdict'[i] = rev[r].action
               /\ verdict'[i] \in Verdicts => (i \in mailed') = (verdict'[i] = "rejected")
    <3>1. About(r, i) /\ Submitted(i) /\ TellsWell(i)
      BY <2>1, <2>2, <2>7 DEF About, Submitted, CreatorsTold
    <3>2. verdict[i] = rev[r].action
      BY <2>2, <2>7, <3>1 DEF TellsWell, DoneSoFar
    <3> QED BY <1>V, <2>2, <2>4, <2>5, <2>7, <3>2
  <2>8. Kind[i] # "material" => notified'[i] = "nothing"
    BY <1>T, <2>2 DEF ReviewTypeOK
  <2>9. i \notin Seeded /\ Submitted(i)' =>
          /\ (rev'[r].about = {i} => rev'[r].at = "write") /\ rev[r].alone => ToldOf(i)'
          /\ rev'[r].about = {i} /\ rev[r].alone => DoneSoFar(r, i)'
    BY <2>3, <2>7, <2>8 DEF ToldOf, DoneSoFar
  <2>10. /\ contested' = contested \/ rev[r].alone
         /\ ~rev[r].alone => contested' = contested
         /\ \A j \in Reviewed \ {i} : /\ (j \in contested') = (j \in contested)
                                      /\ (j \in untold') = (j \in untold)
    BY <2>3 DEF Told
  <2> QED BY <2>1, <2>2, <2>3, <2>6, <2>9, <2>10, OneTells DEF Good
<1>6. ASSUME NEW r \in ReviewRequests, CreateNotification(r) PROVE Good'
  <2>1. PICK i \in Reviewed : rev[r].about = {i}
    BY <1>6, <1>T DEF CreateNotification, RevFits
  <2>2. /\ rev[r].at = "notify" /\ UNCHANGED <<verdict, mailed>> /\ RevEnd(r) /\ Told(r, i)
        /\ notified' = [notified EXCEPT ![i] = NoticeOf(rev[r].action)]
    BY <1>6, <2>1 DEF CreateNotification
  <2>3. /\ rev'[r].about = {} /\ \A s \in ReviewRequests \ {r} : rev'[s] = rev[s]
    BY <2>2, EndMoves
  <2>4. notified'[i] = NoticeOf(rev[r].action) /\ \A j \in Reviewed \ {i} : notified'[j] = notified[j]
    BY <1>T, <2>2 DEF ReviewTypeOK
  <2>5. ASSUME i \notin Seeded, Submitted(i)', rev[r].alone PROVE ToldOf(i)'
    <3>1. About(r, i) /\ Submitted(i) /\ TellsWell(i)
      BY <2>1, <2>2, <2>5 DEF About, Submitted, CreatorsTold
    <3>2. /\ verdict[i] = rev[r].action
          /\ verdict[i] \in Verdicts => (i \in mailed) = (verdict[i] = "rejected")
      BY <2>2, <2>5, <3>1 DEF TellsWell, DoneSoFar
    <3> QED BY <2>2, <2>4, <3>2 DEF ToldOf, NoticeOf
  <2>6. /\ contested' = contested \/ rev[r].alone
        /\ ~rev[r].alone => contested' = contested
        /\ \A j \in Reviewed \ {i} : /\ (j \in contested') = (j \in contested)
                                     /\ (j \in untold') = (j \in untold)
    BY <2>2 DEF Told
  <2> QED BY <2>1, <2>2, <2>3, <2>4, <2>5, <2>6, OneTells DEF Good
<1>7. ASSUME NEW r \in ReviewRequests, rev[r].about = {} /\ rev'[r].about = {},
             \A s \in ReviewRequests \ {r} : rev'[s] = rev[s], UNCHANGED itemVars
      PROVE  Good'
  <2>1. \A s \in ReviewRequests, j \in Reviewed :
          About(s, j)' = About(s, j) /\ (About(s, j) => rev'[s] = rev[s])
    BY <1>7 DEF About
  <2>2. \A j \in Reviewed : ToldOf(j)' = ToldOf(j) /\ Submitted(j)' = Submitted(j)
    BY <1>7 DEF ToldOf, Submitted, itemVars
  <2>3. \A s \in ReviewRequests, j \in Reviewed : About(s, j) => DoneSoFar(s, j)' = DoneSoFar(s, j)
    BY <1>7, <2>1 DEF DoneSoFar, itemVars
  <2>4. ReviewsAlone'
    BY <1>7, <2>1 DEF ReviewsAlone, itemVars
  <2>5. CreatorsTold'
    BY <1>7, <2>1, <2>2, <2>3 DEF CreatorsTold, TellsWell, itemVars
  <2> QED BY <2>4, <2>5 DEF Good
<1>8. ASSUME NEW r \in ReviewRequests, BeginCount(r) \/ CountByStatus(r) \/ AnswerCount(r) PROVE Good'
  <2>1. rev[r].about = {} /\ UNCHANGED itemVars
    BY <1>8, <1>T, IdleFits DEF BeginCount, CountByStatus, AnswerCount, RevFits
  <2>2. \A s \in ReviewRequests \ {r} : rev'[s] = rev[s]
    BY <1>8, <1>T DEF BeginCount, CountByStatus, AnswerCount, RevEnd, ReviewTypeOK
  <2>3. rev'[r].about = {}
    <3>1. CASE BeginCount(r)
      BY <3>1, <1>T DEF BeginCount, ReviewTypeOK, RevIdle
    <3>2. CASE CountByStatus(r)
      <4>1. rev[r] \in RevRequest
        BY <1>T DEF ReviewTypeOK
      <4> QED BY <3>2, <1>T, <2>1, <4>1 DEF CountByStatus, ReviewTypeOK, RevRequest
    <3>3. CASE AnswerCount(r)
      BY <3>3, EndMoves DEF AnswerCount
    <3> QED BY <1>8, <3>1, <3>2, <3>3
  <2> QED BY <1>7, <2>1, <2>2, <2>3
<1>9. ASSUME NEW r \in ReviewRequests, ReviewAbort(r) PROVE Good'
  <2>1. PICK i \in Reviewed : rev[r].about = {i}
    <3>1. rev[r].at \in {"write", "tell", "notify"}
      BY <1>9, <1>T DEF ReviewAbort, ReviewTypeOK, RevRequest
    <3> QED BY <3>1, <1>T DEF RevFits
  <2>2. /\ UNCHANGED <<verdict, notified, mailed, contested>> /\ RevEnd(r)
        /\ untold' = IF rev[r].at \in {"tell", "notify"} THEN untold \union {i} ELSE untold
    BY <1>9, <2>1 DEF ReviewAbort
  <2>3. rev'[r].about = {} /\ \A s \in ReviewRequests \ {r} : rev'[s] = rev[s]
    BY <2>2, EndMoves
  <2>4. rev[r].at \in {"write", "tell", "notify"}
    BY <1>9, <1>T DEF ReviewAbort, ReviewTypeOK, RevRequest
  <2>5. ASSUME i \notin Seeded, Submitted(i)', rev[r].alone, i \notin contested' \union untold'
        PROVE  ToldOf(i)'
    <3>1. rev[r].at = "write" /\ i \notin untold
      BY <2>2, <2>4, <2>5
    <3>2. \A s \in ReviewRequests : About(s, i) => rev[s].at = "write"
      BY <2>1, <2>5, <3>1 DEF ReviewsAlone, About
    <3>3. TellsWell(i) /\ Submitted(i)
      BY <2>2, <2>5 DEF CreatorsTold, Submitted
    <3>4. ToldOf(i)
      BY <2>2, <2>5, <3>1, <3>2, <3>3 DEF TellsWell
    <3> QED BY <2>2, <3>4 DEF ToldOf
  <2>6. \A j \in Reviewed \ {i} : (j \in untold') = (j \in untold)
    BY <2>2
  <2> QED BY <2>1, <2>2, <2>3, <2>5, <2>6, OneTells DEF Good
<1>10. CASE UNCHANGED reviewVars
  BY <1>10 DEF Good, reviewVars, itemVars, ReviewsAlone, CreatorsTold, TellsWell, About, ToldOf,
               DoneSoFar, Submitted
<1>11. ASSUME NEW i \in Reviewed, RemoveItem(i) PROVE Good'
  BY <1>1, <1>11 DEF RemoveItem
<1>12. ASSUME NEW i \in Reviewed, NEW st \in ReviewStatuses, Submit(i, st) PROVE Good'
  BY <1>1, <1>12 DEF Submit
<1> QED BY <1>2, <1>4, <1>5, <1>6, <1>8, <1>9, <1>10, <1>11, <1>12 DEF ReviewNext, Good

\* When nobody reviews an item its creator was last told what its status says; two
\* reviews that overlapped, and one cut short past its verdict, are made up for by the
\* next review that runs alone.
THEOREM CreatorKnowsVerdictHolds == ReviewSpec => []CreatorKnowsVerdict
<1> DEFINE Inv == RevBase /\ ReviewsAlone /\ CreatorsTold
<1>1. ReviewInit => Inv
  <2> SUFFICES ASSUME ReviewInit PROVE ReviewsAlone /\ CreatorsTold
    BY RevBaseInit
  <2>1. \A r \in ReviewRequests, i \in Reviewed : ~About(r, i)
    BY IdleFits DEF ReviewInit, About
  <2>2. \A i \in Reviewed \ Seeded : ~Submitted(i)
    BY DEF ReviewInit, Submitted, ReviewStatuses, Verdicts
  <2> QED BY <2>1, <2>2 DEF ReviewsAlone, CreatorsTold, TellsWell
<1>2. Inv /\ [ReviewNext]_reviewVars => Inv'
  BY RevBaseStep, TellingStep
<1>3. Inv => CreatorKnowsVerdict
  BY DEF CreatorKnowsVerdict, CreatorsTold, TellsWell, ToldOf
<1> QED BY <1>1, <1>2, <1>3, PTL DEF ReviewSpec

-----------------------------------------------------------------------------
(* The dashboard's counts *)

LEMMA TalliesStep == RevBase /\ TalliesHold /\ [ReviewNext]_reviewVars => TalliesHold'
<1> SUFFICES ASSUME RevBase, TalliesHold, [ReviewNext]_reviewVars PROVE TalliesHold'
  OBVIOUS
<1>T. ReviewTypeOK /\ RevFits
  BY DEF RevBase
<1>1. ASSUME \A r \in ReviewRequests : rev'[r].at \in {"count", "counted"} => rev'[r].moved
      PROVE  TalliesHold'
  BY <1>1 DEF TalliesHold, Counted
<1>2. ASSUME NEW r \in ReviewRequests, UNCHANGED verdict,
             \A s \in ReviewRequests \ {r} : rev'[s] = rev[s],
             rev'[r].at \notin {"count", "counted"}
      PROVE  TalliesHold'
  <2>1. \A s \in ReviewStatuses : Having(s)' = Having(s) /\ ~Counted(r, s)'
    BY <1>2 DEF Having, Counted
  <2>2. \A q \in ReviewRequests \ {r}, s \in ReviewStatuses : Counted(q, s)' = Counted(q, s)
    BY <1>2 DEF Counted
  <2> QED BY <1>2, <2>1, <2>2 DEF TalliesHold
<1>3. ASSUME NEW i \in Reviewed, RemoveItem(i) \/ \E st \in ReviewStatuses : Submit(i, st)
      PROVE  TalliesHold'
  BY <1>1, <1>3, <1>T, StirredFits DEF RemoveItem, Submit
<1>4. ASSUME NEW r \in ReviewRequests, NEW i \in Reviewed, NEW a \in ReviewStatuses, ReadItem(r, i, a)
      PROVE  TalliesHold'
  <2>1. \A s \in ReviewStatuses : Having(s)' = Having(s) /\ ~Counted(r, s)'
    BY <1>4, ReadMoves DEF ReadItem, Having, Counted
  <2>2. \A q \in ReviewRequests \ {r}, s \in ReviewStatuses :
          /\ Counted(q, s)' = Counted(q, s)
          /\ rev'[q].moved = rev[q].moved /\ rev'[q].tally = rev[q].tally
    BY <1>4, ReadMoves DEF Counted
  <2> QED BY <2>1, <2>2 DEF TalliesHold
<1>5. ASSUME NEW r \in ReviewRequests, WriteVerdict(r) PROVE TalliesHold'
  <2>1. PICK i \in Reviewed : rev[r].about = {i}
    BY <1>5, <1>T DEF WriteVerdict, RevFits
  <2>2. rev'[r].at \notin {"count", "counted"}
    BY <1>5, <2>1, WriteMoves
  <2>3. CASE \A s \in ReviewRequests : rev'[s].at \in {"count", "counted"} => rev'[s].moved
    BY <1>1, <2>3
  <2>4. CASE verdict' = verdict /\ \A s \in ReviewRequests \ {r} : rev'[s] = rev[s]
    BY <1>2, <2>2, <2>4
  <2> QED BY <1>5, <2>1, <2>3, <2>4, WriteMoves
<1>6. ASSUME NEW r \in ReviewRequests,
             TellCreator(r) \/ CreateNotification(r) \/ AnswerCount(r) \/ ReviewAbort(r)
      PROVE  TalliesHold'
  <2>1. verdict' = verdict /\ (RevGoto(r, "notify") \/ RevEnd(r))
    BY <1>6 DEF TellCreator, CreateNotification, AnswerCount, ReviewAbort, itemVars
  <2>2. rev'[r].at \in {"notify", "idle"} /\ \A s \in ReviewRequests \ {r} : rev'[s] = rev[s]
    BY <2>1, GotoMoves, EndMoves
  <2> QED BY <1>2, <2>1, <2>2
<1>7. ASSUME NEW r \in ReviewRequests, UNCHANGED verdict,
             \A s \in ReviewRequests \ {r} : rev'[s] = rev[s],
             \A s \in ReviewStatuses : Counted(r, s)' /\ ~rev'[r].moved => rev'[r].tally[s] = Having(s)
      PROVE  TalliesHold'
  <2>1. \A s \in ReviewStatuses : Having(s)' = Having(s)
    BY <1>7 DEF Having
  <2>2. \A q \in ReviewRequests \ {r}, s \in ReviewStatuses : Counted(q, s)' = Counted(q, s)
    BY <1>7 DEF Counted
  <2> QED BY <1>7, <2>1, <2>2 DEF TalliesHold
<1>8. ASSUME NEW r \in ReviewRequests, BeginCount(r) PROVE TalliesHold'
  <2>1. rev'[r].at = "count" /\ rev'[r].action = "pending"
    BY <1>8, <1>T DEF BeginCount, RevIdle, ReviewTypeOK
  <2>2. \A s \in ReviewStatuses : ~Counted(r, s)'
    BY <2>1 DEF Counted
  <2> QED BY <1>7, <1>8, <1>T, <2>2 DEF BeginCount, itemVars, ReviewTypeOK
<1>9. ASSUME NEW r \in ReviewRequests, CountByStatus(r) PROVE TalliesHold'
  <2> DEFINE q == rev[r]
             c == [q EXCEPT !.tally[q.action] = Having(q.action),
                            !.action = IF q.action = "pending" THEN "approved" ELSE "rejected",
                            !.at = IF q.action = "rejected" THEN "counted" ELSE "count"]
  <2>1. q \in RevRequest /\ q.at = "count"
    BY <1>9, <1>T DEF CountByStatus, ReviewTypeOK
  <2>2. rev'[r] = c /\ (\A s \in ReviewRequests \ {r} : rev'[s] = rev[s]) /\ verdict' = verdict
    BY <1>9, <1>T DEF CountByStatus, ReviewTypeOK, itemVars
  <2>3. /\ c.tally = [q.tally EXCEPT ![q.action] = Having(q.action)] /\ c.moved = q.moved
        /\ c.action = IF q.action = "pending" THEN "approved" ELSE "rejected"
        /\ c.at = IF q.action = "rejected" THEN "counted" ELSE "count"
        /\ q.action \in ReviewStatuses /\ q.tally \in [ReviewStatuses -> 0 .. Cardinality(Reviewed)]
    BY <2>1 DEF RevRequest
  <2>4. ASSUME NEW s \in ReviewStatuses, Counted(r, s)', ~rev'[r].moved
        PROVE  rev'[r].tally[s] = Having(s)
    <3>1. s = q.action \/ Counted(r, s)
      BY <2>1, <2>2, <2>3, <2>4 DEF Counted, ReviewStatuses, Verdicts
    <3>2. CASE s = q.action
      BY <2>2, <2>3, <3>2
    <3>3. CASE s # q.action /\ Counted(r, s)
      BY <2>2, <2>3, <2>4, <3>3 DEF TalliesHold
    <3> QED BY <3>1, <3>2, <3>3
  <2> QED BY <1>7, <2>2, <2>4
<1>10. CASE UNCHANGED reviewVars
  BY <1>10 DEF reviewVars, itemVars, TalliesHold, Counted, Having
<1> QED BY <1>3, <1>4, <1>5, <1>6, <1>8, <1>9, <1>10 DEF ReviewNext

\* Three disjoint finite sets add up.
LEMMA DisjointSum ==
  ASSUME NEW A, NEW B, NEW C, IsFiniteSet(A), IsFiniteSet(B), IsFiniteSet(C),
         A \cap B = {}, A \cap C = {}, B \cap C = {}
  PROVE  Cardinality(A \union B \union C) = Cardinality(A) + Cardinality(B) + Cardinality(C)
<1>1. Cardinality(A) \in Nat /\ Cardinality(B) \in Nat /\ Cardinality(C) \in Nat /\ Cardinality({}) = 0
  BY FS_CardinalityType, FS_EmptySet
<1>2. (A \union B) \cap C = {}
  OBVIOUS
<1>3. Cardinality(A \cap B) = 0 /\ Cardinality((A \union B) \cap C) = 0
  BY <1>1, <1>2
<1>4. /\ IsFiniteSet(A \union B)
      /\ Cardinality(A \union B) = Cardinality(A) + Cardinality(B) - Cardinality(A \cap B)
  BY FS_Union
<1>5. Cardinality((A \union B) \union C)
        = Cardinality(A \union B) + Cardinality(C) - Cardinality((A \union B) \cap C)
  BY <1>4, FS_Union
<1> QED BY <1>1, <1>3, <1>4, <1>5

\* The dashboard's three counts add up to the items there are, unless an item moved
\* between the queries.
THEOREM CountsAddUpHolds == ReviewSpec => []CountsAddUp
<1> DEFINE Inv == RevBase /\ TalliesHold
<1>1. ReviewInit => Inv
  <2>1. ReviewInit => TalliesHold
    BY IdleFits DEF ReviewInit, TalliesHold, Counted
  <2> QED BY <2>1, RevBaseInit
<1>2. Inv /\ [ReviewNext]_reviewVars => Inv'
  BY RevBaseStep, TalliesStep
<1>3. Inv => CountsAddUp
  <2> SUFFICES ASSUME Inv, NEW r \in ReviewRequests, rev[r].at = "counted", ~rev[r].moved
               PROVE  rev[r].tally["pending"] + rev[r].tally["approved"] + rev[r].tally["rejected"]
                        = Cardinality({i \in Reviewed : Submitted(i)})
    BY DEF CountsAddUp
  <2> DEFINE S(st) == {i \in Reviewed : verdict[i] = st}
  <2>1. \A st \in ReviewStatuses : rev[r].tally[st] = Cardinality(S(st))
    BY DEF TalliesHold, Counted, Having
  <2>2. \A st : IsFiniteSet(S(st))
    BY ReviewAssumption, FS_Subset
  <2>3. {i \in Reviewed : Submitted(i)} = S("pending") \union S("approved") \union S("rejected")
    BY DEF Submitted, ReviewStatuses, Verdicts
  <2>4. S("pending") \cap S("approved") = {} /\ S("pending") \cap S("rejected") = {}
        /\ S("approved") \cap S("rejected") = {}
    OBVIOUS
  <2>5. Cardinality(S("pending") \union S("approved") \union S("rejected"))
          = Cardinality(S("pending")) + Cardinality(S("approved")) + Cardinality(S("rejected"))
    <3> HIDE DEF S
    <3> QED BY <2>2, <2>4, DisjointSum
  <2> QED BY <2>1, <2>3, <2>5 DEF ReviewStatuses, Verdicts
<1> QED BY <1>1, <1>2, <1>3, PTL DEF ReviewSpec

-----------------------------------------------------------------------------
(*****************************************************************************)
(* The catalogue.  First what every request holds, then names, then          *)
(* enrolments, each on the ones before.                                      *)
(*****************************************************************************)

Creating == {"find", "name", "check", "commit"}
Updating == {"clear", "fetch", "enrol", "profile"}

\* What a request holds at each of its awaits.
CatFits ==
  \A r \in CatRequests : LET q == cat[r] IN
    /\ q.at \in {"find", "name"} => q.row \in CourseRow
    /\ q.at \in Creating \union {"store"} => q.d \in Departments /\ q.l \in Levels
    /\ q.at \in {"check", "commit", "store"} => q.c \in Courses
    /\ q.at \in Updating => q.u \in Students /\ q.to \in Profile
    /\ q.at \notin Updating => q.u = NoCourse
    /\ q.alone => q.at = "clear"

\* A course that is inserted and not committed has an id and a code of its own.
InsertsFit ==
  \A r \in CatRequests : Inserted(r) =>
    /\ cat[r].c \notin Listed \union retired
    /\ \A c \in Listed : course[c].code # cat[r].row.code
    /\ \A s \in CatRequests \ {r} : Inserted(s) =>
         cat[s].c # cat[r].c /\ cat[s].row.code # cat[r].row.code

\* Unless courses were named at once, the name of a course on its way is nobody else's.
NamesComing ==
  ~twins => \A r \in CatRequests :
    /\ cat[r].at = "name" \/ Inserted(r) => \A c \in Listed : course[c].name # cat[r].row.name
    /\ Inserted(r) => \A s \in CatRequests \ {r} : Inserted(s) => cat[s].row.name # cat[r].row.name

CoursesHeld(u) == {c \in Courses : <<u, c>> \in enrolled}
FittingCourses(p) == CoursesOf(p.department, p.level)

\* The row that an update of u is going to leave.
RowAfter(r, u) ==
  [department |-> IF cat[r].d = NoCourse THEN student[u].department ELSE cat[r].d,
   level |-> IF cat[r].l = NoCourse THEN student[u].level ELSE cat[r].l]

\* A settled user of whom nothing is under way is enrolled as the row says; the one
\* update of a settled user works towards the row it will write, and the courses the
\* user holds are those of its step.
SettledUser(u) ==
  /\ u \notin unsettled /\ Updates(u) = {} => CoursesHeld(u) = FittingCourses(student[u])
  /\ \A r \in CatRequests : cat[r].u = u /\ (cat[r].alone \/ u \notin unsettled) =>
       /\ Updates(u) = {r}
       /\ cat[r].to = RowAfter(r, u)
       /\ u \notin unsettled =>
            /\ cat[r].at \in {"fetch", "enrol"} => CoursesHeld(u) = {}
            /\ cat[r].at = "enrol" => cat[r].fetched \ retired = FittingCourses(cat[r].to)
            /\ cat[r].at = "profile" => CoursesHeld(u) = FittingCourses(cat[r].to)

CatIInv ==
  /\ CatTypeOK /\ CatFits /\ InsertsFit
  /\ NamesAreDistinct /\ NamesComing
  /\ \A u \in Students : SettledUser(u)

CatBase == CatTypeOK /\ CatFits /\ InsertsFit

-----------------------------------------------------------------------------
(* How a request moves *)

LEMMA CatIdleFits ==
  /\ CatIdle \in CatRequest /\ CatIdle.at = "idle" /\ CatIdle.u = NoCourse /\ ~CatIdle.alone
  /\ CatIdle.row = NoCourse
BY DEF CatIdle, CatRequest, Or0

LEMMA CatSetMoves ==
  ASSUME CatTypeOK, NEW r \in CatRequests, NEW q \in CatRequest, CatSet(r, q)
  PROVE  /\ cat' \in [CatRequests -> CatRequest]
         /\ cat'[r] = q /\ \A s \in CatRequests \ {r} : cat'[s] = cat[s]
BY DEF CatTypeOK, CatSet

LEMMA CatEndMoves ==
  ASSUME CatTypeOK, NEW r \in CatRequests, CatEnd(r)
  PROVE  /\ cat' \in [CatRequests -> CatRequest]
         /\ cat'[r] = CatIdle /\ \A s \in CatRequests \ {r} : cat'[s] = cat[s]
BY CatSetMoves, CatIdleFits DEF CatEnd

LEMMA CatStartMoves ==
  ASSUME CatTypeOK, NEW r \in CatRequests, NEW at \in {"find", "store"}, NEW row \in Or0(CourseRow),
         NEW c \in Or0(Courses), NEW d \in Departments, NEW l \in Levels, CatStart(r, at, row, c, d, l)
  PROVE  /\ cat' \in [CatRequests -> CatRequest]
         /\ cat[r] = CatIdle
         /\ cat'[r].at = at /\ cat'[r].row = row /\ cat'[r].c = c /\ cat'[r].d = d /\ cat'[r].l = l
         /\ cat'[r].u = NoCourse /\ ~cat'[r].alone
         /\ \A s \in CatRequests \ {r} : cat'[s] = cat[s]
<1> DEFINE q == [CatIdle EXCEPT !.at = at, !.row = row, !.c = c, !.d = d, !.l = l]
<1>1. q \in CatRequest
  BY CatIdleFits DEF CatRequest, Or0
<1>2. /\ q.at = at /\ q.row = row /\ q.c = c /\ q.d = d /\ q.l = l /\ q.u = NoCourse /\ ~q.alone
  BY DEF CatIdle
<1>3. CatSet(r, q) /\ cat[r] = CatIdle
  BY DEF CatStart
<1> QED BY <1>1, <1>2, <1>3, CatSetMoves

\* A creation between its look-up and its commit: at, c and row are all that changes.
LEMMA CreationMoves ==
  ASSUME CatTypeOK, NEW r \in CatRequests, FindSameCourse(r) \/ InsertCourse(r) \/ FindLinkOfLevel(r)
  PROVE  /\ UNCHANGED <<course, retired, link, student, enrolled, catFaults, unsettled>>
         /\ cat' \in [CatRequests -> CatRequest]
         /\ \A s \in CatRequests \ {r} : cat'[s] = cat[s]
         /\ \/ /\ cat'[r].d = cat[r].d /\ cat'[r].l = cat[r].l /\ cat'[r].u = cat[r].u
               /\ cat'[r].to = cat[r].to /\ cat'[r].fetched = cat[r].fetched /\ cat'[r].alone = cat[r].alone
               /\ \/ /\ cat[r].at = "find" /\ cat'[r].at = "name" /\ cat'[r].row = cat[r].row
                     /\ \A c \in Listed : course[c].code # cat[r].row.code /\ course[c].name # cat[r].row.name
                     /\ twins' = twins
                  \/ /\ cat[r].at = "find" /\ cat'[r].at = "check" /\ cat'[r].row = NoCourse
                     /\ cat'[r].c \in Courses /\ twins' = twins
                  \/ /\ cat[r].at = "name" /\ cat'[r].at = "check" /\ cat'[r].row = cat[r].row
                     /\ cat'[r].c \in Courses \ (Listed \union retired \union {cat[s].c : s \in Uncommitted(r)})
                     /\ \A c \in Listed : course[c].code # cat[r].row.code
                     /\ \A s \in Uncommitted(r) : cat[s].row.code # cat[r].row.code
                     /\ twins' = (twins \/ \E s \in Uncommitted(r) : cat[s].row.name = cat[r].row.name)
                  \/ /\ cat[r].at = "check" /\ cat'[r].at = "commit" /\ cat'[r].row = cat[r].row
                     /\ cat'[r].c = cat[r].c /\ twins' = twins
            \/ /\ cat[r].at \in Creating /\ cat'[r] = CatIdle
               /\ \/ cat[r].at # "name" /\ twins' = twins
                  \/ twins' = (twins \/ \E s \in Uncommitted(r) : cat[s].row.name = cat[r].row.name)
<1> DEFINE q == cat[r]
<1>0. q \in CatRequest
  BY DEF CatTypeOK
<1>1. CASE FindSameCourse(r)
  <2> DEFINE same == {c \in Listed : course[c].code = q.row.code \/ course[c].name = q.row.name}
  <2>1. q.at = "find" /\ UNCHANGED <<course, retired, link, student, enrolled, catFaults, twins, unsettled>>
    BY <1>1 DEF FindSameCourse
  <2>2. CASE same = {}
    <3> DEFINE n == [q EXCEPT !.at = "name"]
    <3>1. CatSet(r, n)
      BY <1>1, <2>2 DEF FindSameCourse
    <3>2. /\ n \in CatRequest /\ n.at = "name" /\ n.row = q.row /\ n.d = q.d /\ n.l = q.l /\ n.u = q.u
          /\ n.to = q.to /\ n.fetched = q.fetched /\ n.alone = q.alone
      BY <1>0 DEF CatRequest
    <3>3. cat'[r] = n /\ cat' \in [CatRequests -> CatRequest] /\ \A s \in CatRequests \ {r} : cat'[s] = cat[s]
      BY <3>1, <3>2, CatSetMoves
    <3> HIDE DEF n
    <3> QED BY <2>1, <2>2, <3>2, <3>3
  <2>3. CASE same # {}
    <3>1. PICK c \in Courses : CatSet(r, [q EXCEPT !.at = "check", !.c = c, !.row = NoCourse])
      BY <1>1, <2>3 DEF FindSameCourse, Listed
    <3> DEFINE n == [q EXCEPT !.at = "check", !.c = c, !.row = NoCourse]
    <3>2. /\ n \in CatRequest /\ n.at = "check" /\ n.row = NoCourse /\ n.c = c /\ n.d = q.d /\ n.l = q.l
          /\ n.u = q.u /\ n.to = q.to /\ n.fetched = q.fetched /\ n.alone = q.alone
      BY <1>0 DEF CatRequest, Or0
    <3>3. cat'[r] = n /\ cat' \in [CatRequests -> CatRequest] /\ \A s \in CatRequests \ {r} : cat'[s] = cat[s]
      BY <3>1, <3>2, CatSetMoves
    <3> HIDE DEF n
    <3> QED BY <2>1, <3>2, <3>3
  <2> QED BY <2>2, <2>3
<1>2. CASE InsertCourse(r)
  <2> DEFINE ids == Courses \ (Listed \union retired \union {cat[s].c : s \in Uncommitted(r)})
  <2>1. /\ q.at = "name" /\ UNCHANGED <<course, retired, link, student, enrolled, catFaults, unsettled>>
        /\ \A s \in Uncommitted(r) : cat[s].row.code # q.row.code
        /\ twins' = (twins \/ \E s \in Uncommitted(r) : cat[s].row.name = q.row.name)
    BY <1>2 DEF InsertCourse
  <2>2. CASE CatEnd(r)
    BY <2>1, <2>2, CatEndMoves DEF Creating
  <2>3. CASE ~CatEnd(r)
    <3>1. PICK c \in ids : CatSet(r, [q EXCEPT !.at = "check", !.c = c])
      BY <1>2, <2>3 DEF InsertCourse
    <3>2. \A e \in Listed : course[e].code # q.row.code
      BY <1>2, <2>3 DEF InsertCourse
    <3> DEFINE n == [q EXCEPT !.at = "check", !.c = c]
    <3>3. /\ n \in CatRequest /\ n.at = "check" /\ n.row = q.row /\ n.c = c /\ n.d = q.d /\ n.l = q.l
          /\ n.u = q.u /\ n.to = q.to /\ n.fetched = q.fetched /\ n.alone = q.alone
      BY <1>0 DEF CatRequest, Or0
    <3>4. cat'[r] = n /\ cat' \in [CatRequests -> CatRequest] /\ \A s \in CatRequests \ {r} : cat'[s] = cat[s]
      BY <3>1, <3>3, CatSetMoves
    <3> HIDE DEF n
    <3> QED BY <2>1, <3>2, <3>3, <3>4
  <2> QED BY <2>2, <2>3
<1>3. CASE FindLinkOfLevel(r)
  <2>1. q.at = "check" /\ UNCHANGED <<course, retired, link, student, enrolled, catFaults, twins, unsettled>>
    BY <1>3 DEF FindLinkOfLevel
  <2>2. CASE CatEnd(r)
    BY <2>1, <2>2, CatEndMoves DEF Creating
  <2>3. CASE CatSet(r, [q EXCEPT !.at = "commit"])
    <3> DEFINE n == [q EXCEPT !.at = "commit"]
    <3>1. /\ n \in CatRequest /\ n.at = "commit" /\ n.row = q.row /\ n.c = q.c /\ n.d = q.d /\ n.l = q.l
          /\ n.u = q.u /\ n.to = q.to /\ n.fetched = q.fetched /\ n.alone = q.alone
      BY <1>0 DEF CatRequest
    <3>2. cat'[r] = n /\ cat' \in [CatRequests -> CatRequest] /\ \A s \in CatRequests \ {r} : cat'[s] = cat[s]
      BY <2>3, <3>1, CatSetMoves
    <3> HIDE DEF n
    <3> QED BY <2>1, <3>1, <3>2
  <2> QED BY <1>3, <2>2, <2>3 DEF FindLinkOfLevel
<1> QED BY <1>1, <1>2, <1>3

\* An update of a user beyond its first read: at, fetched and alone are all that changes.
LEMMA UpdateMoves ==
  ASSUME CatTypeOK, CatFits, NEW r \in CatRequests,
         DeleteAllUserCourses(r) \/ FindCoursesByDepartmentAndLevel(r) \/ CreateUserCourses(r) \/ UpdateUserRow(r)
  PROVE  /\ UNCHANGED <<course, retired, link, catFaults, twins>>
         /\ cat[r].u \in Students /\ cat[r].to \in Profile
         /\ cat' \in [CatRequests -> CatRequest]
         /\ \A s \in CatRequests \ {r} : cat'[s] = cat[s]
         /\ \/ /\ cat'[r].d = cat[r].d /\ cat'[r].l = cat[r].l /\ cat'[r].u = cat[r].u
               /\ cat'[r].to = cat[r].to /\ ~cat'[r].alone
               /\ \/ /\ cat[r].at = "clear" /\ cat'[r].at = "fetch" /\ student' = student
                     /\ enrolled' = {e \in enrolled : e[1] # cat[r].u}
                     /\ unsettled' = IF cat[r].alone THEN unsettled \ {cat[r].u} ELSE unsettled
                  \/ /\ cat[r].at = "fetch" /\ UNCHANGED <<student, enrolled, unsettled>>
                     /\ LET found == FittingCourses(cat[r].to)
                        IN  \/ found = {} /\ cat'[r].at = "profile"
                            \/ cat'[r].at = "enrol" /\ cat'[r].fetched = found
                  \/ /\ cat[r].at = "enrol" /\ cat'[r].at = "profile" /\ UNCHANGED <<student, unsettled>>
                     /\ cat[r].fetched \subseteq Listed
                     /\ enrolled' = enrolled \union ({cat[r].u} \X cat[r].fetched)
            \/ /\ cat'[r] = CatIdle
               /\ \/ /\ cat[r].at = "enrol" /\ UNCHANGED <<student, enrolled>>
                     /\ unsettled' = unsettled \union {cat[r].u}
                  \/ /\ cat[r].at = "profile" /\ UNCHANGED <<enrolled, unsettled>>
                     /\ student' = [student EXCEPT ![cat[r].u] = RowAfter(r, cat[r].u)]
<1> DEFINE q == cat[r]
<1>0. q \in CatRequest
  BY DEF CatTypeOK
<1>1. CASE DeleteAllUserCourses(r)
  <2> DEFINE n == [q EXCEPT !.at = "fetch", !.alone = FALSE]
  <2>1. /\ q.at = "clear" /\ UNCHANGED <<course, retired, link, student, catFaults, twins>> /\ CatSet(r, n)
        /\ enrolled' = {e \in enrolled : e[1] # cat[r].u}
        /\ unsettled' = IF cat[r].alone THEN unsettled \ {cat[r].u} ELSE unsettled
    BY <1>1 DEF DeleteAllUserCourses
  <2>2. /\ n \in CatRequest /\ n.at = "fetch" /\ n.d = q.d /\ n.l = q.l /\ n.u = q.u /\ n.to = q.to /\ ~n.alone
    BY <1>0 DEF CatRequest
  <2>3. cat'[r] = n /\ cat' \in [CatRequests -> CatRequest] /\ \A s \in CatRequests \ {r} : cat'[s] = cat[s]
    BY <2>1, <2>2, CatSetMoves
  <2>4. q.u \in Students /\ q.to \in Profile
    BY <2>1 DEF CatFits, Updating
  <2> HIDE DEF n
  <2> QED BY <2>1, <2>2, <2>3, <2>4
<1>2. CASE FindCoursesByDepartmentAndLevel(r)
  <2> DEFINE found == FittingCourses(q.to)
             n == [q EXCEPT !.at = IF found = {} THEN "profile" ELSE "enrol", !.fetched = found]
  <2>1. q.at = "fetch" /\ UNCHANGED <<course, retired, link, student, enrolled, catFaults, twins, unsettled>>
        /\ CatSet(r, n)
    BY <1>2 DEF FindCoursesByDepartmentAndLevel, FittingCourses
  <2>2. q.u \in Students /\ q.to \in Profile /\ ~q.alone
    BY <1>0, <2>1 DEF CatFits, Updating, CatRequest
  <2>3. found \subseteq Courses
    BY DEF FittingCourses, CoursesOf
  <2> HIDE DEF found
  <2>4. /\ n \in CatRequest /\ n.at = (IF found = {} THEN "profile" ELSE "enrol") /\ n.fetched = found
        /\ n.d = q.d /\ n.l = q.l /\ n.u = q.u /\ n.to = q.to /\ n.alone = q.alone
    BY <1>0, <2>3 DEF CatRequest
  <2>5. cat'[r] = n /\ cat' \in [CatRequests -> CatRequest] /\ \A s \in CatRequests \ {r} : cat'[s] = cat[s]
    BY <2>1, <2>4, CatSetMoves
  <2> HIDE DEF n
  <2> QED BY <2>1, <2>2, <2>4, <2>5 DEF found
<1>3. CASE CreateUserCourses(r)
  <2>1. q.at = "enrol" /\ UNCHANGED <<course, retired, link, student, catFaults, twins>>
    BY <1>3 DEF CreateUserCourses
  <2>2. q.u \in Students /\ q.to \in Profile /\ ~q.alone
    BY <1>0, <2>1 DEF CatFits, Updating, CatRequest
  <2>3. CASE q.fetched \subseteq Listed /\ \A c \in q.fetched : <<q.u, c>> \notin enrolled
    <3> DEFINE n == [q EXCEPT !.at = "profile", !.fetched = {}]
    <3>1. /\ CatSet(r, n) /\ enrolled' = enrolled \union ({q.u} \X q.fetched) /\ unsettled' = unsettled
      BY <1>3, <2>3 DEF CreateUserCourses
    <3>2. /\ n \in CatRequest /\ n.at = "profile" /\ n.d = q.d /\ n.l = q.l /\ n.u = q.u /\ n.to = q.to
          /\ n.alone = q.alone
      BY <1>0 DEF CatRequest
    <3>3. cat'[r] = n /\ cat' \in [CatRequests -> CatRequest] /\ \A s \in CatRequests \ {r} : cat'[s] = cat[s]
      BY <3>1, <3>2, CatSetMoves
    <3> HIDE DEF n
    <3> QED BY <2>1, <2>2, <2>3, <3>1, <3>2, <3>3
  <2>4. CASE ~(q.fetched \subseteq Listed /\ \A c \in q.fetched : <<q.u, c>> \notin enrolled)
    <3>1. CatEnd(r) /\ unsettled' = unsettled \union {q.u} /\ UNCHANGED enrolled
      BY <1>3, <2>4 DEF CreateUserCourses
    <3> QED BY <2>1, <2>2, <3>1, CatEndMoves
  <2> QED BY <2>3, <2>4
<1>4. CASE UpdateUserRow(r)
  <2>1. /\ q.at = "profile" /\ UNCHANGED <<course, retired, link, enrolled, catFaults, twins, unsettled>>
        /\ CatEnd(r)
    BY <1>4 DEF UpdateUserRow
  <2>2. q.u \in Students /\ q.to \in Profile
    BY <2>1 DEF CatFits, Updating
  <2>3. student' = [student EXCEPT ![q.u] = RowAfter(r, q.u)]
    BY <1>4, <2>2 DEF UpdateUserRow, RowAfter, CatTypeOK
  <2> QED BY <2>1, <2>2, <2>3, CatEndMoves
<1> QED BY <1>1, <1>2, <1>3, <1>4

\* The start of an update: earlier ones of the user lose their claim to be alone.
LEMMA UpdateUserMoves ==
  ASSUME CatTypeOK, NEW r \in CatRequests, NEW u \in Students, NEW d \in Or0(Departments),
         NEW l \in Or0(Levels), UpdateUser(r, u, d, l)
  PROVE  /\ UNCHANGED <<course, retired, link, student, enrolled, catFaults, twins>>
         /\ unsettled' = IF Updates(u) # {} THEN unsettled \union {u} ELSE unsettled
         /\ cat[r] = CatIdle
         /\ cat' \in [CatRequests -> CatRequest]
         /\ cat'[r].u = u /\ cat'[r].to = RowAfter(r, u)' /\ cat'[r].to \in Profile
         /\ cat'[r].at = IF cat'[r].to # student[u] THEN "clear" ELSE "profile"
         /\ cat'[r].alone = (cat'[r].to # student[u] /\ Updates(u) = {})
         /\ \A s \in CatRequests \ {r} :
              /\ cat[s].u # u => cat'[s] = cat[s]
              /\ cat[s].u = u => ~cat'[s].alone
              /\ cat'[s].at = cat[s].at /\ cat'[s].row = cat[s].row /\ cat'[s].c = cat[s].c
              /\ cat'[s].d = cat[s].d /\ cat'[s].l = cat[s].l /\ cat'[s].u = cat[s].u
              /\ cat'[s].to = cat[s].to /\ cat'[s].fetched = cat[s].fetched
<1> DEFINE old == student[u]
           to == [department |-> IF d = NoCourse THEN old.department ELSE d,
                  level |-> IF l = NoCourse THEN old.level ELSE l]
           n == [CatIdle EXCEPT !.at = IF to # old THEN "clear" ELSE "profile",
                                !.u = u, !.d = d, !.l = l, !.to = to,
                                !.alone = (to # old /\ Updates(u) = {})]
<1>1. /\ UNCHANGED <<course, retired, link, student, enrolled, catFaults, twins>>
      /\ unsettled' = IF Updates(u) # {} THEN unsettled \union {u} ELSE unsettled
      /\ cat[r] = CatIdle
      /\ cat' = [s \in CatRequests |-> IF s = r THEN n
                                       ELSE IF s \in Updates(u) THEN [cat[s] EXCEPT !.alone = FALSE] ELSE cat[s]]
  BY DEF UpdateUser
<1>2. to \in Profile
  BY DEF Profile, Or0, CatTypeOK
<1> HIDE DEF to
<1>3. n \in CatRequest
  <2>1. (to # old /\ Updates(u) = {}) \in BOOLEAN
    OBVIOUS
  <2>2. (IF to # old THEN "clear" ELSE "profile") \in {"clear", "profile"}
    OBVIOUS
  <2>3. \A at \in {"clear", "profile"}, a \in BOOLEAN :
          [CatIdle EXCEPT !.at = at, !.u = u, !.d = d, !.l = l, !.to = to, !.alone = a] \in CatRequest
    BY <1>2, CatIdleFits DEF CatRequest, Or0
  <2> QED BY <2>1, <2>2, <2>3
<1>4. /\ n.u = u /\ n.d = d /\ n.l = l /\ n.to = to
      /\ n.at = (IF to # old THEN "clear" ELSE "profile")
      /\ n.alone = (to # old /\ Updates(u) = {})
  BY DEF CatIdle
<1> HIDE DEF n
<1>5. ASSUME NEW q \in CatRequest
      PROVE  LET c == [q EXCEPT !.alone = FALSE]
             IN  /\ c \in CatRequest /\ ~c.alone
                 /\ c.at = q.at /\ c.row = q.row /\ c.c = q.c /\ c.d = q.d /\ c.l = q.l /\ c.u = q.u
                 /\ c.to = q.to /\ c.fetched = q.fetched
  BY DEF CatRequest
<1>6. \A s \in CatRequests : cat[s] \in CatRequest
  BY DEF CatTypeOK
<1>7. cat'[r] = n /\ \A s \in CatRequests \ {r} :
        cat'[s] = IF cat[s].u = u THEN [cat[s] EXCEPT !.alone = FALSE] ELSE cat[s]
  BY <1>1 DEF Updates
<1>8. RowAfter(r, u)' = to
  BY <1>1, <1>4, <1>7 DEF RowAfter, to
<1>9. cat' \in [CatRequests -> CatRequest]
  BY <1>1, <1>3, <1>5, <1>6
<1>10. \A s \in CatRequests \ {r} :
         /\ cat[s].u # u => cat'[s] = cat[s]
         /\ cat[s].u = u => ~cat'[s].alone
         /\ cat'[s].at = cat[s].at /\ cat'[s].row = cat[s].row /\ cat'[s].c = cat[s].c
         /\ cat'[s].d = cat[s].d /\ cat'[s].l = cat[s].l /\ cat'[s].u = cat[s].u
         /\ cat'[s].to = cat[s].to /\ cat'[s].fetched = cat[s].fetched
  <2> SUFFICES ASSUME NEW s \in CatRequests \ {r}
               PROVE  /\ cat[s].u # u => cat'[s] = cat[s]
                      /\ cat[s].u = u => ~cat'[s].alone
                      /\ cat'[s].at = cat[s].at /\ cat'[s].row = cat[s].row /\ cat'[s].c = cat[s].c
                      /\ cat'[s].d = cat[s].d /\ cat'[s].l = cat[s].l /\ cat'[s].u = cat[s].u
                      /\ cat'[s].to = cat[s].to /\ cat'[s].fetched = cat[s].fetched
    OBVIOUS
  <2>1. CASE cat[s].u = u
    <3> DEFINE c == [cat[s] EXCEPT !.alone = FALSE]
    <3>1. cat'[s] = c
      BY <1>7, <2>1
    <3>2. /\ ~c.alone
          /\ c.at = cat[s].at /\ c.row = cat[s].row /\ c.c = cat[s].c /\ c.d = cat[s].d /\ c.l = cat[s].l
          /\ c.u = cat[s].u /\ c.to = cat[s].to /\ c.fetched = cat[s].fetched
      BY <1>5, <1>6
    <3> HIDE DEF c
    <3> QED BY <2>1, <3>1, <3>2
  <2>2. CASE cat[s].u # u
    BY <1>7, <2>2
  <2> QED BY <2>1, <2>2
<1> QED BY <1>1, <1>2, <1>4, <1>7, <1>8, <1>9, <1>10

\* The last step of a creation: nothing, or the link and perhaps the course.
LEMMA CommitMoves ==
  ASSUME CatTypeOK, CatFits, NEW r \in CatRequests, InsertLinkAndCommit(r)
  PROVE  /\ cat[r].at = "commit" /\ UNCHANGED <<retired, student, enrolled, catFaults>>
         /\ cat[r].c \in Courses /\ cat[r].d \in Departments /\ cat[r].l \in Levels
         /\ cat' \in [CatRequests -> CatRequest]
         /\ cat'[r] = CatIdle /\ \A s \in CatRequests \ {r} : cat'[s] = cat[s]
         /\ \/ UNCHANGED <<course, link, unsettled, twins>>
            \/ /\ Inserted(r) \/ cat[r].c \in Listed
               /\ course' = IF Inserted(r) THEN [course EXCEPT ![cat[r].c] = cat[r].row] ELSE course
               /\ link' = [link EXCEPT ![<<cat[r].d, cat[r].c>>] = cat[r].l]
               /\ unsettled' = unsettled \union OfDepartment(cat[r].d)
               /\ twins' = \/ twins
                           \/ \E s \in CatRequests \ {r} : cat[s].at = "name" /\ SameName(cat[s].row, cat[r].row)
BY CatEndMoves DEF InsertLinkAndCommit, Inserted, CatFits, Creating

LEMMA StoreMoves ==
  ASSUME CatTypeOK, CatFits, NEW r \in CatRequests, StoreLink(r)
  PROVE  /\ cat[r].at = "store" /\ UNCHANGED <<course, retired, student, enrolled, catFaults, twins>>
         /\ cat[r].c \in Courses /\ cat[r].d \in Departments /\ cat[r].l \in Levels
         /\ cat' \in [CatRequests -> CatRequest]
         /\ cat'[r] = CatIdle /\ \A s \in CatRequests \ {r} : cat'[s] = cat[s]
         /\ \/ UNCHANGED <<link, unsettled>>
            \/ /\ cat[r].c \in Listed
               /\ link' = [link EXCEPT ![<<cat[r].d, cat[r].c>>] = cat[r].l]
               /\ unsettled' = unsettled \union OfDepartment(cat[r].d)
BY CatEndMoves DEF StoreLink, CatFits, Creating

-----------------------------------------------------------------------------
(* Types and codes *)

\* A step that inserts nothing and gives no course a code.
LEMMA InsertsAside ==
  ASSUME InsertsFit, Listed' \union retired' \subseteq Listed \union retired,
         \A c \in Listed' : c \in Listed /\ course'[c] = course[c],
         \A s \in CatRequests : Inserted(s)' => /\ Inserted(s)
                                               /\ cat'[s].c = cat[s].c /\ cat'[s].row = cat[s].row
  PROVE  InsertsFit'
BY DEF InsertsFit

LEMMA CatBaseInit == CatInit => CatBase
<1> SUFFICES ASSUME CatInit PROVE CatBase
  OBVIOUS
<1>1. Listed = {}
  BY DEF CatInit, Listed
<1>2. CatTypeOK
  <2>1. twins \in BOOLEAN
    BY DEF CatInit
  <2>2. catFaults \in 0 .. MaxCatFaults
    BY CatalogueAssumption DEF CatInit
  <2> QED BY <1>1, <2>1, <2>2, CatIdleFits DEF CatInit, CatTypeOK, Or0
<1>3. CatFits /\ InsertsFit
  BY CatIdleFits DEF CatInit, CatFits, InsertsFit, Inserted, Creating, Updating
<1> QED BY <1>2, <1>3 DEF CatBase

LEMMA CatBaseStep == CatBase /\ [CatNext]_catVars => CatBase'
<1> SUFFICES ASSUME CatBase, [CatNext]_catVars PROVE CatBase'
  OBVIOUS
<1>T. CatTypeOK /\ CatFits /\ InsertsFit
  BY DEF CatBase
<1>A. NoCourse \notin Courses \union Departments \union Levels \union Students \union CourseRow \union Profile
  BY CatalogueAssumption
<1>L. course' = course => Listed' = Listed
  BY DEF Listed
<1>O. \A d : OfDepartment(d) \subseteq Students
  BY DEF OfDepartment
<1>1. ASSUME NEW r \in CatRequests, NEW row \in CourseRow, NEW d \in Departments, NEW l \in Levels,
             CreateCourse(r, row, d, l)
      PROVE  CatBase'
  <2>1. /\ CatStart(r, "find", row, NoCourse, d, l)
        /\ UNCHANGED <<course, retired, link, student, enrolled, catFaults, twins, unsettled>>
        /\ row \in Or0(CourseRow) /\ NoCourse \in Or0(Courses)
    BY <1>1 DEF CreateCourse, Or0
  <2>2. /\ cat' \in [CatRequests -> CatRequest]
        /\ cat'[r].at = "find" /\ cat'[r].row = row /\ cat'[r].d = d /\ cat'[r].l = l
        /\ cat'[r].u = NoCourse /\ ~cat'[r].alone
        /\ \A s \in CatRequests \ {r} : cat'[s] = cat[s]
    BY <1>T, <2>1, CatStartMoves
  <2>3. CatTypeOK'
    BY <1>T, <1>L, <2>1, <2>2 DEF CatTypeOK
  <2>4. CatFits'
    BY <1>T, <2>2 DEF CatFits, Creating, Updating
  <2>5. InsertsFit'
    BY <1>T, <1>L, <2>1, <2>2, InsertsAside DEF Inserted
  <2> QED BY <2>3, <2>4, <2>5 DEF CatBase
<1>2. ASSUME NEW r \in CatRequests, FindSameCourse(r) \/ InsertCourse(r) \/ FindLinkOfLevel(r)
      PROVE  CatBase'
  <2>1. /\ UNCHANGED <<course, retired, link, student, enrolled, catFaults, unsettled>>
        /\ cat' \in [CatRequests -> CatRequest] /\ \A s \in CatRequests \ {r} : cat'[s] = cat[s]
    BY <1>2, <1>T, CreationMoves
  <2>2. twins' \in BOOLEAN
    <3>1. twins \in BOOLEAN
      BY <1>T DEF CatTypeOK
    <3> QED BY <1>2, <3>1 DEF FindSameCourse, InsertCourse, FindLinkOfLevel
  <2>3. CatTypeOK'
    BY <1>T, <1>L, <2>1, <2>2 DEF CatTypeOK
  <2>4. CatFits'
    <3>1. CASE cat'[r] = CatIdle
      BY <1>T, <2>1, <3>1, CatIdleFits DEF CatFits, Creating, Updating
    <3>2. CASE cat'[r] # CatIdle
      <4>1. /\ cat'[r].d = cat[r].d /\ cat'[r].l = cat[r].l /\ cat'[r].u = cat[r].u
            /\ cat'[r].alone = cat[r].alone /\ cat[r].at \in {"find", "name", "check"}
            /\ \/ cat'[r].at = "name" /\ cat'[r].row = cat[r].row /\ cat[r].at = "find"
               \/ cat'[r].at = "check" /\ cat'[r].c \in Courses
               \/ cat'[r].at = "commit" /\ cat'[r].c = cat[r].c /\ cat[r].at = "check"
        BY <1>2, <1>T, <3>2, CreationMoves
      <4> QED BY <1>T, <2>1, <4>1 DEF CatFits, Creating, Updating
    <3> QED BY <3>1, <3>2
  <2>5. InsertsFit'
    <3>1. CASE ~Inserted(r)' \/ /\ Inserted(r) /\ cat'[r].c = cat[r].c /\ cat'[r].row = cat[r].row
      BY <1>T, <1>L, <2>1, <3>1, InsertsAside DEF Inserted
    <3>2. CASE Inserted(r)' /\ ~(Inserted(r) /\ cat'[r].c = cat[r].c /\ cat'[r].row = cat[r].row)
      <4>1. /\ cat'[r].row = cat[r].row
            /\ cat'[r].c \in Courses \ (Listed \union retired \union {cat[s].c : s \in Uncommitted(r)})
            /\ \A c \in Listed : course[c].code # cat[r].row.code
            /\ \A s \in Uncommitted(r) : cat[s].row.code # cat[r].row.code
        BY <1>2, <1>T, <3>2, CreationMoves, CatIdleFits DEF Inserted
      <4>2. \A s \in CatRequests \ {r} : Inserted(s)' => s \in Uncommitted(r)
        BY <2>1 DEF Uncommitted, Inserted
      <4>3. \A s \in CatRequests \ {r} : Inserted(s)' =>
              cat'[s].c # cat'[r].c /\ cat'[s].row.code # cat'[r].row.code
        BY <2>1, <4>1, <4>2
      <4>4. \A s \in CatRequests \ {r} : Inserted(s)' <=> Inserted(s)
        BY <2>1 DEF Inserted
      <4> QED BY <1>T, <1>L, <2>1, <4>1, <4>3, <4>4 DEF InsertsFit
    <3> QED BY <3>1, <3>2
  <2> QED BY <2>3, <2>4, <2>5 DEF CatBase
\* A request ends or goes on, inserts nothing, and the link of a listed course may change.
<1>3. ASSUME NEW r \in CatRequests, cat' \in [CatRequests -> CatRequest],
             cat'[r] = CatIdle, \A s \in CatRequests \ {r} : cat'[s] = cat[s]
      PROVE  CatFits' /\ (UNCHANGED <<course, retired>> => InsertsFit')
  <2>1. CatFits'
    BY <1>3, <1>T, CatIdleFits DEF CatFits, Creating, Updating
  <2>2. UNCHANGED <<course, retired>> => InsertsFit'
    BY <1>3, <1>T, <1>L, CatIdleFits, InsertsAside DEF Inserted
  <2> QED BY <2>1, <2>2
<1>4. ASSUME NEW r \in CatRequests, InsertLinkAndCommit(r) PROVE CatBase'
  <2> DEFINE c == cat[r].c
             row == cat[r].row
  <2>1. /\ cat[r].at = "commit" /\ UNCHANGED <<retired, student, enrolled, catFaults>>
        /\ c \in Courses /\ cat[r].d \in Departments /\ cat[r].l \in Levels
        /\ cat' \in [CatRequests -> CatRequest]
        /\ cat'[r] = CatIdle /\ \A s \in CatRequests \ {r} : cat'[s] = cat[s]
    BY <1>4, <1>T, CommitMoves
  <2>2. twins' \in BOOLEAN
    <3>1. twins \in BOOLEAN
      BY <1>T DEF CatTypeOK
    <3> QED BY <1>4, <3>1 DEF InsertLinkAndCommit
  <2>3. CASE UNCHANGED <<course, link, unsettled, twins>>
    <3>1. CatTypeOK'
      BY <1>T, <1>L, <2>1, <2>3 DEF CatTypeOK
    <3> QED BY <1>3, <2>1, <2>3, <3>1 DEF CatBase
  <2>4. CASE ~UNCHANGED <<course, link, unsettled, twins>>
    <3>1. /\ Inserted(r) \/ c \in Listed
          /\ course' = IF Inserted(r) THEN [course EXCEPT ![c] = row] ELSE course
          /\ link' = [link EXCEPT ![<<cat[r].d, c>>] = cat[r].l]
          /\ unsettled' = unsettled \union OfDepartment(cat[r].d)
      BY <1>4, <1>T, <2>4, CommitMoves
    <3>2. Inserted(r) => row \in CourseRow
      BY <1>T DEF Inserted, CatTypeOK, CatRequest, Or0
    <3>3. /\ course' \in [Courses -> Or0(CourseRow)] /\ Listed' = Listed \union {c}
          /\ \A e \in Courses : course'[e] = IF e = c /\ Inserted(r) THEN row ELSE course[e]
      BY <1>A, <1>T, <2>1, <3>1, <3>2 DEF CatTypeOK, Listed, Or0
    <3>4. Inserted(r) => c \notin Listed \union retired /\ \A e \in Listed : course[e].code # row.code
      BY <1>T DEF InsertsFit
    <3>5. retired' \in SUBSET (Courses \ Listed')
      BY <1>T, <2>1, <3>1, <3>3, <3>4 DEF CatTypeOK
    <3>6. \A e, f \in Listed' : course'[e].code = course'[f].code => e = f
      BY <1>T, <3>1, <3>3, <3>4 DEF CatTypeOK, Listed
    <3>7. /\ link' \in [Departments \X Courses -> Or0(Levels)]
          /\ \A p \in Departments \X Courses : link'[p] # NoCourse => p[2] \in Listed'
      BY <1>T, <2>1, <3>1, <3>3 DEF CatTypeOK, Or0
    <3>8. CatTypeOK'
      BY <1>T, <1>O, <2>1, <2>2, <3>1, <3>3, <3>5, <3>6, <3>7 DEF CatTypeOK
    <3>9. InsertsFit'
      <4>1. \A s \in CatRequests : Inserted(s)' => s # r /\ Inserted(s) /\ cat'[s] = cat[s]
        BY <2>1, CatIdleFits DEF Inserted
      <4> SUFFICES ASSUME NEW s \in CatRequests, Inserted(s)'
                   PROVE  /\ cat'[s].c \notin Listed' \union retired'
                          /\ \A e \in Listed' : course'[e].code # cat'[s].row.code
                          /\ \A p \in CatRequests \ {s} : Inserted(p)' =>
                               cat'[p].c # cat'[s].c /\ cat'[p].row.code # cat'[s].row.code
        BY DEF InsertsFit
      <4>2. Inserted(s) /\ s # r /\ cat'[s] = cat[s]
        BY <4>1
      <4>3. Inserted(r) => cat[s].c # c /\ cat[s].row.code # row.code
        BY <1>T, <4>2 DEF InsertsFit
      <4>4. /\ cat[s].c \notin Listed \union retired
            /\ \A e \in Listed : course[e].code # cat[s].row.code
            /\ \A p \in CatRequests \ {s} : Inserted(p) =>
                 cat[p].c # cat[s].c /\ cat[p].row.code # cat[s].row.code
        BY <1>T, <4>2 DEF InsertsFit
      <4>5. ~Inserted(r) => Listed' = Listed /\ course' = course
        BY <3>1, <3>3
      <4>6. cat'[s].c \notin Listed' \union retired'
        BY <2>1, <3>3, <4>2, <4>3, <4>4, <4>5
      <4>7. \A e \in Listed' : course'[e].code # cat'[s].row.code
        BY <3>3, <3>4, <4>2, <4>3, <4>4, <4>5 DEF Listed
      <4> QED BY <4>1, <4>2, <4>4, <4>6, <4>7
    <3> QED BY <1>3, <2>1, <3>8, <3>9 DEF CatBase
  <2> QED BY <2>3, <2>4
<1>5. ASSUME NEW r \in CatRequests, NEW c \in Courses, NEW d \in Departments, NEW l \in Levels,
             LinkCourse(r, c, d, l)
      PROVE  CatBase'
  <2>1. /\ CatStart(r, "store", NoCourse, c, d, l)
        /\ UNCHANGED <<course, retired, link, student, enrolled, catFaults, twins, unsettled>>
        /\ NoCourse \in Or0(CourseRow) /\ c \in Or0(Courses)
    BY <1>5 DEF LinkCourse, Or0
  <2>2. /\ cat' \in [CatRequests -> CatRequest]
        /\ cat'[r].at = "store" /\ cat'[r].c = c /\ cat'[r].d = d /\ cat'[r].l = l
        /\ cat'[r].u = NoCourse /\ ~cat'[r].alone
        /\ \A s \in CatRequests \ {r} : cat'[s] = cat[s]
    BY <1>T, <2>1, CatStartMoves
  <2>3. CatTypeOK'
    BY <1>T, <1>L, <2>1, <2>2 DEF CatTypeOK
  <2>4. CatFits'
    BY <1>T, <2>2 DEF CatFits, Creating, Updating
  <2>5. InsertsFit'
    BY <1>T, <1>L, <2>1, <2>2, InsertsAside DEF Inserted
  <2> QED BY <2>3, <2>4, <2>5 DEF CatBase
<1>6. ASSUME NEW r \in CatRequests, StoreLink(r) PROVE CatBase'
  <2>1. /\ UNCHANGED <<course, retired, student, enrolled, catFaults, twins>>
        /\ cat[r].c \in Courses /\ cat[r].d \in Departments /\ cat[r].l \in Levels
        /\ cat' \in [CatRequests -> CatRequest]
        /\ cat'[r] = CatIdle /\ \A s \in CatRequests \ {r} : cat'[s] = cat[s]
        /\ \/ UNCHANGED <<link, unsettled>>
           \/ /\ cat[r].c \in Listed
              /\ link' = [link EXCEPT ![<<cat[r].d, cat[r].c>>] = cat[r].l]
              /\ unsettled' = unsettled \union OfDepartment(cat[r].d)
    BY <1>6, <1>T, StoreMoves
  <2>2. /\ link' \in [Departments \X Courses -> Or0(Levels)] /\ unsettled' \in SUBSET Students
        /\ \A p \in Departments \X Courses : link'[p] # NoCourse => p[2] \in Listed
    BY <1>T, <1>O, <2>1 DEF CatTypeOK, Or0
  <2>3. CatTypeOK'
    BY <1>T, <1>L, <2>1, <2>2 DEF CatTypeOK
  <2> QED BY <1>3, <2>1, <2>3 DEF CatBase
<1>7. ASSUME NEW r \in CatRequests, NEW u \in Students, NEW d \in Or0(Departments), NEW l \in Or0(Levels),
             UpdateUser(r, u, d, l)
      PROVE  CatBase'
  <2>1. /\ UNCHANGED <<course, retired, link, student, enrolled, catFaults, twins>>
        /\ unsettled' \in SUBSET Students /\ cat' \in [CatRequests -> CatRequest]
        /\ cat'[r].u = u /\ cat'[r].to \in Profile /\ cat'[r].at \in {"clear", "profile"}
        /\ cat'[r].alone => cat'[r].at = "clear"
    <3>1. /\ UNCHANGED <<course, retired, link, student, enrolled, catFaults, twins>>
          /\ unsettled' = IF Updates(u) # {} THEN unsettled \union {u} ELSE unsettled
          /\ cat' \in [CatRequests -> CatRequest] /\ cat'[r].u = u /\ cat'[r].to \in Profile
          /\ cat'[r].at = IF cat'[r].to # student[u] THEN "clear" ELSE "profile"
      BY <1>7, <1>T, UpdateUserMoves
    <3>2. cat'[r].alone => cat'[r].to # student[u]
      <4>1. cat'[r].alone = (cat'[r].to # student[u] /\ Updates(u) = {})
        BY <1>7, <1>T, UpdateUserMoves
      <4> QED BY <4>1
    <3>3. unsettled' \in SUBSET Students
      BY <1>T, <3>1 DEF CatTypeOK
    <3> QED BY <3>1, <3>2, <3>3
  <2>2. \A s \in CatRequests \ {r} :
          /\ cat'[s].at = cat[s].at /\ cat'[s].row = cat[s].row /\ cat'[s].c = cat[s].c
          /\ cat'[s].d = cat[s].d /\ cat'[s].l = cat[s].l /\ cat'[s].u = cat[s].u
          /\ cat'[s].to = cat[s].to /\ (cat'[s].alone => cat[s].alone)
    BY <1>7, <1>T, UpdateUserMoves
  <2>3. CatTypeOK'
    BY <1>T, <1>L, <2>1 DEF CatTypeOK
  <2>4. CatFits'
    BY <1>T, <2>1, <2>2 DEF CatFits, Creating, Updating
  <2>5. \A s \in CatRequests : Inserted(s)' => Inserted(s) /\ cat'[s].c = cat[s].c /\ cat'[s].row = cat[s].row
    BY <2>1, <2>2 DEF Inserted
  <2>6. InsertsFit'
    BY <1>T, <1>L, <2>1, <2>5, InsertsAside
  <2> QED BY <2>3, <2>4, <2>6 DEF CatBase
<1>8. ASSUME NEW r \in CatRequests,
             \/ DeleteAllUserCourses(r) \/ FindCoursesByDepartmentAndLevel(r)
             \/ CreateUserCourses(r) \/ UpdateUserRow(r)
      PROVE  CatBase'
  <2>1. /\ UNCHANGED <<course, retired, link, catFaults, twins>>
        /\ cat[r].u \in Students /\ cat[r].to \in Profile
        /\ cat' \in [CatRequests -> CatRequest] /\ \A s \in CatRequests \ {r} : cat'[s] = cat[s]
    BY <1>8, <1>T, UpdateMoves
  <2>2. \/ cat'[r] = CatIdle
        \/ /\ cat'[r].u = cat[r].u /\ cat'[r].to = cat[r].to /\ ~cat'[r].alone
           /\ cat'[r].at \in {"fetch", "enrol", "profile"}
    BY <1>8, <1>T, UpdateMoves
  <2>3. enrolled' \in SUBSET (Students \X Listed)
    BY <1>8, <1>T, <2>1, UpdateMoves DEF CatTypeOK
  <2>4. RowAfter(r, cat[r].u) \in Profile
    <3>1. cat[r].d \in Or0(Departments) /\ cat[r].l \in Or0(Levels) /\ student[cat[r].u] \in Profile
      BY <1>T, <2>1 DEF CatTypeOK, CatRequest
    <3> QED BY <3>1 DEF RowAfter, Profile, Or0
  <2>5. student' \in [Students -> Profile]
    BY <1>8, <1>T, <2>1, <2>4, UpdateMoves DEF CatTypeOK
  <2>6. unsettled' \in SUBSET Students
    BY <1>8, <1>T, <2>1, UpdateMoves DEF CatTypeOK
  <2>7. CatTypeOK'
    BY <1>T, <1>L, <2>1, <2>3, <2>5, <2>6 DEF CatTypeOK
  <2>8. CatFits'
    <3>1. CASE cat'[r] = CatIdle
      BY <1>3, <2>1, <3>1
    <3>2. CASE cat'[r] # CatIdle
      BY <1>T, <2>1, <2>2, <3>2 DEF CatFits, Creating, Updating
    <3> QED BY <3>1, <3>2
  <2>9. \A s \in CatRequests : Inserted(s)' => Inserted(s) /\ cat'[s].c = cat[s].c /\ cat'[s].row = cat[s].row
    BY <2>1, <2>2, CatIdleFits DEF Inserted
  <2>10. InsertsFit'
    BY <1>T, <1>L, <2>1, <2>9, InsertsAside
  <2> QED BY <2>7, <2>8, <2>10 DEF CatBase
<1>9. ASSUME NEW r \in CatRequests, CatAbort(r) PROVE CatBase'
  <2>1. /\ CatEnd(r) /\ UNCHANGED <<course, retired, link, student, enrolled, twins>>
        /\ unsettled' = IF cat[r].u = NoCourse THEN unsettled ELSE unsettled \union {cat[r].u}
        /\ catFaults < MaxCatFaults /\ catFaults' = catFaults + 1
    BY <1>9 DEF CatAbort
  <2>2. cat' \in [CatRequests -> CatRequest] /\ cat'[r] = CatIdle /\ \A s \in CatRequests \ {r} : cat'[s] = cat[s]
    BY <1>T, <2>1, CatEndMoves
  <2>3. catFaults' \in 0 .. MaxCatFaults
    BY <1>T, <2>1, CatalogueAssumption DEF CatTypeOK
  <2>4. unsettled' \in SUBSET Students
    BY <1>T, <2>1 DEF CatTypeOK, CatRequest, Or0
  <2>5. CatTypeOK'
    BY <1>T, <1>L, <2>1, <2>2, <2>3, <2>4 DEF CatTypeOK
  <2> QED BY <1>3, <2>1, <2>2, <2>5 DEF CatBase
<1>10. ASSUME NEW c \in Courses, DeleteCourse(c) PROVE CatBase'
  <2>1. /\ c \in Listed /\ course' = [course EXCEPT ![c] = NoCourse] /\ retired' = retired \union {c}
        /\ link' = [p \in Departments \X Courses |-> IF p[2] = c THEN NoCourse ELSE link[p]]
        /\ enrolled' = {e \in enrolled : e[2] # c}
        /\ UNCHANGED <<student, cat, catFaults, twins, unsettled>>
    BY <1>10 DEF DeleteCourse
  <2>2. /\ course' \in [Courses -> Or0(CourseRow)] /\ Listed' = Listed \ {c}
        /\ \A e \in Listed' : course'[e] = course[e]
    BY <1>T, <2>1 DEF CatTypeOK, Listed, Or0
  <2>3. /\ link' \in [Departments \X Courses -> Or0(Levels)]
        /\ \A p \in Departments \X Courses : link'[p] # NoCourse => p[2] \in Listed'
    BY <1>T, <2>1, <2>2 DEF CatTypeOK, Or0
  <2>4. enrolled' \in SUBSET (Students \X Listed') /\ retired' \in SUBSET (Courses \ Listed')
    BY <1>T, <2>1, <2>2 DEF CatTypeOK
  <2>5. CatTypeOK'
    BY <1>T, <2>1, <2>2, <2>3, <2>4 DEF CatTypeOK
  <2>6. CatFits'
    BY <1>T, <2>1 DEF CatFits
  <2>7. InsertsFit'
    BY <1>T, <2>1, <2>2, InsertsAside DEF Inserted
  <2> QED BY <2>5, <2>6, <2>7 DEF CatBase
<1>11. ASSUME NEW c \in Courses, NEW row \in CourseRow, UpdateCourse(c, row) PROVE CatBase'
  <2>1. /\ c \in Listed /\ course' = [course EXCEPT ![c] = row]
        /\ \A e \in Listed \ {c} : course[e].code # row.code
        /\ \A s \in CatRequests : Inserted(s) => cat[s].row.code # row.code
        /\ UNCHANGED <<retired, link, student, enrolled, cat, catFaults, unsettled>>
    BY <1>11 DEF UpdateCourse
  <2>2. twins' \in BOOLEAN
    <3>1. twins \in BOOLEAN
      BY <1>T DEF CatTypeOK
    <3> QED BY <1>11, <3>1 DEF UpdateCourse
  <2>3. /\ course' \in [Courses -> Or0(CourseRow)] /\ Listed' = Listed
        /\ \A e \in Listed' : course'[e] = IF e = c THEN row ELSE course[e]
    BY <1>A, <1>T, <2>1 DEF CatTypeOK, Listed, Or0
  <2>4. \A e, f \in Listed' : course'[e].code = course'[f].code => e = f
    BY <1>T, <2>1, <2>3 DEF CatTypeOK
  <2>5. CatTypeOK'
    BY <1>T, <2>1, <2>2, <2>3, <2>4 DEF CatTypeOK
  <2>6. CatFits'
    BY <1>T, <2>1 DEF CatFits
  <2>7. InsertsFit'
    BY <1>T, <2>1, <2>3 DEF InsertsFit, Inserted
  <2> QED BY <2>5, <2>6, <2>7 DEF CatBase
<1>12. ASSUME NEW c \in Courses, NEW d \in Departments, DeleteLink(d, c) PROVE CatBase'
  <2>1. /\ link' = [link EXCEPT ![<<d, c>>] = NoCourse] /\ unsettled' = unsettled \union OfDepartment(d)
        /\ UNCHANGED <<course, retired, student, enrolled, cat, catFaults, twins>>
    BY <1>12 DEF DeleteLink
  <2>2. /\ link' \in [Departments \X Courses -> Or0(Levels)] /\ unsettled' \in SUBSET Students
        /\ \A p \in Departments \X Courses : link'[p] # NoCourse => p[2] \in Listed
    BY <1>T, <1>O, <2>1 DEF CatTypeOK, Or0
  <2>3. CatTypeOK'
    BY <1>T, <1>L, <2>1, <2>2 DEF CatTypeOK
  <2> QED BY <1>T, <1>L, <2>1, <2>3, InsertsAside DEF CatBase, CatFits, Inserted
<1>13. ASSUME NEW c \in Courses, NEW u \in Students, AddCourse(u, c) \/ RemoveCourse(u, c) PROVE CatBase'
  <2>1. /\ UNCHANGED <<course, retired, link, student, cat, catFaults, twins>>
        /\ unsettled' \in SUBSET Students /\ enrolled' \in SUBSET (Students \X Listed)
    BY <1>13, <1>T DEF AddCourse, RemoveCourse, CatTypeOK
  <2>2. CatTypeOK'
    BY <1>T, <1>L, <2>1 DEF CatTypeOK
  <2> QED BY <1>T, <1>L, <2>1, <2>2, InsertsAside DEF CatBase, CatFits, Inserted
<1>14. CASE UNCHANGED catVars
  <2>1. CatTypeOK'
    BY <1>14, <1>T, <1>L DEF catVars, CatTypeOK
  <2> QED BY <1>14, <1>T, <1>L, <2>1, InsertsAside DEF catVars, CatBase, CatFits, Inserted
<1> QED BY <1>1, <1>2, <1>4, <1>5, <1>6, <1>7, <1>8, <1>9, <1>10, <1>11, <1>12, <1>13, <1>14 DEF CatNext

\* Every reachable state of the catalogue is well typed: in it no two courses have one
\* code, links and enrolments are those of courses there are.
THEOREM CatTypeCorrect == CatSpec => []CatTypeOK
<1>1. CatBase => CatTypeOK
  BY DEF CatBase
<1> QED BY <1>1, CatBaseInit, CatBaseStep, PTL DEF CatSpec

-----------------------------------------------------------------------------
(* Names *)

\* A step that names nothing.
LEMMA NamesAside ==
  ASSUME NamesAreDistinct, NamesComing, twins => twins',
         \A c \in Listed' : c \in Listed /\ course'[c] = course[c],
         \A s \in CatRequests :
           /\ Inserted(s)' => Inserted(s) /\ cat'[s].row = cat[s].row
           /\ cat'[s].at = "name" => cat[s].at = "name" /\ cat'[s].row = cat[s].row
  PROVE  NamesAreDistinct' /\ NamesComing'
<1>1. CASE twins'
  BY <1>1 DEF NamesAreDistinct, NamesComing
<1>2. CASE ~twins'
  <2>1. NamesAreDistinct'
    BY <1>2 DEF NamesAreDistinct
  <2>2. NamesComing'
    BY <1>2 DEF NamesComing
  <2> QED BY <2>1, <2>2
<1> QED BY <1>1, <1>2

LEMMA NamesStep ==
  CatBase /\ NamesAreDistinct /\ NamesComing /\ [CatNext]_catVars => NamesAreDistinct' /\ NamesComing'
<1> DEFINE Good == NamesAreDistinct /\ NamesComing
<1> SUFFICES ASSUME CatBase, NamesAreDistinct, NamesComing, [CatNext]_catVars PROVE Good'
  OBVIOUS
<1>T. CatTypeOK /\ CatFits /\ InsertsFit
  BY DEF CatBase
<1>L. course' = course => Listed' = Listed
  BY DEF Listed
<1> HIDE DEF Good
<1>1. ASSUME UNCHANGED <<course, twins>>,
             \A s \in CatRequests :
               /\ cat'[s].at \in {"name", "check", "commit"} => cat'[s].at = cat[s].at /\ cat'[s].row = cat[s].row
      PROVE  Good'
  BY <1>1, <1>L, NamesAside DEF Good, Inserted
<1>2. ASSUME NEW r \in CatRequests, NEW row \in CourseRow, NEW d \in Departments, NEW l \in Levels,
             CreateCourse(r, row, d, l)
      PROVE  Good'
  <2>1. CatStart(r, "find", row, NoCourse, d, l) /\ UNCHANGED <<course, twins>>
        /\ row \in Or0(CourseRow) /\ NoCourse \in Or0(Courses)
    BY <1>2 DEF CreateCourse, Or0
  <2>2. cat'[r].at = "find" /\ \A s \in CatRequests \ {r} : cat'[s] = cat[s]
    BY <1>T, <2>1, CatStartMoves
  <2> QED BY <1>1, <2>1, <2>2
<1>3. ASSUME NEW r \in CatRequests, FindSameCourse(r) \/ InsertCourse(r) \/ FindLinkOfLevel(r)
      PROVE  Good'
  <2>1. course' = course /\ \A s \in CatRequests \ {r} : cat'[s] = cat[s]
    BY <1>3, <1>T, CreationMoves
  <2>2. \A s \in CatRequests \ {r} : Inserted(s)' = Inserted(s)
    BY <2>1 DEF Inserted
  <2>3. CASE cat'[r] = CatIdle
    <3>1. twins => twins'
      BY <1>3 DEF FindSameCourse, InsertCourse, FindLinkOfLevel
    <3>2. ~Inserted(r)' /\ cat'[r].at # "name"
      BY <2>3, CatIdleFits DEF Inserted
    <3> QED BY <1>L, <2>1, <2>2, <3>1, <3>2, NamesAside DEF Good
  <2>4. CASE cat[r].at = "find" /\ cat'[r].at = "name"
    <3>1. /\ cat'[r].row = cat[r].row /\ twins' = twins
          /\ \A c \in Listed : course[c].name # cat[r].row.name
      BY <1>3, <1>T, <2>4, CreationMoves, CatIdleFits
    <3>2. ~Inserted(r)'
      BY <2>4 DEF Inserted
    <3>3. CASE twins
      BY <3>1, <3>3 DEF Good, NamesAreDistinct, NamesComing
    <3>4. CASE ~twins
      BY <1>L, <2>1, <2>2, <3>1, <3>2, <3>4 DEF Good, NamesAreDistinct, NamesComing
    <3> QED BY <3>3, <3>4
  <2>5. CASE cat[r].at = "name" /\ cat'[r].at = "check"
    <3>1. /\ cat'[r].row = cat[r].row
          /\ twins' = (twins \/ \E s \in Uncommitted(r) : cat[s].row.name = cat[r].row.name)
      BY <1>3, <1>T, <2>5, CreationMoves, CatIdleFits
    <3>2. CASE twins'
      BY <3>2 DEF Good, NamesAreDistinct, NamesComing
    <3>3. CASE ~twins'
      <4>1. ~twins /\ \A s \in CatRequests \ {r} : Inserted(s)' => cat'[s].row.name # cat'[r].row.name
        BY <2>1, <2>2, <3>1, <3>3 DEF Uncommitted
      <4>2. \A c \in Listed : course[c].name # cat'[r].row.name
        BY <2>5, <3>1, <4>1 DEF NamesComing
      <4>3. NamesComing'
        <5> SUFFICES ASSUME NEW s \in CatRequests
                     PROVE  /\ cat'[s].at = "name" \/ Inserted(s)' =>
                                 \A c \in Listed' : course'[c].name # cat'[s].row.name
                            /\ Inserted(s)' => \A p \in CatRequests \ {s} :
                                 Inserted(p)' => cat'[p].row.name # cat'[s].row.name
          BY DEF NamesComing
        <5>1. CASE s = r
          BY <1>L, <2>1, <4>1, <4>2, <5>1
        <5>2. CASE s # r
          BY <1>L, <2>1, <2>2, <4>1, <5>2 DEF NamesComing
        <5> QED BY <5>1, <5>2
      <4> QED BY <1>L, <2>1, <4>1, <4>3 DEF Good, NamesAreDistinct
    <3> QED BY <3>2, <3>3
  <2>6. CASE cat[r].at = "find" /\ cat'[r].at = "check"
    <3>1. cat'[r].row = NoCourse /\ twins' = twins
      BY <1>3, <1>T, <2>6, CreationMoves, CatIdleFits
    <3>2. ~Inserted(r)' /\ cat'[r].at # "name"
      BY <2>6, <3>1 DEF Inserted
    <3> QED BY <1>L, <2>1, <2>2, <3>1, <3>2, NamesAside DEF Good
  <2>7. CASE cat[r].at = "check" /\ cat'[r].at = "commit"
    <3>1. cat'[r].row = cat[r].row /\ twins' = twins
      BY <1>3, <1>T, <2>7, CreationMoves, CatIdleFits
    <3>2. (Inserted(r)' => Inserted(r)) /\ cat'[r].at # "name"
      BY <2>7, <3>1 DEF Inserted
    <3> QED BY <1>L, <2>1, <2>2, <3>1, <3>2, NamesAside DEF Good
  <2> QED BY <1>3, <1>T, <2>3, <2>4, <2>5, <2>6, <2>7, CreationMoves
<1>4. ASSUME NEW r \in CatRequests, InsertLinkAndCommit(r) PROVE Good'
  <2> DEFINE c == cat[r].c
             row == cat[r].row
  <2>1. c \in Courses /\ cat'[r] = CatIdle /\ \A s \in CatRequests \ {r} : cat'[s] = cat[s]
    BY <1>4, <1>T, CommitMoves
  <2>2. ~Inserted(r)' /\ cat'[r].at # "name" /\ \A s \in CatRequests \ {r} : Inserted(s)' = Inserted(s)
    BY <2>1, CatIdleFits DEF Inserted
  <2>3. twins => twins'
    BY <1>4 DEF InsertLinkAndCommit
  <2>4. CASE course' = course
    BY <1>L, <2>1, <2>2, <2>3, <2>4, NamesAside DEF Good
  <2>5. CASE course' # course
    <3>1. /\ Inserted(r) /\ course' = [course EXCEPT ![c] = row]
          /\ twins' = \/ twins
                      \/ \E s \in CatRequests \ {r} : cat[s].at = "name" /\ SameName(cat[s].row, row)
      BY <1>4, <1>T, <2>5, CommitMoves
    <3>2. /\ row # NoCourse /\ Listed' = Listed \union {c} /\ course'[c] = row
          /\ \A e \in Listed \ {c} : course'[e] = course[e]
      BY <1>T, <2>1, <3>1 DEF Inserted, CatTypeOK, Listed
    <3>3. CASE twins'
      BY <3>3 DEF Good, NamesAreDistinct, NamesComing
    <3>4. CASE ~twins'
      <4>1. ~twins
        BY <2>3, <3>4
      <4>2. \A e \in Listed : course[e].name # row.name
        BY <3>1, <4>1 DEF NamesComing
      <4>3. NamesAreDistinct'
        BY <3>2, <4>1, <4>2 DEF NamesAreDistinct
      <4>4. \A s \in CatRequests \ {r} : cat[s].at = "name" \/ Inserted(s) => cat[s].row.name # row.name
        <5> SUFFICES ASSUME NEW s \in CatRequests \ {r}, cat[s].at = "name" \/ Inserted(s)
                     PROVE  cat[s].row.name # row.name
          OBVIOUS
        <5>1. CASE cat[s].at = "name"
          <6>1. cat[s].row # NoCourse
            BY <1>T, <5>1, CatalogueAssumption DEF CatFits
          <6> QED BY <3>1, <3>2, <3>4, <5>1, <6>1 DEF SameName
        <5>2. CASE Inserted(s)
          BY <3>1, <4>1, <5>2 DEF NamesComing
        <5> QED BY <5>1, <5>2
      <4>5. NamesComing'
        <5> SUFFICES ASSUME NEW s \in CatRequests
                     PROVE  /\ cat'[s].at = "name" \/ Inserted(s)' =>
                                 \A e \in Listed' : course'[e].name # cat'[s].row.name
                            /\ Inserted(s)' => \A p \in CatRequests \ {s} :
                                 Inserted(p)' => cat'[p].row.name # cat'[s].row.name
          BY DEF NamesComing
        <5>1. CASE s = r
          BY <2>2, <5>1
        <5>2. CASE s # r
          BY <2>1, <2>2, <3>2, <4>1, <4>4, <5>2 DEF NamesComing
        <5> QED BY <5>1, <5>2
      <4> QED BY <4>3, <4>5 DEF Good
    <3> QED BY <3>3, <3>4
  <2> QED BY <2>4, <2>5
<1>5. ASSUME NEW r \in CatRequests, NEW c \in Courses, NEW d \in Departments, NEW l \in Levels,
             LinkCourse(r, c, d, l)
      PROVE  Good'
  <2>1. CatStart(r, "store", NoCourse, c, d, l) /\ UNCHANGED <<course, twins>>
        /\ NoCourse \in Or0(CourseRow) /\ c \in Or0(Courses)
    BY <1>5 DEF LinkCourse, Or0
  <2>2. cat'[r].at = "store" /\ \A s \in CatRequests \ {r} : cat'[s] = cat[s]
    BY <1>T, <2>1, CatStartMoves
  <2> QED BY <1>1, <2>1, <2>2
<1>6. ASSUME NEW r \in CatRequests, StoreLink(r) \/ CatAbort(r) PROVE Good'
  <2>1. UNCHANGED <<course, twins>> /\ CatEnd(r)
    BY <1>6 DEF StoreLink, CatAbort
  <2>2. cat'[r].at = "idle" /\ \A s \in CatRequests \ {r} : cat'[s] = cat[s]
    BY <1>T, <2>1, CatEndMoves, CatIdleFits
  <2> QED BY <1>1, <2>1, <2>2
<1>7. ASSUME NEW r \in CatRequests, NEW u \in Students, NEW d \in Or0(Departments), NEW l \in Or0(Levels),
             UpdateUser(r, u, d, l)
      PROVE  Good'
  <2>1. UNCHANGED <<course, twins>> /\ cat'[r].at \in {"clear", "profile"}
    BY <1>7, <1>T, UpdateUserMoves
  <2>2. \A s \in CatRequests \ {r} : cat'[s].at = cat[s].at /\ cat'[s].row = cat[s].row
    BY <1>7, <1>T, UpdateUserMoves
  <2> QED BY <1>1, <2>1, <2>2
<1>8. ASSUME NEW r \in CatRequests,
             \/ DeleteAllUserCourses(r) \/ FindCoursesByDepartmentAndLevel(r)
             \/ CreateUserCourses(r) \/ UpdateUserRow(r)
      PROVE  Good'
  <2>1. UNCHANGED <<course, twins>> /\ \A s \in CatRequests \ {r} : cat'[s] = cat[s]
    BY <1>8, <1>T, UpdateMoves
  <2>2. cat'[r].at \in {"idle", "fetch", "enrol", "profile"}
    BY <1>8, <1>T, UpdateMoves, CatIdleFits
  <2> QED BY <1>1, <2>1, <2>2
<1>9. ASSUME NEW c \in Courses, DeleteCourse(c) PROVE Good'
  <2>1. Listed' \subseteq Listed /\ \A e \in Listed' : course'[e] = course[e]
    BY <1>9, <1>T DEF DeleteCourse, CatTypeOK, Listed
  <2>2. cat' = cat /\ twins' = twins
    BY <1>9 DEF DeleteCourse
  <2> QED BY <2>1, <2>2, NamesAside DEF Good, Inserted
<1>10. ASSUME NEW c \in Courses, NEW row \in CourseRow, UpdateCourse(c, row) PROVE Good'
  <2>1. /\ c \in Listed /\ course' = [course EXCEPT ![c] = row] /\ cat' = cat
        /\ twins' = \/ twins
                    \/ \E e \in Listed \ {c} : course[e].name = row.name
                    \/ \E s \in CatRequests : /\ cat[s].at = "name" \/ Inserted(s)
                                             /\ cat[s].row.name = row.name
    BY <1>10 DEF UpdateCourse
  <2>2. Listed' = Listed /\ \A e \in Listed' : course'[e] = IF e = c THEN row ELSE course[e]
    BY <1>T, <2>1, CatalogueAssumption DEF CatTypeOK, Listed
  <2>3. CASE twins'
    BY <2>3 DEF Good, NamesAreDistinct, NamesComing
  <2>4. CASE ~twins'
    <3>1. /\ ~twins /\ \A e \in Listed \ {c} : course[e].name # row.name
          /\ \A s \in CatRequests : cat[s].at = "name" \/ Inserted(s) => cat[s].row.name # row.name
      BY <2>1, <2>4
    <3>2. NamesAreDistinct'
      BY <2>2, <3>1 DEF NamesAreDistinct
    <3>3. NamesComing'
      BY <2>1, <2>2, <3>1 DEF NamesComing, Inserted
    <3> QED BY <3>2, <3>3 DEF Good
  <2> QED BY <2>3, <2>4
<1>11. ASSUME NEW c \in Courses, NEW d \in Departments, DeleteLink(d, c) PROVE Good'
  BY <1>1, <1>11 DEF DeleteLink
<1>12. ASSUME NEW c \in Courses, NEW u \in Students, AddCourse(u, c) \/ RemoveCourse(u, c) PROVE Good'
  BY <1>1, <1>12 DEF AddCourse, RemoveCourse
<1>13. CASE UNCHANGED catVars
  BY <1>1, <1>13 DEF catVars
<1> QED BY <1>2, <1>3, <1>4, <1>5, <1>6, <1>7, <1>8, <1>9, <1>10, <1>11, <1>12, <1>13 DEF CatNext, Good

\* No two courses have one name, unless two were named at once or an administrator did it.
THEOREM NamesAreDistinctHolds == CatSpec => []NamesAreDistinct
<1> DEFINE Inv == CatBase /\ NamesAreDistinct /\ NamesComing
<1>1. CatInit => Inv
  <2>1. CatInit => NamesAreDistinct /\ NamesComing
    BY CatIdleFits DEF CatInit, Listed, NamesAreDistinct, NamesComing, Inserted
  <2> QED BY <2>1, CatBaseInit
<1>2. Inv /\ [CatNext]_catVars => Inv'
  BY CatBaseStep, NamesStep
<1>3. Inv => NamesAreDistinct
  OBVIOUS
<1> QED BY <1>1, <1>2, <1>3, PTL DEF CatSpec

-----------------------------------------------------------------------------
(* Enrolments *)

\* A step that does not touch a user's row, updates and, unless it unsettles the user,
\* courses.
LEMMA UserAside ==
  ASSUME NEW u \in Students, SettledUser(u), student'[u] = student[u],
         \A s \in CatRequests : /\ cat'[s].u = u <=> cat[s].u = u
                                /\ cat[s].u = u => cat'[s] = cat[s],
         u \notin unsettled' =>
           /\ u \notin unsettled /\ CoursesHeld(u)' = CoursesHeld(u) /\ retired' = retired
           /\ FittingCourses(student[u])' = FittingCourses(student[u])
           /\ \A s \in CatRequests : cat[s].u = u => FittingCourses(cat[s].to)' = FittingCourses(cat[s].to)
  PROVE  SettledUser(u)'
<1>1. Updates(u)' = Updates(u)
  BY DEF Updates
<1>2. \A s \in CatRequests : cat[s].u = u => cat'[s] = cat[s] /\ RowAfter(s, u)' = RowAfter(s, u)
  BY DEF RowAfter
<1>3. CASE u \in unsettled'
  BY <1>1, <1>2, <1>3 DEF SettledUser
<1>4. CASE u \notin unsettled'
  BY <1>1, <1>2, <1>4 DEF SettledUser
<1> QED BY <1>3, <1>4

\* A change of a link unsettles whom it concerns.
LEMMA LinkAside ==
  ASSUME CatBase, NEW u \in Students, SettledUser(u), NEW d \in Departments, NEW c \in Courses, NEW l,
         link' = [link EXCEPT ![<<d, c>>] = l], unsettled' = unsettled \union OfDepartment(d),
         UNCHANGED <<student, enrolled, retired>>,
         \A s \in CatRequests : /\ cat'[s].u = u <=> cat[s].u = u
                                /\ cat[s].u = u => cat'[s] = cat[s]
  PROVE  SettledUser(u)'
<1>0. CatTypeOK /\ CatFits
  BY DEF CatBase
<1>1. CASE u \in unsettled'
  BY <1>1, UserAside
<1>2. CASE u \notin unsettled'
  <2>1. u \notin OfDepartment(d) /\ u \notin unsettled
    BY <1>2
  <2>2. student[u].department # d /\ student[u].department \in Departments
    BY <1>0, <2>1 DEF OfDepartment, CatTypeOK, Profile
  <2>3. \A s \in CatRequests : cat[s].u = u => cat[s].to.department # d /\ cat[s].to.department \in Departments
    <3>1. \A s \in CatRequests : cat[s].u = u => cat[s].at \in Updating
      BY <1>0, CatalogueAssumption DEF CatFits
    <3>2. \A s \in CatRequests : cat[s].u = u => cat[s].to \in Profile
      BY <1>0, <3>1 DEF CatFits
    <3> QED BY <2>1, <3>2 DEF OfDepartment, Updates, Profile
  <2>4. \A e \in Departments \ {d}, x \in Courses : link'[<<e, x>>] = link[<<e, x>>]
    BY <1>0 DEF CatTypeOK
  <2>5. FittingCourses(student[u])' = FittingCourses(student[u])
    <3>1. student' = student
      OBVIOUS
    <3> QED BY <2>2, <2>4, <3>1 DEF FittingCourses, CoursesOf
  <2>6. \A s \in CatRequests : cat[s].u = u => FittingCourses(cat[s].to)' = FittingCourses(cat[s].to)
    <3> SUFFICES ASSUME NEW s \in CatRequests, cat[s].u = u
                 PROVE  FittingCourses(cat[s].to)' = FittingCourses(cat[s].to)
      OBVIOUS
    <3>1. cat'[s] = cat[s] /\ cat[s].to.department \in Departments \ {d}
      BY <2>3
    <3> QED BY <2>4, <3>1 DEF FittingCourses, CoursesOf
  <2> QED BY <2>1, <2>5, <2>6, UserAside DEF CoursesHeld
<1> QED BY <1>1, <1>2

\* One step of an update, for the user whose update it is.
LEMMA OwnUpdate ==
  ASSUME CatBase, NEW r \in CatRequests, NEW u \in Students, cat[r].u = u, SettledUser(u),
         \/ DeleteAllUserCourses(r) \/ FindCoursesByDepartmentAndLevel(r)
         \/ CreateUserCourses(r) \/ UpdateUserRow(r)
  PROVE  SettledUser(u)'
<1> DEFINE q == cat[r]
<1>T. CatTypeOK /\ CatFits /\ SettledUser(u)
  BY DEF CatBase
<1>N. CatIdle.u # u
  BY CatalogueAssumption, CatIdleFits
<1>1. /\ UNCHANGED <<retired, link>> /\ q.to \in Profile
      /\ \A s \in CatRequests \ {r} : cat'[s] = cat[s]
  BY <1>T, UpdateMoves
\* Nobody else claims to be alone or works for a settled user.
<1>2. \A s \in CatRequests \ {r} : cat'[s].u = u => ~cat'[s].alone /\ u \in unsettled /\ ~q.alone
  BY <1>1, <1>T DEF SettledUser, Updates
<1>3. u \notin unsettled \/ q.alone => Updates(u) = {r} /\ q.to = RowAfter(r, u)
  BY <1>T DEF SettledUser
\* The update goes on.
<1>4. ASSUME cat'[r].d = q.d, cat'[r].l = q.l, cat'[r].u = u, cat'[r].to = q.to, ~cat'[r].alone,
             student' = student,
             u \notin unsettled' => u \notin unsettled \/ q.alone,
             u \notin unsettled' =>
               /\ cat'[r].at \in {"fetch", "enrol"} => CoursesHeld(u)' = {}
               /\ cat'[r].at = "enrol" => cat'[r].fetched \ retired = FittingCourses(q.to)
               /\ cat'[r].at = "profile" => CoursesHeld(u)' = FittingCourses(q.to)
      PROVE  SettledUser(u)'
  <2>1. Updates(u)' = Updates(u) /\ r \in Updates(u) /\ RowAfter(r, u)' = RowAfter(r, u)
    BY <1>1, <1>4 DEF Updates, RowAfter
  <2>2. FittingCourses(cat[r].to)' = FittingCourses(q.to)
    BY <1>1, <1>4 DEF FittingCourses, CoursesOf
  <2>3. \A s \in CatRequests : cat'[s].u = u /\ (cat'[s].alone \/ u \notin unsettled') => s = r
    BY <1>2, <1>4
  <2> QED BY <1>1, <1>3, <1>4, <2>1, <2>2, <2>3 DEF SettledUser
<1>5. ASSUME cat'[r] = CatIdle,
             u \notin unsettled' => /\ u \notin unsettled
                                    /\ CoursesHeld(u)' = FittingCourses(student[u])'
      PROVE  SettledUser(u)'
  <2>1. \A s \in CatRequests : cat'[s].u = u => ~cat'[s].alone /\ u \in unsettled
    BY <1>N, <1>2, <1>5
  <2> QED BY <1>5, <2>1 DEF SettledUser
<1>6. CASE DeleteAllUserCourses(r)
  <2>1. /\ cat'[r].d = q.d /\ cat'[r].l = q.l /\ cat'[r].u = u /\ cat'[r].to = q.to /\ ~cat'[r].alone
        /\ cat'[r].at = "fetch" /\ student' = student
        /\ enrolled' = {e \in enrolled : e[1] # u}
        /\ unsettled' = IF q.alone THEN unsettled \ {u} ELSE unsettled
    <3>1. cat[r].at = "clear"
      BY <1>6 DEF DeleteAllUserCourses
    <3>2. cat'[r] # CatIdle
      BY <1>6, <1>T DEF DeleteAllUserCourses, CatSet, CatTypeOK, CatRequest, CatIdle
    <3> QED BY <1>6, <1>T, <3>1, <3>2, UpdateMoves
  <2>2. CoursesHeld(u)' = {}
    BY <2>1 DEF CoursesHeld
  <2> QED BY <1>4, <2>1, <2>2
<1>7. CASE FindCoursesByDepartmentAndLevel(r)
  <2> DEFINE found == FittingCourses(q.to)
  <2>1. /\ cat'[r].d = q.d /\ cat'[r].l = q.l /\ cat'[r].u = u /\ cat'[r].to = q.to /\ ~cat'[r].alone
        /\ q.at = "fetch" /\ UNCHANGED <<student, enrolled, unsettled>>
        /\ \/ found = {} /\ cat'[r].at = "profile"
           \/ cat'[r].at = "enrol" /\ cat'[r].fetched = found
    <3>1. cat[r].at = "fetch"
      BY <1>7 DEF FindCoursesByDepartmentAndLevel
    <3>2. cat'[r] # CatIdle
      BY <3>1, <1>7, <1>T DEF FindCoursesByDepartmentAndLevel, CatSet, CatTypeOK, CatRequest, CatIdle
    <3> QED BY <1>7, <1>T, <3>1, <3>2, UpdateMoves
  <2>2. found \ retired = found
    <3>1. q.to.department \in Departments /\ q.to.level \in Levels /\ NoCourse # q.to.level
      BY <1>1, CatalogueAssumption DEF Profile
    <3> QED BY <1>T, <3>1 DEF CatTypeOK, FittingCourses, CoursesOf
  <2>3. u \notin unsettled => CoursesHeld(u)' = {}
    BY <1>T, <2>1 DEF SettledUser, CoursesHeld
  <2> QED BY <1>4, <2>1, <2>2, <2>3
<1>8. CASE CreateUserCourses(r)
  <2>1. cat[r].at = "enrol"
    BY <1>8 DEF CreateUserCourses
  <2>2. CASE cat'[r] = CatIdle
    <3>1. u \in unsettled'
      BY <1>T, <2>1, <2>2, <1>8, <1>N, UpdateMoves
    <3> QED BY <1>5, <2>2, <3>1
  <2>3. CASE cat'[r] # CatIdle
    <3>1. /\ cat'[r].d = q.d /\ cat'[r].l = q.l /\ cat'[r].u = u /\ cat'[r].to = q.to /\ ~cat'[r].alone
          /\ cat'[r].at = "profile" /\ UNCHANGED <<student, unsettled>>
          /\ q.fetched \subseteq Listed
          /\ enrolled' = enrolled \union ({u} \X q.fetched)
      BY <1>8, <1>T, <2>1, <2>3, UpdateMoves
    <3>2. CoursesHeld(u)' = CoursesHeld(u) \union q.fetched
      BY <3>1 DEF CoursesHeld, Listed
    <3>3. q.fetched \ retired = q.fetched
      BY <1>T, <3>1 DEF CatTypeOK
    <3>4. u \notin unsettled => CoursesHeld(u)' = FittingCourses(q.to)
      BY <1>T, <2>1, <3>2, <3>3 DEF SettledUser
    <3> QED BY <1>4, <3>1, <3>4
  <2> QED BY <2>2, <2>3
<1>9. CASE UpdateUserRow(r)
  <2>1. cat[r].at = "profile" /\ cat'[r] = CatIdle /\ UNCHANGED <<link, enrolled, unsettled>>
    BY <1>9, <1>T, CatEndMoves DEF UpdateUserRow
  <2>2. student'[u] = RowAfter(r, u)
    <3>1. student' = [student EXCEPT ![u] = RowAfter(r, u)]
      BY <1>9, <1>T, <2>1, <1>N, UpdateMoves
    <3> QED BY <3>1, <1>T DEF CatTypeOK
  <2>3. u \notin unsettled => CoursesHeld(u) = FittingCourses(q.to) /\ q.to = student'[u]
    BY <1>3, <1>T, <2>1, <2>2 DEF SettledUser
  <2>4. CoursesHeld(u)' = CoursesHeld(u) /\ (q.to = student'[u] => FittingCourses(student[u])' = FittingCourses(q.to))
    BY <2>1 DEF CoursesHeld, FittingCourses, CoursesOf
  <2> QED BY <1>5, <2>1, <2>3, <2>4
<1> QED BY <1>6, <1>7, <1>8, <1>9

LEMMA EnrolmentStep ==
  ASSUME CatBase, \A u \in Students : SettledUser(u), [CatNext]_catVars
  PROVE  \A u \in Students : SettledUser(u)'
<1> SUFFICES ASSUME NEW u \in Students PROVE SettledUser(u)'
  OBVIOUS
<1>T. CatTypeOK /\ CatFits /\ SettledUser(u)
  BY DEF CatBase
<1>N. NoCourse \notin Students /\ CatIdle.u # u
  BY CatalogueAssumption, CatIdleFits
<1>U. \A s \in CatRequests : cat[s].u = u => cat[s].at \in Updating
  BY <1>T, <1>N DEF CatFits
<1>1. ASSUME UNCHANGED <<retired, link, student>>,
             \A s \in CatRequests : /\ cat'[s].u = u <=> cat[s].u = u
                                    /\ cat[s].u = u => cat'[s] = cat[s],
             u \notin unsettled' => u \notin unsettled /\ CoursesHeld(u)' = CoursesHeld(u)
      PROVE  SettledUser(u)'
  <2>1. FittingCourses(student[u])' = FittingCourses(student[u])
        /\ \A s \in CatRequests : cat[s].u = u => FittingCourses(cat[s].to)' = FittingCourses(cat[s].to)
    BY <1>1 DEF FittingCourses, CoursesOf
  <2> QED BY <1>1, <1>T, <2>1, UserAside
<1>2. ASSUME NEW r \in CatRequests, NEW row \in CourseRow, NEW d \in Departments, NEW l \in Levels,
             CreateCourse(r, row, d, l)
      PROVE  SettledUser(u)'
  <2>1. /\ CatStart(r, "find", row, NoCourse, d, l)
        /\ UNCHANGED <<retired, link, student, enrolled, unsettled>>
        /\ row \in Or0(CourseRow) /\ NoCourse \in Or0(Courses)
    BY <1>2 DEF CreateCourse, Or0
  <2>2. cat[r] = CatIdle /\ cat'[r].u = NoCourse /\ \A s \in CatRequests \ {r} : cat'[s] = cat[s]
    BY <1>T, <2>1, CatStartMoves
  <2> QED BY <1>1, <1>N, <2>1, <2>2 DEF CoursesHeld
<1>3. ASSUME NEW r \in CatRequests, FindSameCourse(r) \/ InsertCourse(r) \/ FindLinkOfLevel(r)
      PROVE  SettledUser(u)'
  <2>1. /\ UNCHANGED <<retired, link, student, enrolled, unsettled>>
        /\ \A s \in CatRequests \ {r} : cat'[s] = cat[s]
        /\ cat[r].at \in Creating /\ (cat'[r].u = cat[r].u \/ cat'[r] = CatIdle)
    BY <1>3, <1>T, CreationMoves DEF Creating
  <2>2. cat[r].u = NoCourse
    BY <1>T, <2>1 DEF CatFits, Creating, Updating
  <2> QED BY <1>1, <1>N, <2>1, <2>2 DEF CoursesHeld
<1>4. ASSUME NEW r \in CatRequests, InsertLinkAndCommit(r) \/ StoreLink(r) PROVE SettledUser(u)'
  <2>1. /\ cat[r].at \in {"commit", "store"} /\ UNCHANGED <<retired, student, enrolled>>
        /\ cat[r].c \in Courses /\ cat[r].d \in Departments
        /\ cat'[r] = CatIdle /\ \A s \in CatRequests \ {r} : cat'[s] = cat[s]
        /\ \/ UNCHANGED <<link, unsettled>>
           \/ /\ link' = [link EXCEPT ![<<cat[r].d, cat[r].c>>] = cat[r].l]
              /\ unsettled' = unsettled \union OfDepartment(cat[r].d)
    BY <1>4, <1>T, CommitMoves, StoreMoves
  <2>2. cat[r].u # u
    BY <1>U, <2>1 DEF Updating
  <2>3. \A s \in CatRequests : (cat'[s].u = u <=> cat[s].u = u) /\ (cat[s].u = u => cat'[s] = cat[s])
    BY <1>N, <2>1, <2>2
  <2>4. CASE UNCHANGED <<link, unsettled>>
    BY <1>1, <2>1, <2>3, <2>4 DEF CoursesHeld
  <2>5. CASE ~UNCHANGED <<link, unsettled>>
    BY <1>T, <2>1, <2>3, <2>5, LinkAside
  <2> QED BY <2>4, <2>5
<1>5. ASSUME NEW r \in CatRequests, NEW c \in Courses, NEW d \in Departments, NEW l \in Levels,
             LinkCourse(r, c, d, l)
      PROVE  SettledUser(u)'
  <2>1. /\ CatStart(r, "store", NoCourse, c, d, l)
        /\ UNCHANGED <<retired, link, student, enrolled, unsettled>>
        /\ NoCourse \in Or0(CourseRow) /\ c \in Or0(Courses)
    BY <1>5 DEF LinkCourse, Or0
  <2>2. cat[r] = CatIdle /\ cat'[r].u = NoCourse /\ \A s \in CatRequests \ {r} : cat'[s] = cat[s]
    BY <1>T, <2>1, CatStartMoves
  <2> QED BY <1>1, <1>N, <2>1, <2>2 DEF CoursesHeld
<1>6. ASSUME NEW r \in CatRequests, NEW v \in Students, NEW d \in Or0(Departments), NEW l \in Or0(Levels),
             UpdateUser(r, v, d, l)
      PROVE  SettledUser(u)'
  <2>1. /\ UNCHANGED <<retired, link, student, enrolled>>
        /\ unsettled' = IF Updates(v) # {} THEN unsettled \union {v} ELSE unsettled
        /\ cat[r] = CatIdle /\ cat'[r].u = v /\ cat'[r].to = RowAfter(r, v)'
        /\ cat'[r].at = IF cat'[r].to # student[v] THEN "clear" ELSE "profile"
        /\ cat'[r].alone = (cat'[r].to # student[v] /\ Updates(v) = {})
        /\ \A s \in CatRequests \ {r} :
             /\ cat[s].u # v => cat'[s] = cat[s]
             /\ cat[s].u = v => ~cat'[s].alone
             /\ cat'[s].u = cat[s].u
    BY <1>6, <1>T, UpdateUserMoves
  <2>2. CASE u # v
    BY <1>1, <1>N, <2>1, <2>2 DEF CoursesHeld
  <2>3. CASE u = v /\ Updates(u) # {}
    <3>1. u \in unsettled'
      BY <2>1, <2>3
    <3>2. ~cat'[r].alone
      BY <2>1, <2>3
    <3>3. \A s \in CatRequests : cat'[s].u = u => ~cat'[s].alone
      BY <2>1, <2>3, <3>2
    <3> QED BY <3>1, <3>3 DEF SettledUser
  <2>4. CASE u = v /\ Updates(u) = {}
    <3>1. Updates(u)' = {r} /\ \A s \in CatRequests : cat'[s].u = u => s = r
      BY <2>1, <2>4 DEF Updates
    <3>2. cat'[r].at \in {"clear", "profile"} /\ (cat'[r].at = "profile" => cat'[r].to = student[u])
      BY <2>1, <2>4
    <3>3. u \notin unsettled' => CoursesHeld(u)' = FittingCourses(student[u])
      BY <1>T, <2>1, <2>4 DEF SettledUser, CoursesHeld
    <3>4. cat'[r].to = student[u] => FittingCourses(cat[r].to)' = FittingCourses(student[u])
      BY <2>1 DEF FittingCourses, CoursesOf
    <3> QED BY <2>1, <2>4, <3>1, <3>2, <3>3, <3>4 DEF SettledUser
  <2> QED BY <2>2, <2>3, <2>4
<1>7. ASSUME NEW r \in CatRequests,
             \/ DeleteAllUserCourses(r) \/ FindCoursesByDepartmentAndLevel(r)
             \/ CreateUserCourses(r) \/ UpdateUserRow(r)
      PROVE  SettledUser(u)'
  <2>1. /\ UNCHANGED <<retired, link>> /\ cat[r].u \in Students
        /\ \A s \in CatRequests \ {r} : cat'[s] = cat[s]
        /\ cat'[r].u = cat[r].u \/ cat'[r] = CatIdle
    BY <1>7, <1>T, UpdateMoves
  <2>2. CASE u = cat[r].u
    BY <1>7, <2>2, OwnUpdate
  <2>3. CASE u # cat[r].u
    <3>1. student'[u] = student[u]
      BY <1>7, <1>T, <2>1, <2>3, UpdateMoves DEF CatTypeOK
    <3>2. CoursesHeld(u)' = CoursesHeld(u)
      BY <1>7, <1>T, <2>1, <2>3, UpdateMoves DEF CoursesHeld
    <3>3. u \in unsettled' <=> u \in unsettled
      BY <1>7, <1>T, <2>3, UpdateMoves
    <3>4. \A s \in CatRequests : (cat'[s].u = u <=> cat[s].u = u) /\ (cat[s].u = u => cat'[s] = cat[s])
      BY <1>N, <2>1, <2>3
    <3>5. FittingCourses(student[u])' = FittingCourses(student[u])
          /\ \A s \in CatRequests : cat[s].u = u => FittingCourses(cat[s].to)' = FittingCourses(cat[s].to)
      BY <2>1, <3>1, <3>4 DEF FittingCourses, CoursesOf
    <3> QED BY <1>T, <2>1, <3>1, <3>2, <3>3, <3>4, <3>5, UserAside
  <2> QED BY <2>2, <2>3
<1>8. ASSUME NEW r \in CatRequests, CatAbort(r) PROVE SettledUser(u)'
  <2>1. /\ CatEnd(r) /\ UNCHANGED <<course, retired, link, student, enrolled, twins>>
        /\ unsettled' = IF cat[r].u = NoCourse THEN unsettled ELSE unsettled \union {cat[r].u}
    BY <1>8 DEF CatAbort
  <2>2. cat'[r] = CatIdle /\ \A s \in CatRequests \ {r} : cat'[s] = cat[s]
    BY <1>T, <2>1, CatEndMoves
  <2>3. CASE cat[r].u # u
    BY <1>1, <1>N, <2>1, <2>2, <2>3 DEF CoursesHeld
  <2>4. CASE cat[r].u = u
    <3>1. u \in unsettled'
      BY <1>N, <2>1, <2>4
    <3>2. \A s \in CatRequests \ {r} : cat[s].u = u => ~cat[s].alone
      BY <1>T, <2>4 DEF SettledUser, Updates
    <3> QED BY <1>N, <2>2, <3>1, <3>2 DEF SettledUser
  <2> QED BY <2>3, <2>4
<1>9. ASSUME NEW c \in Courses, DeleteCourse(c) PROVE SettledUser(u)'
  <2>1. /\ retired' = retired \union {c}
        /\ link' = [p \in Departments \X Courses |-> IF p[2] = c THEN NoCourse ELSE link[p]]
        /\ enrolled' = {e \in enrolled : e[2] # c}
        /\ UNCHANGED <<student, cat, unsettled>>
    BY <1>9 DEF DeleteCourse
  <2>2. CoursesHeld(u)' = CoursesHeld(u) \ {c}
    BY <2>1 DEF CoursesHeld
  <2>3. \A e \in Departments, m \in Levels, x \in Courses : link'[<<e, x>>] = m <=> link[<<e, x>>] = m /\ x # c
    BY <2>1, CatalogueAssumption
  <2>4. FittingCourses(student[u])' = FittingCourses(student[u]) \ {c}
    <3>1. student' = student /\ student[u].department \in Departments /\ student[u].level \in Levels
      BY <1>T, <2>1 DEF CatTypeOK, Profile
    <3> QED BY <2>3, <3>1 DEF FittingCourses, CoursesOf
  <2>5. \A s \in CatRequests : cat[s].u = u => FittingCourses(cat[s].to)' = FittingCourses(cat[s].to) \ {c}
    <3> SUFFICES ASSUME NEW s \in CatRequests, cat[s].u = u
                 PROVE  FittingCourses(cat[s].to)' = FittingCourses(cat[s].to) \ {c}
      OBVIOUS
    <3>1. cat' = cat /\ cat[s].to \in Profile
      BY <1>T, <1>U, <2>1 DEF CatFits
    <3>2. cat[s].to.department \in Departments /\ cat[s].to.level \in Levels
      BY <3>1 DEF Profile
    <3> QED BY <2>3, <3>1, <3>2 DEF FittingCourses, CoursesOf
  <2>6. \A s \in CatRequests : cat[s].fetched \ retired' = (cat[s].fetched \ retired) \ {c}
    BY <2>1
  <2>7. Updates(u)' = Updates(u) /\ \A s \in CatRequests : RowAfter(s, u)' = RowAfter(s, u)
    BY <2>1 DEF Updates, RowAfter
  <2> QED BY <1>T, <2>1, <2>2, <2>4, <2>5, <2>6, <2>7 DEF SettledUser
<1>10. ASSUME NEW c \in Courses, NEW row \in CourseRow, UpdateCourse(c, row) PROVE SettledUser(u)'
  BY <1>1, <1>10 DEF UpdateCourse, CoursesHeld
<1>11. ASSUME NEW c \in Courses, NEW d \in Departments, DeleteLink(d, c) PROVE SettledUser(u)'
  BY <1>11, <1>T, LinkAside DEF DeleteLink
<1>12. ASSUME NEW c \in Courses, NEW v \in Students, AddCourse(v, c) \/ RemoveCourse(v, c)
       PROVE  SettledUser(u)'
  <2>1. UNCHANGED <<retired, link, student, cat>> /\ unsettled' = unsettled \union {v}
    BY <1>12 DEF AddCourse, RemoveCourse
  <2>2. u # v => CoursesHeld(u)' = CoursesHeld(u)
    BY <1>12 DEF AddCourse, RemoveCourse, CoursesHeld
  <2> QED BY <1>1, <2>1, <2>2
<1>13. CASE UNCHANGED catVars
  BY <1>1, <1>13 DEF catVars, CoursesHeld
<1> QED BY <1>2, <1>3, <1>4, <1>5, <1>6, <1>7, <1>8, <1>9, <1>10, <1>11, <1>12, <1>13 DEF CatNext

\* A settled user of whom nothing is under way is enrolled in the courses of the row's
\* department and level, no more and no less.
THEOREM EnrolmentFitsRowHolds == CatSpec => []EnrolmentFitsRow
<1> DEFINE Inv == CatBase /\ \A u \in Students : SettledUser(u)
<1>1. CatInit => Inv
  <2> SUFFICES ASSUME CatInit, NEW u \in Students PROVE SettledUser(u)
    BY CatBaseInit
  <2>1. CatTypeOK
    BY CatBaseInit DEF CatBase
  <2>2. \A r \in CatRequests : cat[r].u # u
    BY CatalogueAssumption, CatIdleFits DEF CatInit
  <2>3. student[u].department \in Departments /\ student[u].level \in Levels /\ NoCourse # student[u].level
    BY <2>1, CatalogueAssumption DEF CatTypeOK, Profile
  <2>4. CoursesHeld(u) = {} /\ FittingCourses(student[u]) = {}
    BY <2>3 DEF CatInit, CoursesHeld, FittingCourses, CoursesOf
  <2> QED BY <2>2, <2>4 DEF SettledUser
<1>2. Inv /\ [CatNext]_catVars => Inv'
  BY CatBaseStep, EnrolmentStep
<1>3. Inv => EnrolmentFitsRow
  BY DEF SettledUser, EnrolmentFitsRow, CoursesHeld, FittingCourses
<1> QED BY <1>1, <1>2, <1>3, PTL DEF CatSpec

-----------------------------------------------------------------------------
(***************************************************************************)
(* The parts together: the one that acts keeps its types.                  *)
(***************************************************************************)

CatalogueBase ==
  /\ part \in {"catalogue", "review", "mail"}
  /\ CatBase /\ RevBase /\ MailTypeOK

\* Whatever part acts, its state is well typed: the specification TLC checks, for all
\* values of its constants.
THEOREM CatalogueTypeCorrect == CatalogueSpec => []CatalogueTypeOK
<1>1. CatalogueInit => CatalogueBase
  BY CatBaseInit, RevBaseInit, MailTypeInit DEF CatalogueInit, CatalogueBase
<1>2. CatalogueBase /\ [CatalogueNext]_<<part, catVars, reviewVars, mailVars>> => CatalogueBase'
  <2> SUFFICES ASSUME CatalogueBase, [CatalogueNext]_<<part, catVars, reviewVars, mailVars>>
               PROVE  CatalogueBase'
    OBVIOUS
  <2>1. part' = part /\ [CatNext]_catVars /\ [ReviewNext]_reviewVars /\ [MailNext]_mailVars
    BY DEF CatalogueNext
  <2> QED BY <2>1, CatBaseStep, RevBaseStep, MailTypeStep DEF CatalogueBase
<1>3. CatalogueBase => CatalogueTypeOK
  BY DEF CatalogueBase, CatalogueTypeOK, CatBase, RevBase
<1> QED BY <1>1, <1>2, <1>3, PTL DEF CatalogueSpec

=============================================================================
