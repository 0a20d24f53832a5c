---------------------------- MODULE CardStation -----------------------------
(***************************************************************************)
(* The card stations of the race (Card/main.cpp, pcsc.cpp, clientWebS.cpp):*)
(* programs that wait for a card on their reader, ask the card for its     *)
(* serial number, ask the operator what to do with it and write a row in   *)
(* the shared database.                                                    *)
(*                                                                         *)
(* A station is a process with a program counter; cards are placed on and  *)
(* taken from the readers between any two of its steps, and several        *)
(* stations interleave on the database, statement by statement.            *)
(***************************************************************************)
EXTENDS RaceDatabase, CardId

CONSTANTS
  Stations,
  None,             (* the card on a reader that has none                  *)
  Choices,          (* values of option; 0 stands for all but 1, 2 and 3   *)
  Words,            (* whether the operator may type what is no number     *)
  MaxPassages       (* bound on the rows of passage                        *)

ASSUME NoneAssumption ==
  /\ None \notin Uids /\ None # NoUid
  /\ None \notin Participants
ASSUME ChoicesAssumption == Choices \subseteq 0 .. 3 /\ Choices # {}
ASSUME WordsAssumption == Words \in BOOLEAN
ASSUME BoundAssumption == MaxPassages \in Nat

VARIABLES
  reader,    (* reader[s]: the card on the reader of station s, or None    *)
  live,      (* live[s]: m_hCard is a connection to the card now on reader *)
  pc,        (* where main is                                              *)
  buf,       (* baResponseApdu: the serial number it starts with, or NoUid *)
  option,    (* the operator's choice                                      *)
  jammed,    (* stdin starts with a word that scanf("%d") cannot read      *)
  id,        (* the PART_ID that saveCardID found, None outside of it      *)
  carte, passage,
  (* History, read by no guard: *)
  got,       (* got[s]: serial number answered in this pass of main's loop *)
  answers,   (* answers[s]: exchanges the process had with this placement  *)
  boundBy,   (* boundBy[k]: serial number answered in the pass of the loop *)
             (* that inserted row k of carte, None if there was none       *)
  lapOf      (* lapOf[i]: what row i of passage came from                  *)

local  == <<buf, option, jammed, id, got, answers>>
tables == <<carte, passage, boundBy, lapOf>>
vars == <<reader, live, pc, local, tables>>

-----------------------------------------------------------------------------
(***************************************************************************)
(* main's loop ends when the option is 3, whoever set it: option is not    *)
(* initialised, and keeps its value while scanf fails or is not reached.   *)
(***************************************************************************)
AfterBody(opt) == IF opt = 3 THEN "disconnect" ELSE "wait"

Goto(s, label) == pc' = [pc EXCEPT ![s] = label]

\* The end of main's loop body.
Iterate(s) ==
  /\ Goto(s, AfterBody(option[s]))
  /\ got' = [got EXCEPT ![s] = None]

\* The locals that nothing reads until the process is started again.
Forget(s) ==
  /\ buf' = [buf EXCEPT ![s] = NoUid]
  /\ option' = [option EXCEPT ![s] = 0]
  /\ jammed' = [jammed EXCEPT ![s] = FALSE]
  /\ id' = [id EXCEPT ![s] = None]
  /\ got' = [got EXCEPT ![s] = None]
  /\ answers' = [answers EXCEPT ![s] = 0]
  /\ UNCHANGED tables

\* PCSC_EXIT_ON_ERROR: the program spins until a key is pressed, with its
\* connection to the card.
ExitOnError(s) ==
  /\ Goto(s, "key")
  /\ Forget(s)
  /\ UNCHANGED live

\* The process ends; the resource manager closes its connection.
Exit(s) ==
  /\ Goto(s, "exited")
  /\ live' = [live EXCEPT ![s] = FALSE]
  /\ Forget(s)

PCSC_Connect(s) ==
  /\ pc[s] = "connect"
  /\ \/ Goto(s, "wait") /\ UNCHANGED <<live, local, tables>>
     \/ ExitOnError(s)
  /\ UNCHANGED reader

\* The call returns when a card is present, or with an error or a timeout.
PCSC_WaitForCardPresent(s) ==
  /\ pc[s] = "wait"
  /\ \/ reader[s] # None /\ Goto(s, "activate")
     \/ Goto(s, "again")
  /\ UNCHANGED <<reader, live, local, tables>>

\* while (lRetValue != 0): main repeats the call whatever the error was.
WaitAgain(s) ==
  /\ pc[s] = "again"
  /\ Goto(s, "wait")
  /\ UNCHANGED <<reader, live, local, tables>>

\* A connection is made, though its protocol may be one that main refuses.
Connected(s) ==
  /\ reader[s] # None
  /\ live' = [live EXCEPT ![s] = TRUE]
  /\ \/ Goto(s, "atr") /\ UNCHANGED <<local, tables>>
     \/ Goto(s, "key") /\ Forget(s)

\* Mutant: SCARD_SHARE_SHARED.
SharedActivateCard(s) ==
  /\ pc[s] = "activate"
  /\ Connected(s) \/ ExitOnError(s)
  /\ UNCHANGED reader

\* Mutant: a refused connection is tried again.
RetryActivateCard(s) ==
  /\ pc[s] = "activate"
  /\ \/ ~live[s] /\ Connected(s)
     \/ Goto(s, "wait") /\ UNCHANGED <<live, local, tables>>
  /\ UNCHANGED reader

\* SCARD_SHARE_EXCLUSIVE: a connection that is still live refuses a second.
PCSC_ActivateCard(s) ==
  /\ pc[s] = "activate"
  /\ \/ ~live[s] /\ Connected(s)
     \/ ExitOnError(s)
  /\ UNCHANGED reader

PCSC_GetAtrString(s) ==
  /\ pc[s] = "atr"
  /\ \/ live[s] /\ Goto(s, "exchange") /\ UNCHANGED <<live, local, tables>>
     \/ ExitOnError(s)
  /\ UNCHANGED reader

-----------------------------------------------------------------------------
(***************************************************************************)
(* PCSC_Exchange.  main does not keep its result, so a failed exchange is  *)
(* followed by the test of the status word in what the buffer held before. *)
(***************************************************************************)

\* Mutant: the answer does not reach the buffer that is saved.
LostAnswered(s) ==
  /\ live[s]
  /\ got' = [got EXCEPT ![s] = reader[s]]
  /\ Goto(s, "prompt")
  /\ UNCHANGED buf

Answered(s) ==
  /\ live[s]
  /\ buf' = [buf EXCEPT ![s] = reader[s]]
  /\ got' = [got EXCEPT ![s] = reader[s]]
  /\ Goto(s, "prompt")

BadStatus(s) ==
  /\ live[s]
  /\ buf' = [buf EXCEPT ![s] = NoUid]
  /\ Iterate(s)

Failed(s) ==
  /\ \/ Goto(s, "prompt") /\ UNCHANGED got
     \/ Iterate(s)
  /\ UNCHANGED buf

PCSC_Exchange(s) ==
  /\ pc[s] = "exchange"
  /\ Answered(s) \/ BadStatus(s) \/ Failed(s)
  /\ answers' = IF live[s] THEN [answers EXCEPT ![s] = @ + 1] ELSE answers
  /\ UNCHANGED <<reader, live, option, jammed, id, tables>>

-----------------------------------------------------------------------------
(***************************************************************************)
(* The operator.  A word that is not a number leaves option as it was and  *)
(* stays in stdin, where every later scanf("%d") meets it again.           *)
(***************************************************************************)
TypesNumber(s, opt) ==
  /\ ~jammed[s]
  /\ option' = [option EXCEPT ![s] = opt]
  /\ Goto(s, "dispatch")
  /\ UNCHANGED jammed

TypesWord(s) ==
  /\ Words
  /\ jammed' = [jammed EXCEPT ![s] = TRUE]
  /\ Goto(s, "dispatch")
  /\ UNCHANGED option

Prompt(s) ==
  /\ pc[s] = "prompt"
  /\ \/ \E opt \in Choices : TypesNumber(s, opt)
     \/ TypesWord(s)
  /\ UNCHANGED <<reader, live, buf, id, got, answers, tables>>

Dispatch(s) ==
  /\ pc[s] = "dispatch"
  /\ \/ option[s] = 1 /\ Goto(s, "student") /\ UNCHANGED got
     \/ option[s] = 2 /\ Goto(s, "insertLap") /\ UNCHANGED got
     \/ option[s] \notin {1, 2} /\ Iterate(s)
  /\ UNCHANGED <<reader, live, buf, option, jammed, id, answers, tables>>

-----------------------------------------------------------------------------
(***************************************************************************)
(* saveCardID and saveLapDateTime.  They ignore what the statements return *)
(* and build them in memory they do not own: a statement may be lost, with *)
(* the connection or in the server, and the program may fault (Crash).     *)
(***************************************************************************)

\* scanf("%s") takes the word in stdin; then the connection and the SELECT.
Student(s) ==
  /\ pc[s] = "student"
  /\ jammed' = [jammed EXCEPT ![s] = FALSE]
  /\ \/ /\ \E part \in Participants : id' = [id EXCEPT ![s] = part]
        /\ Goto(s, "insertCard")
        /\ UNCHANGED got
     \/ Iterate(s) /\ UNCHANGED id
  /\ UNCHANGED <<reader, live, buf, option, answers, tables>>

InsertCard(s) ==
  LET key == CardKey[buf[s]] IN
  /\ pc[s] = "insertCard"
  /\ \/ /\ CarteAccepts(carte, key, id[s])
        /\ carte' = With(carte, key, id[s])
        /\ boundBy' = With(boundBy, key, got[s])
     \/ UNCHANGED <<carte, boundBy>>
  /\ id' = [id EXCEPT ![s] = None]
  /\ Iterate(s)
  /\ UNCHANGED <<reader, live, buf, option, jammed, answers, passage, lapOf>>

InsertLap(s) ==
  LET key == CardKey[buf[s]] IN
  /\ pc[s] = "insertLap"
  /\ \/ /\ PassageAccepts(carte, key)
        /\ Len(passage) < MaxPassages
        /\ passage' = Append(passage, key)
        /\ lapOf' = Append(lapOf, [got |-> got[s], chosen |-> ~jammed[s]])
     \/ UNCHANGED <<passage, lapOf>>
  /\ Iterate(s)
  /\ UNCHANGED <<reader, live, buf, option, jammed, id, answers, carte, boundBy>>

-----------------------------------------------------------------------------
\* The result is ignored: the connection may be left to the end of the
\* process, which comes with the getchar of main.
PCSC_Disconnect(s) ==
  /\ pc[s] = "disconnect"
  /\ Goto(s, "key")
  /\ Forget(s)
  /\ live' = [live EXCEPT ![s] = FALSE] \/ UNCHANGED live
  /\ UNCHANGED reader

\* A key ends the spin on _kbhit, or the getchar.
KeyPressed(s) ==
  /\ pc[s] = "key"
  /\ Exit(s)
  /\ UNCHANGED reader

\* A fault in the string building, or the machine is switched off.
Crash(s) ==
  /\ pc[s] # "exited"
  /\ Exit(s)
  /\ UNCHANGED reader

\* The new process does not initialise option.
Restart(s) ==
  /\ pc[s] = "exited"
  /\ Goto(s, "connect")
  /\ \E opt \in Choices : option' = [option EXCEPT ![s] = opt]
  /\ UNCHANGED <<reader, live, buf, jammed, id, got, answers, tables>>

PlaceCard(s, u) ==
  /\ reader[s] = None
  /\ \A t \in Stations : reader[t] # u
  /\ reader' = [reader EXCEPT ![s] = u]
  /\ UNCHANGED <<live, pc, local, tables>>

RemoveCard(s) ==
  /\ reader[s] # None
  /\ reader' = [reader EXCEPT ![s] = None]
  /\ live' = [live EXCEPT ![s] = FALSE]
  /\ answers' = [answers EXCEPT ![s] = 0]
  /\ UNCHANGED <<pc, buf, option, jammed, id, got, tables>>

-----------------------------------------------------------------------------
Init ==
  /\ reader = [s \in Stations |-> None]
  /\ live = [s \in Stations |-> FALSE]
  /\ pc = [s \in Stations |-> "exited"]
  /\ buf = [s \in Stations |-> NoUid]
  /\ option = [s \in Stations |-> 0]
  /\ jammed = [s \in Stations |-> FALSE]
  /\ id = [s \in Stations |-> None]
  /\ carte = <<>>
  /\ passage = <<>>
  /\ got = [s \in Stations |-> None]
  /\ answers = [s \in Stations |-> 0]
  /\ boundBy = <<>>
  /\ lapOf = <<>>

Card(s) ==
  \/ PCSC_WaitForCardPresent(s)
  \/ WaitAgain(s)
  \/ PCSC_ActivateCard(s)
  \/ PCSC_GetAtrString(s)
  \/ PCSC_Exchange(s)

Next ==
  \E s \in Stations :
    \/ PCSC_Connect(s)
    \/ Card(s)
    \/ Prompt(s)
    \/ Dispatch(s)
    \/ Student(s)
    \/ InsertCard(s)
    \/ InsertLap(s)
    \/ PCSC_Disconnect(s)
    \/ KeyPressed(s)
    \/ Crash(s)
    \/ Restart(s)
    \/ \E u \in Uids : PlaceCard(s, u)
    \/ RemoveCard(s)

Spec == Init /\ [][Next]_vars

\* The calls to the reader return, with or without an error; nobody has to
\* type, place or restart.
Fairness == \A s \in Stations : WF_vars(Card(s)) /\ WF_vars(PCSC_Disconnect(s))

FairSpec == Spec /\ Fairness

-----------------------------------------------------------------------------
Labels == {"connect", "wait", "again", "activate", "atr", "exchange", "prompt",
           "dispatch", "student", "insertCard", "insertLap", "disconnect", "key",
           "exited"}

\* The types, with what relates the tables to their histories.
TypeOK ==
  /\ reader \in [Stations -> Uids \cup {None}]
  /\ live \in [Stations -> BOOLEAN]
  /\ pc \in [Stations -> Labels]
  /\ buf \in [Stations -> Uids \cup {NoUid}]
  /\ option \in [Stations -> 0 .. 3]
  /\ jammed \in [Stations -> BOOLEAN]
  /\ id \in [Stations -> Participants \cup {None}]
  /\ IsCarte(carte, Keys)
  /\ passage \in Seq(Keys)
  /\ got \in [Stations -> Uids \cup {None}]
  /\ answers \in [Stations -> Nat]
  /\ boundBy \in [DOMAIN carte -> Uids \cup {None}]
  /\ lapOf \in Seq([got : Uids \cup {None}, chosen : BOOLEAN])

(***************************************************************************)
(* A passage recorded while a card answers is never counted for a runner   *)
(* to whom a card that answered otherwise was given, whichever station     *)
(* gave it and whatever was on the readers meanwhile: if both passes of    *)
(* main's loop had an answer (main.cpp:57), the two serial numbers are     *)
(* alike for C and MySQL.  That is all the tables know: cards that differ  *)
(* after a zero byte or in a letter's case are one card (main.cpp:76,      *)
(* rdf.sql:112), and nothing is said of a card that was given without an   *)
(* answer, from a buffer that an earlier card had left.                    *)
(***************************************************************************)
LapCreditsCardRead ==
  \A i \in 1 .. Len(passage) :
    /\ passage[i] \in DOMAIN carte
    /\ boundBy[passage[i]] # None /\ lapOf[i].got # None
         => Alike(boundBy[passage[i]], lapOf[i].got)

(***************************************************************************)
(* A card left on the reader is interrogated once: main's loop does not    *)
(* wait for its removal, but the connection it keeps is exclusive          *)
(* (pcsc.cpp:204), so one placement cannot give a runner two passages      *)
(* unless the program is started again.                                    *)
(***************************************************************************)
OneAnswerPerPlacement == \A s \in Stations : answers[s] <= 1

(***************************************************************************)
(* Why the two hold: the invariant that every step preserves.              *)
(***************************************************************************)

\* A connection is to the card that is still on the reader.
LinkNeedsCard == \A s \in Stations : live[s] => reader[s] # None

\* An answer was given over a connection that is still there, and a station
\* on its way to an exchange has had none.
AnswersNeedLink ==
  \A s \in Stations :
    /\ answers[s] \in {0, 1}
    /\ answers[s] = 1 => live[s] /\ pc[s] \notin {"atr", "exchange"}

\* After an answer the buffer holds that answer.
BufferIsAnswer == \A s \in Stations : got[s] # None => buf[s] = got[s]

\* A row of carte inserted in a pass with an answer has its card id.
CarteIsBound ==
  \A k \in DOMAIN carte : boundBy[k] # None => CardKey[boundBy[k]] = k

\* A row of passage is of a card in carte: of the card that was read, when
\* one was.
LapsAreOfCards ==
  /\ Len(lapOf) = Len(passage)
  /\ \A i \in 1 .. Len(passage) :
       /\ passage[i] \in DOMAIN carte
       /\ lapOf[i].got # None => passage[i] = CardKey[lapOf[i].got]

StationInv ==
  /\ TypeOK
  /\ LinkNeedsCard
  /\ AnswersNeedLink
  /\ BufferIsAnswer
  /\ CarteIsBound
  /\ LapsAreOfCards

(***************************************************************************)
(* No later step of any station changes whom a recorded passage is counted *)
(* for: cards are never given again and passages never lost.               *)
(***************************************************************************)
Credit(i) == carte[passage[i]]

CreditIsPermanent ==
  [][/\ Len(passage') >= Len(passage)
     /\ \A i \in 1 .. Len(passage) : Credit(i)' = Credit(i)]_vars

(***************************************************************************)
(* A card placed while the station waits is answered for, is taken away or *)
(* stops the program, unless the status call fails again and again: main   *)
(* repeats it for ever on an error that lasts (main.cpp:46-48).  No other  *)
(* failing call holds the loop; that of a card still connected ends it.    *)
(***************************************************************************)
PlacementResolves ==
  \A s \in Stations, u \in Uids :
    pc[s] = "wait" /\ reader[s] = u
      ~> \/ pc[s] \in {"prompt", "key", "exited"}
         \/ reader[s] # u
         \/ []<>(pc[s] = "again")

(***************************************************************************)
(* What main's comments and messages say, and its code does not do.        *)
(***************************************************************************)

\* main.cpp:65, "Retrieve the card serical number (UID) form the response
\* APDU": a passage is recorded only in a pass of the loop in which the card
\* on the reader answered.
LapFollowsAnswer ==
  \A i \in 1 .. Len(lapOf) : lapOf[i].got # None

\* main.cpp:69, "Choose option : (1) Save card ID, (2) Save lap, (3) quit":
\* a passage is recorded only when the operator has chosen (2) for it.
LapIsChosen ==
  \A i \in 1 .. Len(lapOf) : lapOf[i].chosen

-----------------------------------------------------------------------------
(***************************************************************************)
(* The stations implement the ledger: the card id shown is the one that a  *)
(* statement would be built from, from the prompt to the statement.        *)
(***************************************************************************)
Showing == {"prompt", "dispatch", "student", "insertCard", "insertLap"}

Shown == [s \in Stations |->
            IF pc[s] \in Showing THEN <<CardKey[buf[s]]>> ELSE <<>>]

Ledger == INSTANCE RaceLedger WITH shown <- Shown, CardIds <- Keys

ImplementsLedger == Ledger!RaceSpec
=============================================================================
