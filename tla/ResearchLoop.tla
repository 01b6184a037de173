---------------------------- MODULE ResearchLoop ----------------------------
(***************************************************************************)
(* The research loop over the directory of experiments of one world:       *)
(* run_batch (tools/loop/orchestrator.py), the commands new and finalize   *)
(* (tools/exp/cli.py), and the journals with their command update          *)
(* (tools/journal/update.py).                                              *)
(*                                                                         *)
(* Each process is a batch or a user at the command line.  They share the  *)
(* directories of the runs and the pages INDEX.md and WORLD_JOURNAL.md,    *)
(* with no lock.  A file is rewritten in two steps: open, which empties    *)
(* it, and a write that starts at its first byte, whatever another process *)
(* has put there meanwhile.  A page is a sequence of lines of one width; a *)
(* file of a run is there or not.  A process may be killed at any step.    *)
(* The runs of a day and slug have consecutive numbers.  What the tools    *)
(* derive and judge is external.                                           *)
(***************************************************************************)
EXTENDS Integers, Sequences, FiniteSets

CONSTANTS
  Procs,    \* the processes
  Batches,  \* those that are a batch; the others are users
  NoOwner,  \* no process
  MaxRun,   \* bound on the number of a run
  MaxTurns  \* the runs of a batch, and the bound on the commands of a user

RunIds == 1..MaxRun
NoRun == 0
ASSUME ResearchAssumption ==
  Batches \subseteq Procs /\ NoOwner \notin Procs /\ MaxRun \in Nat /\ MaxTurns \in [Procs -> Nat]

Pages  == <<"index", "journal">>
Files  == {"bundle", "metadata", "logs", "derived", "metrics", "judge", "report"}

VARIABLES
  made,     \* the run directories there are
  files,    \* the files in each, as far as they are complete
  owner,    \* whose derived.sqlite, complete or not, is in each
  page,     \* the lines of each page
  doing,    \* where each process is: see Steps
  dir,      \* the run it works on
  turn,     \* the runs or commands it has done
  pageNo,   \* the page it is at
  text,     \* what it has read of that page
  verdict,  \* succeeded of its last run or command; TRUE of the one in hand
  clashed,  \* two processes were at the pages at once, or one was killed in a rewrite
  overlaid, \* a page was opened for writing by two processes at once
  spoilt    \* the runs of which a file was lost by a process that stopped, or that
            \* were listed without being finalized

disk  == <<made, files, owner, page>>
marks == <<clashed, overlaid, spoilt>>
researchVars == <<disk, doing, dir, turn, pageNo, text, verdict, marks>>

(* finalize makes the derived database, removing the old one first, and    *)
(* rewrites three texts, in this order.                                    *)
Texts == {"metrics", "judge", "report"}
Made  == {"derived"} \cup Texts
Put   == [metrics |-> "put_metrics", judge |-> "put_judge", report |-> "put_report"]
Tools == {"remove", "create", "fill"} \cup Texts \cup {Put[f] : f \in Texts}
AtPages == {"look", "head", "heading", "read", "open", "write"}
Building == {"copy", "metadata", "engine"}
Finalizing == Tools \cup AtPages
Steps == {"idle", "mkdir", "finalize", "update", "aborted", "killed"} \cup Building \cup Finalizing

(* A line of a page is its header or the row of a run.                     *)
Header == 0
PageLines == RunIds \cup {Header}

(* Every variable has its type, an idle process has no run in hand, and    *)
(* nothing is put where no run directory is.                               *)
ResearchTypeOK ==
  /\ made \subseteq RunIds /\ files \in [RunIds -> SUBSET Files]
  /\ owner \in [RunIds -> Procs \cup {NoOwner}]
  /\ page \in [1..Len(Pages) -> [there : BOOLEAN, lines : Seq(PageLines)]]
  /\ doing \in [Procs -> Steps] /\ dir \in [Procs -> RunIds \cup {NoRun}]
  /\ turn \in [Procs -> Nat] /\ \A p \in Procs : turn[p] <= MaxTurns[p]
  /\ pageNo \in [Procs -> 1..Len(Pages)]
  /\ text \in [Procs -> Seq(PageLines)] /\ verdict \in [Procs -> BOOLEAN]
  /\ {clashed, overlaid} \subseteq BOOLEAN /\ spoilt \subseteq RunIds
  /\ \A p \in Procs :
       /\ doing[p] = "idle" => dir[p] = NoRun
       /\ doing[p] \in Building \cup Finalizing => dir[p] \in made

ResearchInit ==
  /\ made = {} /\ files = [r \in RunIds |-> {}] /\ owner = [r \in RunIds |-> NoOwner]
  /\ page = [i \in 1..Len(Pages) |-> [there |-> FALSE, lines |-> << >>]]
  /\ doing = [p \in Procs |-> "idle"] /\ dir = [p \in Procs |-> NoRun]
  /\ turn = [p \in Procs |-> 0] /\ pageNo = [p \in Procs |-> 1]
  /\ text = [p \in Procs |-> << >>] /\ verdict = [p \in Procs |-> TRUE]
  /\ clashed = FALSE /\ overlaid = FALSE /\ spoilt = {}

Go(p, step) == doing' = [doing EXCEPT ![p] = step]
Place == <<dir, turn, pageNo, text, verdict>>
Stay == <<Place, marks>>

(* A run or command is begun, and done.                                    *)
Begin(p) ==
  /\ verdict' = [verdict EXCEPT ![p] = TRUE]
  /\ UNCHANGED <<disk, turn, pageNo, text, marks>>
Conclude(p, well) ==
  /\ Go(p, "idle") /\ dir' = [dir EXCEPT ![p] = NoRun]
  /\ turn' = [turn EXCEPT ![p] = @ + 1] /\ verdict' = [verdict EXCEPT ![p] = well]
  /\ pageNo' = [pageNo EXCEPT ![p] = 1] /\ text' = [text EXCEPT ![p] = << >>]

-----------------------------------------------------------------------------
(* _next_run_id: the first number that is not taken.                       *)
NextRunId(r) == r \notin made /\ 1..r-1 \subseteq made

(* run_batch, for each of its runs, and cmd_new.                           *)
Pick(p) ==
  /\ doing[p] = "idle" /\ turn[p] < MaxTurns[p] /\ Go(p, "mkdir")
  /\ \E r \in RunIds : NextRunId(r) /\ dir' = [dir EXCEPT ![p] = r]
  /\ Begin(p)

(* mkdir raises when another has made the directory since it was picked.   *)
MakeDir(p) ==
  /\ doing[p] = "mkdir"
  /\ IF dir[p] \in made THEN Go(p, "aborted") ELSE Go(p, "copy")
  /\ made' = made \cup {dir[p]}
  /\ UNCHANGED <<files, owner, page, Stay>>

(* The bundle is copied, and the tunings of a batch appended to its rules; *)
(* then the metadata.  A copy that fails ends the batch, or the command.   *)
AddFile(p, f) == files' = [files EXCEPT ![dir[p]] = @ \cup {f}]
Copy(p) ==
  /\ doing[p] = "copy"
  /\ \/ Go(p, "metadata") /\ AddFile(p, "bundle")
     \/ Go(p, "aborted") /\ files' = files
  /\ UNCHANGED <<made, owner, page, Stay>>
WriteMetadata(p) ==
  /\ doing[p] = "metadata" /\ AddFile(p, "metadata")
  /\ IF p \in Batches THEN Go(p, "engine") /\ UNCHANGED Place ELSE Conclude(p, TRUE)
  /\ UNCHANGED <<made, owner, page, marks>>

-----------------------------------------------------------------------------
(* The engine that a user starts writes the log of a run.                  *)
UserRunsEngine(r) ==
  /\ r \in made /\ "bundle" \in files[r] /\ "logs" \notin files[r]
  /\ files' = [files EXCEPT ![r] = @ \cup {"logs"}]
  /\ UNCHANGED <<made, owner, page, doing, Stay>>

(* The runner leaves a log and the run is finalized; or no log, and the    *)
(* run has succeeded as it is; or it raises, with or without a log.        *)
RunEngine(p) ==
  /\ doing[p] = "engine"
  /\ \/ Go(p, "finalize") /\ AddFile(p, "logs") /\ UNCHANGED Place
     \/ "logs" \notin files[dir[p]] /\ files' = files /\ Conclude(p, TRUE)
     \/ files' \in {files, [files EXCEPT ![dir[p]] = @ \cup {"logs"}]} /\ Conclude(p, FALSE)
  /\ UNCHANGED <<made, owner, page, marks>>

-----------------------------------------------------------------------------
(* The commands finalize and update of a user, on a run that was finalized *)
(* before, or half made, or that there is none of.                         *)
Ask(p) ==
  /\ doing[p] = "idle" /\ p \notin Batches /\ turn[p] < MaxTurns[p]
  /\ \E r \in RunIds : dir' = [dir EXCEPT ![p] = r]
  /\ \E command \in {"finalize", "update"} : Go(p, command)
  /\ Begin(p)

(* cmd_finalize returns 2 without metadata, and 3 without a log.           *)
Finalize(p) ==
  /\ doing[p] = "finalize"
  /\ IF {"metadata", "logs"} \subseteq files[dir[p]]
     THEN Go(p, "remove") /\ UNCHANGED Place
     ELSE Conclude(p, FALSE)
  /\ UNCHANGED <<disk, marks>>

(* The pages are come to, perhaps while another process is there.          *)
ComeToPages(p) == clashed' = (clashed \/ \E q \in Procs \ {p} : doing[q] \in AtPages)

(* update lists any run that has metadata, as it is.                       *)
Update(p) ==
  /\ doing[p] = "update" /\ UNCHANGED <<disk, overlaid>>
  /\ IF "metadata" \in files[dir[p]]
     THEN /\ Go(p, "look") /\ ComeToPages(p) /\ UNCHANGED Place
          /\ spoilt' = IF files[dir[p]] = Files THEN spoilt ELSE spoilt \cup {dir[p]}
     ELSE Conclude(p, FALSE) /\ UNCHANGED <<clashed, spoilt>>

(* jsonl2sqlite removes the database, makes one and fills it in one        *)
(* transaction.  Another may have made one since, which it cannot use, or  *)
(* may remove what it fills.                                               *)
Without(p, f) == files' = [files EXCEPT ![dir[p]] = @ \ {f}]
RemoveDatabase(p) ==
  /\ doing[p] = "remove" /\ Go(p, "create")
  /\ Without(p, "derived") /\ owner' = [owner EXCEPT ![dir[p]] = NoOwner]
  /\ UNCHANGED <<made, page, Stay>>
CreateDatabase(p) ==
  /\ doing[p] = "create" /\ owner[dir[p]] = NoOwner /\ Go(p, "fill")
  /\ owner' = [owner EXCEPT ![dir[p]] = p]
  /\ UNCHANGED <<made, files, page, Stay>>
FillDatabase(p) ==
  /\ doing[p] = "fill" /\ Go(p, "metrics")
  /\ IF owner[dir[p]] = p THEN AddFile(p, "derived") ELSE files' = files
  /\ UNCHANGED <<made, owner, page, Stay>>

(* The metrics and the judge need a database, the report has what they     *)
(* found; each result is written over the file of that name.               *)
OpenText(p) ==
  /\ \E f \in Texts :
       /\ doing[p] = f /\ (f # "report" => owner[dir[p]] # NoOwner)
       /\ Go(p, Put[f]) /\ Without(p, f)
  /\ UNCHANGED <<made, owner, page, Stay>>
AfterText == [metrics |-> "judge", judge |-> "report", report |-> "look"]
WriteText(p) ==
  /\ \E f \in Texts : doing[p] = Put[f] /\ AddFile(p, f) /\ Go(p, AfterText[f])
  /\ IF doing'[p] = "look" THEN ComeToPages(p) ELSE clashed' = clashed
  /\ UNCHANGED <<made, owner, page, Place, overlaid, spoilt>>

(* A process that stops here leaves a run without a file it may have had.  *)
Spoils(p) ==
  \/ doing[p] = "create" /\ owner[dir[p]] = NoOwner
  \/ doing[p] = "fill" /\ owner[dir[p]] = p
  \/ \E f \in Texts : doing[p] = Put[f]
Stops(p) == spoilt' = IF Spoils(p) THEN spoilt \cup {dir[p]} ELSE spoilt

(* A step may raise instead: a tool fails, a file of another finalize is   *)
(* half written, the database is gone or another's.                        *)
Raise(p) ==
  /\ doing[p] \in Tools \cup {"look", "read"} /\ Conclude(p, FALSE) /\ Stops(p)
  /\ UNCHANGED <<disk, clashed, overlaid>>

-----------------------------------------------------------------------------
(* append_index_row and append_world_journal: the page is made with its    *)
(* header if it is not there,                                              *)
Look(p) ==
  /\ doing[p] = "look" /\ Go(p, IF page[pageNo[p]].there THEN "read" ELSE "head")
  /\ UNCHANGED <<disk, Stay>>

(* open, for writing, empties it; what is then written covers the lines    *)
(* there are, and no more than it has itself.                              *)
OpenIt(p) ==
  /\ page' = [page EXCEPT ![pageNo[p]] = [there |-> TRUE, lines |-> << >>]]
  /\ overlaid' = (overlaid \/ \E q \in Procs \ {p} :
                                 doing[q] \in {"heading", "write"} /\ pageNo[q] = pageNo[p])
  /\ UNCHANGED <<made, files, owner, Place, clashed, spoilt>>
Covering(new, old) == new \o SubSeq(old, Len(new) + 1, Len(old))
WriteIt(p, new) ==
  /\ page' = [page EXCEPT ![pageNo[p]].lines = Covering(new, @)]
  /\ UNCHANGED <<made, files, owner>>

OpenHeader(p)  == doing[p] = "head" /\ Go(p, "heading") /\ OpenIt(p)
WriteHeader(p) == doing[p] = "heading" /\ Go(p, "read") /\ WriteIt(p, <<Header>>) /\ UNCHANGED Stay

(* read,                                                                   *)
Has(lines, r) == \E k \in DOMAIN lines : lines[k] = r
LastPage(p) == pageNo[p] = Len(Pages)
TurnPage(p) ==
  IF LastPage(p) THEN Conclude(p, TRUE)
  ELSE /\ Go(p, "look") /\ pageNo' = [pageNo EXCEPT ![p] = @ + 1]
       /\ text' = [text EXCEPT ![p] = << >>] /\ UNCHANGED <<dir, turn, verdict>>
(* A slip: the run is not looked for.                                      *)
ReadPageAnew(p) ==
  /\ doing[p] = "read" /\ Go(p, "open") /\ text' = [text EXCEPT ![p] = page[pageNo[p]].lines]
  /\ UNCHANGED <<disk, dir, turn, pageNo, verdict, marks>>
(* and left as it is when it has the run;                                  *)
ReadPage(p) ==
  /\ doing[p] = "read"
  /\ LET lines == page[pageNo[p]].lines
     IN  IF Has(lines, dir[p]) THEN TurnPage(p)
         ELSE /\ Go(p, "open") /\ text' = [text EXCEPT ![p] = lines]
              /\ UNCHANGED <<dir, turn, pageNo, verdict>>
  /\ UNCHANGED <<disk, marks>>

(* else it is written anew, with the row added.                            *)
OpenPage(p) == doing[p] = "open" /\ Go(p, "write") /\ OpenIt(p)
(* A slip: the row alone is written.                                       *)
WithRowOnly(p) == <<dir[p]>>
WithRow(p) == Append(text[p], dir[p])
WritePage(p) == doing[p] = "write" /\ WriteIt(p, WithRow(p)) /\ TurnPage(p) /\ UNCHANGED marks

Kill(p) ==
  /\ doing[p] \notin {"idle", "aborted", "killed"} /\ Go(p, "killed") /\ Stops(p)
  /\ clashed' = (clashed \/ doing[p] = "write")
  /\ UNCHANGED <<disk, Place, overlaid>>

-----------------------------------------------------------------------------
ProcessStep(p) ==
  \/ MakeDir(p) \/ Copy(p) \/ WriteMetadata(p) \/ RunEngine(p)
  \/ Finalize(p) \/ RemoveDatabase(p) \/ CreateDatabase(p) \/ FillDatabase(p)
  \/ OpenText(p) \/ WriteText(p)
  \/ Look(p) \/ OpenHeader(p) \/ WriteHeader(p) \/ ReadPage(p) \/ OpenPage(p) \/ WritePage(p)
  \/ Raise(p)

BatchStep(p) == ProcessStep(p) \/ Pick(p)

ResearchNext ==
  \/ \E p \in Procs : ProcessStep(p) \/ Pick(p) \/ Ask(p) \/ Update(p) \/ Kill(p)
  \/ \E r \in RunIds : UserRunsEngine(r)

(* A batch goes on; its runner and its tools return or raise.              *)
ResearchFairness == \A p \in Batches : WF_researchVars(BatchStep(p))
ResearchSpec == ResearchInit /\ [][ResearchNext]_researchVars /\ ResearchFairness

-----------------------------------------------------------------------------
(* Properties *)

(* Two processes never build the same run directory, though they may have  *)
(* picked the same number.                                                 *)
OwnDirectory ==
  \A p, q \in Procs :
    p # q /\ {doing[p], doing[q]} \subseteq Building => dir[p] # dir[q]

(* However often a run is finalized or listed, by whom and with what       *)
(* interruptions, no page has two rows of it and no process is about to    *)
(* write a second, unless a page was opened for writing by two at once,    *)
(* so that one text covers part of the other.                              *)
Once(lines, r) == \A j, k \in DOMAIN lines : lines[j] = r /\ lines[k] = r => j = k
NoRowTwice ==
  ~ overlaid =>
    /\ \A i \in 1..Len(Pages), r \in RunIds : Once(page[i].lines, r)
    /\ \A p \in Procs, r \in RunIds : Once(text[p], r)
    /\ \A p \in Procs : doing[p] \in {"open", "write"} => ~ Has(text[p], dir[p])

(* A file of a run is there, or a process is making it again.              *)
Making(p, f) == IF f = "derived" THEN doing[p] \in {"create", "fill"}
                                 ELSE f \in Texts /\ doing[p] = Put[f]
Kept(r, f) == f \in files[r] \/ \E p \in Procs : dir[p] = r /\ Making(p, f)

(* A run that has a row has its bundle and metadata, and everything else   *)
(* the row is taken from and points to, or in a moment; unless a process   *)
(* stopped with one of its files removed or emptied, or it was listed by   *)
(* update before it was finalized.                                         *)
RowsAreReported ==
  \A i \in 1..Len(Pages), r \in RunIds : Has(page[i].lines, r) =>
    /\ r \in made /\ {"bundle", "metadata"} \subseteq files[r]
    /\ r \in spoilt \/ \A f \in Files : Kept(r, f)

(* The row of a run is on a page, or with the process that rewrites it.    *)
Listed(i, r) ==
  \/ Has(page[i].lines, r)
  \/ \E p \in Procs : doing[p] = "write" /\ pageNo[p] = i /\ Has(text[p], r)

(* As long as no two processes were at the pages at once and none was      *)
(* killed in a rewrite, a row is never lost, and whatever is finalized or  *)
(* listed with success is in both pages.                                   *)
NothingUnlisted ==
  ~ clashed' =>
    /\ \A i \in 1..Len(Pages), r \in RunIds : Listed(i, r) => Listed(i, r)'
    /\ \A p \in Procs : doing[p] \in AtPages /\ doing'[p] = "idle" /\ verdict'[p] =>
         \A i \in 1..Len(Pages) : Has(page'[i].lines, dir[p])

(* What run_batch and the commands tell is so: after success the run has   *)
(* its report, which another finalize may be writing anew or have left     *)
(* half written, or was listed as it is, or never had a log, or was only   *)
(* to be made.                                                             *)
VerdictIsTrue ==
  \A p \in Procs :
    dir[p] # NoRun /\ dir'[p] = NoRun /\ verdict'[p] =>
      \/ Kept(dir[p], "report") \/ dir[p] \in spoilt
      \/ doing[p] = "engine" /\ "logs" \notin files[dir[p]]
      \/ doing[p] = "metadata"

(* What the loop keeps and tells, step by step.                            *)
RecordsAreTrue == [][NothingUnlisted /\ VerdictIsTrue]_researchVars

(* A batch whose engine runs is ready for its next run, or at its end, in  *)
(* time, whatever engine and finalize do, unless it is killed.             *)
BatchGoesOn == \A b \in Batches : doing[b] = "engine" ~> doing[b] \in {"idle", "killed"}

(* Processes that share the experiments build each run by themselves and   *)
(* list it once, with all it needs, unless they write or stop at the wrong *)
(* moment (exp/cli.py, journal/update.py).                                 *)
ResearchSafe == ResearchTypeOK /\ OwnDirectory /\ NoRowTwice /\ RowsAreReported
=============================================================================
