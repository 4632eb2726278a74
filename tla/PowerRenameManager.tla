------------------------- MODULE PowerRenameManager -------------------------
(***************************************************************************)
(* PowerRename's manager (modules/powerrename/lib/PowerRenameManager.cpp,  *)
(* Renaming.cpp, PowerRenameRegEx.cpp) with its window                     *)
(* (PowerRenameUILib/PowerRenameXAML/MainWindow.xaml.cpp): what is typed is*)
(* previewed by a worker thread, which every change cancels and replaces,  *)
(* and a second worker renames what the preview shows, while the window's  *)
(* thread goes on dispatching messages.                                    *)
(*                                                                         *)
(* `criteria` is the search term, the replace term and the options taken   *)
(* together: what they make of a name is a constant, Replaced.  Two threads*)
(* that meet in one item are kept to whole calls: the locks of an item are *)
(* shared even where it is written.                                        *)
(***************************************************************************)
EXTENDS Naturals, Sequences

CONSTANTS
    ItemCount,    \* how many items m_renameItems has, folders before contents
    Depth,        \* how deep each item is below what was selected
    Criteria,     \* what the user may type
    Blank,        \* the criteria with an empty search term
    Dated,        \* criteria whose replace term uses a file's time
    Malformed,    \* criteria whose search term is no regular expression
    Name,         \* what a file may be called
    Originally,   \* what each item is called at first
    Replaced,     \* what criteria make of the name of an item
    MaxChanges,   \* bound on changes of the criteria
    MaxRenames    \* bound on how often Rename is pressed

Items == 1 .. ItemCount

ASSUME ItemsAssumption ==
    /\ ItemCount \in Nat
    /\ Depth \in [Items -> Nat]
    /\ \A i \in Items : Depth[i] <= (IF i = 1 THEN 0 ELSE Depth[i - 1] + 1)
ASSUME CriteriaAssumption ==
    /\ Blank \in Criteria \ (Dated \cup Malformed)
    /\ Dated \subseteq Criteria /\ Malformed \subseteq Criteria
    /\ MaxChanges \in Nat /\ MaxRenames \in Nat

NoName == "no name"           \* a null m_newName

(* The last item of each depth up to i is around it.                        *)
Around(i, d) == CHOOSE j \in 1 .. i :
    Depth[j] = d /\ \A k \in j + 1 .. i : Depth[k] > d

(* Two items of one folder.  What was selected is taken to be in one.       *)
Siblings(i, j) ==
    /\ i # j /\ Depth[i] = Depth[j]
    /\ Depth[i] > 0 => Around(i, Depth[i] - 1) = Around(j, Depth[j] - 1)

ASSUME NamesAssumption ==
    /\ NoName \notin Name
    /\ Originally \in [Items -> Name]
    /\ \A i, j \in Items : Siblings(i, j) => Originally[i] # Originally[j]
    /\ Replaced \in [Criteria -> [Items -> [Name -> Name]]]

VARIABLES
    criteria,      \* m_searchTerm, m_replaceTerm and m_flags of m_spRegEx
    original,      \* m_originalName of each item
    newName,       \* m_newName of each item
    path,          \* m_path of each item, below the folder of what was selected
    closing,       \* m_closeUIWindowAfterRenaming
    startEvent,    \* m_startRegExWorkerEvent, which nothing resets
    cancelEvent,   \* m_cancelRegExWorkerEvent
    reentrancy,    \* the thread that has entered m_critsecReentrancy
    regEx,         \* the regex worker: where it is, its item, the name found for it
    fileOp,        \* the file operation's worker: where it is, items left, renames queued
    ui,            \* what the window's thread has left to do, innermost call first
    messages,      \* posted to the window's thread and not dispatched yet
    button,        \* whether Rename is enabled
    window,        \* "open", "closed" or "crashed"
    disk           \* what each item is called on disk

(* Not program state: how the last regex worker ended; the new names there  *)
(* were when the file operation's worker was created, where every item can  *)
(* get its own, and whether the user has changed anything since then;       *)
(* whether the system ever refused a rename, or found a file in its way that*)
(* is not in the list, and whether one ever met an item of the list; and how*)
(* much of the bounds is used up.                                           *)
VARIABLES outcome, promised, undisturbed, refused, collided, changes, renames

listVars == <<original, newName, path>>
workerVars == <<regEx, outcome>>
eventVars == <<startEvent, cancelEvent, reentrancy>>
userVars == <<criteria, closing, changes, renames>>
windowVars == <<ui, messages, button, window>>
promiseVars == <<promised, undisturbed>>
diskVars == <<disk, refused, collided>>
vars == <<listVars, workerVars, eventVars, userVars, windowVars, promiseVars, fileOp, diskVars>>

RegExPc == {"none", "begin", "check", "compute", "put", "stuck", "exited"}
FileOpPc == {"none", "begin", "check", "take", "perform", "exited"}
Call == {"cancel", "wait", "create", "signal", "createFileOp", "pump", "completed"}
Message == {"regExComplete", "itemRenamed", "close"}
Operation == [item : Items, from : Seq(Name), to : Name]
NoFileOp == [pc |-> "none", todo |-> {}, ops |-> <<>>]
NoRegEx == [pc |-> "none", item |-> 0, name |-> NoName]

TypeOK ==
    /\ criteria \in Criteria /\ closing \in BOOLEAN
    /\ original \in [Items -> Name]
    /\ newName \in [Items -> Name \cup {NoName}]
    /\ path \in [Items -> Seq(Name)] /\ \A i \in Items : Len(path[i]) = Depth[i] + 1
    /\ startEvent \in BOOLEAN /\ cancelEvent \in BOOLEAN
    /\ reentrancy \in {"nobody", "ui", "regEx"}
    /\ regEx \in [pc : RegExPc, item : Nat, name : Name \cup {NoName}]
    /\ regEx.pc \in {"compute", "put", "stuck"} => regEx.item \in Items
    /\ fileOp \in [pc : FileOpPc, todo : SUBSET Items, ops : Seq(Operation)]
    /\ fileOp.pc = "take" => fileOp.todo # {}
    /\ ui \in Seq(Call) /\ messages \in Seq(Message)
    /\ button \in BOOLEAN /\ window \in {"open", "closed", "crashed"}
    /\ disk \in [Items -> Name]
    /\ fileOp.pc # "none" => \E k \in DOMAIN ui : ui[k] = "pump"
    /\ outcome \in {"complete", "canceled", "failed"}
    /\ promised \in [Items -> Name \cup {NoName}]
    /\ undisturbed \in BOOLEAN /\ refused \in BOOLEAN /\ collided \in BOOLEAN

Init ==
    /\ criteria = Blank /\ closing = FALSE
    /\ original = Originally /\ disk = Originally
    /\ newName = [i \in Items |-> NoName]
    /\ path = [i \in Items |-> [d \in 1 .. Depth[i] + 1 |-> Originally[Around(i, d - 1)]]]
    /\ startEvent = FALSE /\ cancelEvent = FALSE /\ reentrancy = "nobody"
    /\ regEx = NoRegEx /\ fileOp = NoFileOp
    /\ ui = <<>> /\ messages = <<>> /\ button = FALSE /\ window = "open"
    /\ outcome = "complete" /\ promised = newName
    /\ undisturbed = TRUE /\ refused = FALSE /\ collided = FALSE
    /\ changes = 0 /\ renames = 0

---------------------------------------------------------------------------
(* DoRename, where nothing throws.  An unchanged name leaves no new name.   *)
NameFor(c, i, name) ==
    IF c = Blank \/ Replaced[c][i][name] = name THEN NoName ELSE Replaced[c][i][name]

ShouldRenameItem(i) == newName[i] \notin {NoName, original[i]}
ItemsToRename == {i \in Items : ShouldRenameItem(i)}

(* TryEnterCriticalSection, which lets the thread that is inside in again.  *)
MayEnter(thread) == reentrancy \in {"nobody", thread}

(* UpdateChildrenPath goes on from a folder to the next item as shallow.    *)
Inside(j, i) == j > i /\ \A k \in i + 1 .. j : Depth[k] > Depth[i]

(* Where item i is on disk, and the item that a path leads to, if any.      *)
DiskPath(i) == [d \in 1 .. Depth[i] + 1 |-> disk[Around(i, d - 1)]]
At(p) == {i \in Items : DiskPath(i) = p}

(* No other item of the folder has that name on disk.                       *)
Free(i, name) == \A j \in Items : Siblings(i, j) => disk[j] # name

(* Every item can be given its new name in the order of the list: no two of *)
(* a folder get the same, and who has it now is renamed before.             *)
Compatible ==
    /\ ~collided
    /\ \A i \in ItemsToRename, j \in Items : Siblings(i, j) =>
        /\ j \in ItemsToRename => newName[j] # newName[i]
        /\ disk[j] = newName[i] => j \in ItemsToRename /\ j < i

---------------------------------------------------------------------------
(* The window's thread *)

Dispatching == window = "open" /\ (ui # <<>> => Head(ui) = "pump")
Calls(call) == window = "open" /\ ui # <<>> /\ Head(ui) = call

(* _PerformRegExRename *)
PerformRegExRename == <<"cancel", "wait", "create", "signal">>

(* PutSearchTerm, PutReplaceTerm, PutFlags: a change calls back the manager. *)
Change(c) ==
    /\ Dispatching /\ c # criteria /\ changes < MaxChanges
    /\ criteria' = c
    /\ changes' = changes + 1
    /\ ui' = PerformRegExRename \o ui
    /\ undisturbed' = FALSE
    /\ UNCHANGED <<listVars, workerVars, eventVars, closing, renames, messages, button,
                   window, promised, fileOp, diskVars>>

(* Rename, _PerformFileOperation; the button is not pressed a second time   *)
(* while messages are pumped for the first.                                 *)
PressRename(close) ==
    /\ Dispatching /\ ui = <<>> /\ button /\ renames < MaxRenames
    /\ closing' = close
    /\ renames' = renames + 1
    /\ ui' = IF ItemsToRename = {} THEN ui
             ELSE <<"wait", "createFileOp", "pump", "completed">>
    /\ UNCHANGED <<listVars, workerVars, eventVars, criteria, changes, messages, button,
                   window, promiseVars, fileOp, diskVars>>

(* _WndProc, and WM_CLOSE.  UpdateCounts enables the button or disables it. *)
Dispatch ==
    /\ Dispatching /\ messages # <<>>
    /\ messages' = Tail(messages)
    /\ IF Head(messages) = "close"
       THEN window' = "closed" /\ UNCHANGED button
       ELSE button' = (ItemsToRename # {}) /\ UNCHANGED window
    /\ UNCHANGED <<listVars, workerVars, eventVars, userVars, ui, promiseVars, fileOp, diskVars>>

(* A change made while a worker runs is taken for a re-entry.               *)
MutIgnoresWhileRunning ==
    /\ Calls("cancel")
    /\ IF MayEnter("ui") /\ regEx.pc \in {"none", "exited"}
       THEN /\ reentrancy' = "ui"
            /\ startEvent' = TRUE /\ cancelEvent' = TRUE
            /\ ui' = Tail(ui)
       ELSE /\ ui' = SubSeq(ui, Len(PerformRegExRename) + 1, Len(ui))
            /\ UNCHANGED eventVars
    /\ UNCHANGED <<listVars, workerVars, userVars, messages, button, window, promiseVars,
                   fileOp, diskVars>>

(* _PerformRegExRename enters the section and never leaves it, or returns at *)
(* once; _CancelRegExWorkerThread.                                          *)
CancelRegExWorker ==
    /\ Calls("cancel")
    /\ IF MayEnter("ui")
       THEN /\ reentrancy' = "ui"
            /\ startEvent' = TRUE /\ cancelEvent' = TRUE
            /\ ui' = Tail(ui)
       ELSE /\ ui' = SubSeq(ui, Len(PerformRegExRename) + 1, Len(ui))
            /\ UNCHANGED eventVars
    /\ UNCHANGED <<listVars, workerVars, userVars, messages, button, window, promiseVars,
                   fileOp, diskVars>>

WaitForRegExWorkerThread ==
    /\ Calls("wait") /\ regEx.pc \in {"none", "exited"}
    /\ regEx' = NoRegEx
    /\ ui' = Tail(ui)
    /\ UNCHANGED <<listVars, outcome, eventVars, userVars, messages, button, window,
                   promiseVars, fileOp, diskVars>>

CreateRegExWorkerThread ==
    /\ Calls("create")
    /\ regEx' = [pc |-> "begin", item |-> 1, name |-> NoName]
    /\ ui' = Tail(ui)
    /\ UNCHANGED <<listVars, outcome, eventVars, userVars, messages, button, window,
                   promiseVars, fileOp, diskVars>>

(* The section is left again.                                               *)
MutLeavesSection ==
    /\ Calls("signal")
    /\ cancelEvent' = FALSE /\ startEvent' = TRUE /\ reentrancy' = "nobody"
    /\ ui' = Tail(ui)
    /\ UNCHANGED <<listVars, workerVars, userVars, messages, button, window, promiseVars,
                   fileOp, diskVars>>

(* The worker created before may have seen cancelEvent set already: the     *)
(* event it waits for first is never reset.                                 *)
SignalRegExWorker ==
    /\ Calls("signal")
    /\ cancelEvent' = FALSE /\ startEvent' = TRUE
    /\ ui' = Tail(ui)
    /\ UNCHANGED <<listVars, workerVars, reentrancy, userVars, messages, button, window,
                   promiseVars, fileOp, diskVars>>

(* _CreateFileOpWorkerThread; the event it then sets is nobody's.           *)
CreateFileOpWorkerThread ==
    /\ Calls("createFileOp")
    /\ fileOp' = [pc |-> "begin", todo |-> Items, ops |-> <<>>]
    /\ ui' = Tail(ui)
    /\ promised' = [i \in Items |->
        IF Compatible /\ ShouldRenameItem(i) THEN newName[i] ELSE NoName]
    /\ undisturbed' = TRUE
    /\ UNCHANGED <<listVars, workerVars, eventVars, userVars, messages, button, window,
                   diskVars>>

(* The message that the worker is complete ends the loop, not its exit.     *)
MutStopsOnMessage ==
    /\ Calls("pump") /\ fileOp.pc \in {"perform", "exited"}
    /\ ui' = Tail(ui)
    /\ UNCHANGED <<listVars, workerVars, eventVars, userVars, messages, button, window,
                   promiseVars, fileOp, diskVars>>

(* The loop of _PerformFileOperation ends once the worker has exited.       *)
StopPumping ==
    /\ Calls("pump") /\ fileOp.pc = "exited"
    /\ fileOp' = NoFileOp
    /\ ui' = Tail(ui)
    /\ UNCHANGED <<listVars, workerVars, eventVars, userVars, messages, button, window,
                   promiseVars, diskVars>>

(* OnRenameCompleted, which closes the window or calls                      *)
(* SearchReplaceChanged(true): both terms call back whether changed or not. *)
RenameCompleted ==
    /\ Calls("completed")
    /\ IF closing
       THEN ui' = Tail(ui) /\ messages' = Append(messages, "close")
       ELSE /\ ui' = PerformRegExRename \o PerformRegExRename \o Tail(ui)
            /\ UNCHANGED messages
    /\ UNCHANGED <<listVars, workerVars, eventVars, userVars, button, window, promiseVars,
                   fileOp, diskVars>>

WindowThread ==
    \/ Dispatch
    \/ CancelRegExWorker \/ WaitForRegExWorkerThread \/ CreateRegExWorkerThread
    \/ SignalRegExWorker
    \/ CreateFileOpWorkerThread \/ StopPumping \/ RenameCompleted

User ==
    \/ \E c \in Criteria : Change(c)
    \/ \E close \in BOOLEAN : PressRename(close)

---------------------------------------------------------------------------
(* s_regexWorkerThread *)

RegExAt(pc) == window = "open" /\ regEx.pc = pc
RegExLeaves == UNCHANGED <<original, path, userVars, ui, button, window, promiseVars, fileOp, diskVars>>

RegExBegins ==
    /\ RegExAt("begin") /\ startEvent
    /\ regEx' = [regEx EXCEPT !.pc = "check"]
    /\ RegExLeaves
    /\ UNCHANGED <<newName, outcome, eventVars, messages>>

(* A canceled worker returns without saying that it is complete.            *)
MutCanceledIsSilent(how) ==
    /\ regEx' = [regEx EXCEPT !.pc = "exited"]
    /\ outcome' = how
    /\ messages' = IF how = "canceled" THEN messages ELSE Append(messages, "regExComplete")

(* Whether it was canceled or has done every item, it posts that it is      *)
(* complete.                                                                *)
RegExEnds(how) ==
    /\ regEx' = [regEx EXCEPT !.pc = "exited"]
    /\ outcome' = how
    /\ messages' = Append(messages, "regExComplete")

RegExChecks ==
    /\ RegExAt("check")
    /\ IF regEx.item \notin Items THEN RegExEnds("complete")
       ELSE IF cancelEvent THEN RegExEnds("canceled")
       ELSE /\ regEx' = [regEx EXCEPT !.pc = "compute"]
            /\ UNCHANGED <<outcome, messages>>
    /\ RegExLeaves
    /\ UNCHANGED <<newName, eventVars>>

(* DoRename up to the new name.  A file whose time cannot be read and a     *)
(* search term that is no regular expression throw, which ends the thread.  *)
RegExThrows ==
    /\ RegExAt("compute") /\ criteria \in Dated \cup Malformed
    /\ regEx' = [regEx EXCEPT !.pc = "exited"]
    /\ outcome' = "failed"
    /\ RegExLeaves
    /\ UNCHANGED <<newName, eventVars, messages>>

(* PutFileTime and ResetFileTime call the manager back on this thread: where*)
(* OnFileTimeChanged could enter, it would cancel this thread and wait for  *)
(* it to end.                                                               *)
RegExComputes ==
    /\ RegExAt("compute") /\ criteria \notin Malformed
    /\ IF criteria \in Dated /\ MayEnter("regEx")
       THEN /\ regEx' = [regEx EXCEPT !.pc = "stuck"]
            /\ reentrancy' = "regEx"
            /\ startEvent' = TRUE /\ cancelEvent' = TRUE
       ELSE /\ regEx' = [regEx EXCEPT !.pc = "put",
                                     !.name = NameFor(criteria, regEx.item, original[regEx.item])]
            /\ UNCHANGED eventVars
    /\ RegExLeaves
    /\ UNCHANGED <<newName, outcome, messages>>

RegExPutsNewName ==
    /\ RegExAt("put")
    /\ newName' = [newName EXCEPT ![regEx.item] = regEx.name]
    /\ regEx' = [regEx EXCEPT !.pc = "check", !.item = @ + 1]
    /\ RegExLeaves
    /\ UNCHANGED <<outcome, eventVars, messages>>

RegExWorker ==
    RegExBegins \/ RegExChecks \/ RegExThrows \/ RegExComputes \/ RegExPutsNewName

---------------------------------------------------------------------------
(* s_fileOpWorkerThread *)

FileOpAt(pc) == window = "open" /\ fileOp.pc = pc
FileOpLeaves == UNCHANGED <<workerVars, eventVars, userVars, ui, button, promiseVars>>

(* It waits for the regex workers' event, not for its own.                  *)
FileOpBegins ==
    /\ FileOpAt("begin") /\ startEvent
    /\ fileOp' = [fileOp EXCEPT !.pc = "check"]
    /\ FileOpLeaves
    /\ UNCHANGED <<listVars, messages, window, diskVars>>

(* From the smallest depth first.                                           *)
MutFoldersFirst(i) == i \in fileOp.todo /\ \A j \in fileOp.todo :
    Depth[j] > Depth[i] \/ (Depth[j] = Depth[i] /\ i <= j)

(* From the greatest depth first, and in the order of the list.             *)
Following(i) == i \in fileOp.todo /\ \A j \in fileOp.todo :
    Depth[j] < Depth[i] \/ (Depth[j] = Depth[i] /\ i <= j)

FileOpSkips(i) == fileOp' = [fileOp EXCEPT !.pc = "check", !.todo = @ \ {i}]

FileOpChecks ==
    /\ FileOpAt("check")
    /\ \E i \in Items :
        /\ Following(i)
        /\ IF ShouldRenameItem(i) THEN fileOp' = [fileOp EXCEPT !.pc = "take"]
                                 ELSE FileOpSkips(i)
    /\ FileOpLeaves
    /\ UNCHANGED <<listVars, messages, window, diskVars>>

(* The paths of what is in a folder stay as they were.                      *)
MutForgetsChildren(i, name) ==
    /\ original' = [original EXCEPT ![i] = name]
    /\ newName' = [newName EXCEPT ![i] = NoName]
    /\ path' = [path EXCEPT ![i] = [@ EXCEPT ![Len(path[i])] = name]]
    /\ messages' = Append(messages, "itemRenamed")

(* If the window stays open the item is taken to be renamed already, and    *)
(* what is in a folder to have moved.                                       *)
PutRenamed(i, name) ==
    LET renamed == [path[i] EXCEPT ![Len(path[i])] = name] IN
    /\ original' = [original EXCEPT ![i] = name]
    /\ newName' = [newName EXCEPT ![i] = NoName]
    /\ path' = [j \in Items |->
        IF j = i THEN renamed
        ELSE IF Inside(j, i)
             THEN renamed \o SubSeq(path[j], Len(path[i]) + 1, Len(path[j]))
             ELSE path[j]]
    /\ messages' = Append(messages, "itemRenamed")

(* A path may lead to a file that is not in the list once one was in the way. *)
Leads(p) == At(p) # {} \/ refused

(* GetShellItem fails, or RenameItem refuses a null: nothing is queued.     *)
FileOpPasses(i) ==
    /\ At(path[i]) = {} \/ (newName[i] = NoName /\ closing)
    /\ FileOpSkips(i)
    /\ UNCHANGED <<listVars, messages, window>>

(* The new name may have been taken back since it was tested: a string made *)
(* of a null ends the program.                                              *)
FileOpCrashes(i) ==
    /\ Leads(path[i]) /\ newName[i] = NoName /\ ~closing
    /\ window' = "crashed"
    /\ UNCHANGED <<fileOp, listVars, messages>>

FileOpQueues(i) ==
    /\ Leads(path[i]) /\ newName[i] # NoName
    /\ fileOp' = [pc |-> "check", todo |-> fileOp.todo \ {i}, ops |->
                    Append(fileOp.ops, [item |-> i, from |-> path[i], to |-> newName[i]])]
    /\ IF closing THEN UNCHANGED <<listVars, messages>> ELSE PutRenamed(i, newName[i])
    /\ UNCHANGED window

(* GetNewName, GetShellItem, RenameItem. *)
FileOpTakes ==
    /\ FileOpAt("take")
    /\ \E i \in Items : Following(i) /\ (FileOpPasses(i) \/ FileOpCrashes(i) \/ FileOpQueues(i))
    /\ FileOpLeaves
    /\ UNCHANGED diskVars

(* PerformOperations, whose result nobody looks at.                         *)
FileOpPerforms ==
    /\ FileOpAt("check") /\ fileOp.todo = {}
    /\ fileOp' = [fileOp EXCEPT !.pc = "perform"]
    /\ FileOpLeaves
    /\ UNCHANGED <<listVars, messages, window, diskVars>>

(* The system renames what is where the shell item says, if anything is     *)
(* there, or refuses to.  FOF_RENAMEONCOLLISION: what would get the name of *)
(* another file of its folder gets some other name.                         *)
Perform(op) ==
    \/ At(op.from) = {} /\ UNCHANGED diskVars
    \/ refused' = TRUE /\ UNCHANGED <<disk, collided>>
    \/ \E i \in At(op.from), name \in Name :
        /\ Free(i, name)
        /\ disk' = [disk EXCEPT ![i] = name]
        /\ collided' = (collided \/ ~Free(i, op.to))
        /\ refused' = (refused \/ (Free(i, op.to) /\ name # op.to))

FileOpRenames ==
    /\ FileOpAt("perform") /\ fileOp.ops # <<>>
    /\ fileOp' = [fileOp EXCEPT !.ops = Tail(@)]
    /\ Perform(Head(fileOp.ops))
    /\ FileOpLeaves
    /\ UNCHANGED <<listVars, messages, window>>

FileOpEnds ==
    /\ FileOpAt("perform") /\ fileOp.ops = <<>>
    /\ fileOp' = [fileOp EXCEPT !.pc = "exited"]
    /\ FileOpLeaves
    /\ UNCHANGED <<listVars, messages, window, diskVars>>

FileOpWorker ==
    \/ FileOpBegins \/ FileOpChecks \/ FileOpTakes
    \/ FileOpPerforms \/ FileOpRenames \/ FileOpEnds

---------------------------------------------------------------------------
Next == WindowThread \/ User \/ RegExWorker \/ FileOpWorker

(* Threads run; the user need not do anything.                              *)
Spec ==
    /\ Init /\ [][Next]_vars
    /\ WF_vars(WindowThread) /\ WF_vars(RegExWorker) /\ WF_vars(FileOpWorker)

---------------------------------------------------------------------------
AtRest == window = "open" /\ ui = <<>> /\ regEx.pc \in {"none", "exited"}
AboutToClose == \E k \in DOMAIN messages : messages[k] = "close"

(* Whatever was typed while workers were running, at whatever point each was*)
(* canceled, and whatever was renamed meanwhile: what is shown in the end is*)
(* what the criteria make of the names the items have now.  It is not so    *)
(* when the last worker took its predecessor's cancellation for its own     *)
(* (_PerformRegExRename), nor when it failed.                               *)
PreviewFollowsCriteria ==
    AtRest /\ outcome = "complete" => \A i \in Items : newName[i] = NameFor(criteria, i, original[i])

(* In the end the Rename button is enabled exactly if there is something to *)
(* rename (UpdateCounts): every worker that changed a new name posts a      *)
(* message after its last change, even one that is canceled.  One that      *)
(* failed posts none.                                                       *)
ButtonFollowsCount ==
    AtRest /\ messages = <<>> /\ outcome # "failed" => button = (ItemsToRename # {})

(* While the window stays open, the paths in its list are where the items   *)
(* are, though they are rewritten before anything is renamed, and though a  *)
(* folder takes what is in it along (UpdateChildrenPath).  It is not so once*)
(* the system refused a rename, or gave an item another name because one    *)
(* beside it has the name it was to get: nothing tells the list.            *)
ListFollowsDisk ==
    AtRest /\ ~AboutToClose /\ ~refused /\ ~collided =>
        \A i \in Items : path[i] = DiskPath(i) /\ original[i] = disk[i]

(* Unless the user types while it goes on, a rename gives every item the    *)
(* name the list promised when it began, where every item can be given its  *)
(* name in the order of the list (_PerformFileOperation waits for the       *)
(* preview; the order of s_fileOpWorkerThread keeps every path valid and    *)
(* gives away no name before its owner is renamed).                         *)
RenamesAsPromised ==
    Calls("completed") /\ ~AboutToClose /\ undisturbed /\ ~refused =>
        \A i \in Items : promised[i] # NoName => disk[i] = promised[i]

(* The window's thread never waits for ever, neither for a worker that calls*)
(* it back (OnFileTimeChanged) nor for one that waits to be told to begin.  *)
WindowAnswers == ui # <<>> ~> (ui = <<>> \/ window # "open")

(* A worker that failed, on a search term that is no regular expression,    *)
(* leaves no new name in the list ("Failure here means we didn't match      *)
(* anything [...] Call put_newName with null in that case to reset it",     *)
(* DoRename).  It does not hold: the failure throws, and the list keeps the *)
(* names found for earlier criteria, which Rename then gives to the items.  *)
FailureResetsNames ==
    AtRest /\ outcome = "failed" /\ criteria \in Malformed => \A i \in Items : newName[i] = NoName
=============================================================================
