---------------------------- MODULE ScanConsumers ----------------------------
(***************************************************************************)
(* What the readers of the latest scan answer about an item the pipeline   *)
(* classified, and what must hold between the pipeline and them.  Preview, *)
(* chat, selection, cleanup and performance mode are separate code: each   *)
(* decides anew from the stored flags, or, performance mode, without them. *)
(***************************************************************************)
EXTENDS Pipeline

Intents == {"gaming", "safe_suspend", "explain", "unknown", "protected", "help"}

\* process_items_from_scan
InInventory(r, i) == r.type \in ControlTypes /\ i.control.category # "not_applicable"

\* Mutant: the category is not looked at, the policy decides.
PolicyOnly(r, i, confirm) ==
    /\ r.type = "process"
    /\ i.control.policy = "explicit_selection_required" => confirm
    /\ i.control.policy \notin {"unsupported"} /\ i.control.category # "important"

\* _preview_row of preview_end_processes: status would_allow.
WouldAllow(r, i, confirm) ==
    /\ r.type = "process"
    /\ i.control.category \notin {"essential", "unknown"}
    /\ i.control.policy \notin {"blocked", "report_only", "unsupported"}
    /\ i.control.policy = "explicit_selection_required" => confirm
    /\ i.control.suspend

\* build_chat_preview: the item is among the rows the chat offers ...
ChatOffers(r, i, intent, confirm) ==
    /\ intent \in {"gaming", "safe_suspend"} /\ InInventory(r, i)
    /\ intent = "gaming" => i.control.category \in {"gaming_fps_impact", "non_essential"}
    /\ WouldAllow(r, i, confirm)

Locked(i) ==
    i.protected \/ i.control.category = "essential" \/ i.control.policy = "blocked"

\* ... or among those it declares unidentified or locked, whatever is confirmed.
ChatWithholds(r, i, intent) ==
    /\ InInventory(r, i)
    /\ \/ intent = "unknown" /\ i.control.category = "unknown"
       \/ intent = "protected" /\ Locked(i)

\* can_select_for_cleanup and default_selected_ids
CanSelect(r, i, advanced) ==
    /\ r.type = "file_or_folder" /\ ~i.protected
    /\ i.bucket # "risky_system_critical"
    /\ i.bucket \in {"unknown", "ask_user"} \/ ~i.cleanup => advanced
DefaultSelected(r, i, advanced) ==
    CanSelect(r, i, advanced) /\ i.bucket = "safe_to_remove"

\* The item as the cleanup reads it.
CleanupFacts(r, i) ==
    [type |-> IF r.type = "file_or_folder" THEN r.type ELSE "other",
     bucket |-> i.bucket,
     hint |-> IF r.hint \in {"temp_cache", "installer_residual", "low"} THEN "low"
              ELSE IF r.hint = "startmenu" THEN "startmenu" ELSE "other",
     path |-> r.path, rulesProtect |-> i.intel.protect]
Taken(r, i, confirm, advanced) == ~ExecuteSkips(CleanupFacts(r, i), confirm, advanced)

-----------------------------------------------------------------------------
(* Properties. *)

\* What the chat declares locked or unidentified is offered by nobody: not by
\* the preview or by the chat under another intent, confirmed or not; and what
\* is protected is neither selected, nor taken by a cleanup, nor flagged for
\* performance mode.
LockedOffersNothing ==
    stored # None => LET i == Loaded IN \A c, a \in BOOLEAN :
        /\ (\E t \in Intents : ChatWithholds(raw, i, t)) =>
               /\ ~WouldAllow(raw, i, c)
               /\ \A t \in Intents : ~ChatOffers(raw, i, t, c)
        /\ i.protected => /\ ~DefaultSelected(raw, i, a)
                          /\ ~Taken(raw, i, c, a) /\ ~i.performance

\* An offer to suspend is one performance mode would take when asked by name.
\* None of the names of the process is protected, and a row of the database
\* outside the essential stacks says so at low or medium risk: in doubt nothing
\* is offered.
OfferKept ==
    stored # None => LET i == Loaded IN
        (\E c \in BOOLEAN, t \in Intents :
            WouldAllow(raw, i, c) \/ ChatOffers(raw, i, t, c)) =>
        /\ SuspendAllowed(raw.name, {raw.name}) /\ ~HardNamed(raw)
        /\ ~Marked(raw, "shell") /\ i.bucket # "risky_system_critical"
        /\ i.intel.known /\ ~EssentialRow(i.intel)
        /\ i.intel.row.risk \in {"low", "medium"} /\ i.intel.row.stop = "yes"

\* What is selected by default survives the preview and the execution with no
\* confirmation given: three places decide it, each with tests of its own.
SelectedIsTaken ==
    stored # None => LET i == Loaded IN \A a, b \in BOOLEAN :
        DefaultSelected(raw, i, a) =>
            /\ PreviewStatus(CleanupFacts(raw, i), FALSE, b) # "blocked"
            /\ raw.path # "none" => Taken(raw, i, FALSE, b)

\* The user's lists reach the cleanup through every stage: an item they marked
\* important is taken only under advanced visibility and with the confirmation,
\* one they block is never taken nor offered.
ListsReachCleanup ==
    stored # None => LET i == Loaded IN \A c, a \in BOOLEAN :
        /\ LoadedLists.allow /\ Taken(raw, i, c, a) => c /\ a
        /\ LoadedLists.block => ~Taken(raw, i, c, a) /\ ~WouldAllow(raw, i, c)

\* The flags gating stored are those the cleanup module assumes of an item: its
\* Facts stand for what the pipeline really produces.
FactsAgree ==
    stored # None /\ raw.type = "file_or_folder" /\ stored.canonical =>
        LET f == CleanupFacts(raw, stored.item) IN
        /\ f \in Facts
        /\ stored.item.protected = Protected(f)
        /\ stored.item.cleanup = CleanupEligible(f)

\* No stage after the rules takes an item out of system-critical, into a bucket
\* a cleanup takes, out of protection, or out of blocked process control.
NeverFreed ==
    [][scan # Idle /\ scan' # Idle /\ scan.at # "normalized" =>
          LET i == scan.item  j == scan'.item IN
          /\ i.bucket = "risky_system_critical" => j.bucket = i.bucket
          /\ j.bucket \in {"safe_to_remove", "probably_safe"} => i.bucket = j.bucket
          /\ i.protected => j.protected
          /\ i.control.policy = "blocked" => j.control = i.control]_vars

\* Performance mode starts nothing on a process that the rules or the
\* intelligence protected in the latest scan, the user's lists apart.
StartSparesProtected ==
    [][/\ suspended' /\ ~suspended
       /\ stored # None /\ stored.canonical /\ ~stored.lists.block
       => ~stored.item.protected]_vars
=============================================================================
