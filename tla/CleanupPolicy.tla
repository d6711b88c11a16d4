---------------------------- MODULE CleanupPolicy ----------------------------
(***************************************************************************)
(* Which files a cleanup may touch: the flags action gating puts on a      *)
(* scanned item, the verdict the preview shows for it, and the verdict     *)
(* assisted_cleanup acts on.  The two verdicts are separate code, with the *)
(* tests in a different order.                                             *)
(***************************************************************************)

Buckets == {"safe_to_remove", "probably_safe", "ask_user", "unknown",
            "risky_system_critical"}

\* What a scan records about an item.  hint "low": temp_cache,
\* installer_residual or downloads_general; "startmenu": a directory that is an
\* empty_startmenu_folder; rulesProtect: the intelligence entry's flag.
Facts == [type : {"file_or_folder", "other"}, bucket : Buckets,
          hint : {"low", "startmenu", "other"},
          path : {"none", "user", "critical"}, rulesProtect : BOOLEAN]

\* apply_action_gating
Protected(f) == f.bucket = "risky_system_critical" \/ f.rulesProtect

CleanupEligible(f) == /\ f.type = "file_or_folder" /\ ~Protected(f)
                      /\ f.bucket \in {"safe_to_remove", "probably_safe"}

\* A bucket that the medium-risk confirmation, or a low-risk hint together
\* with it, admits.
BucketAdmitted(f, confirm) ==
    \/ f.bucket = "safe_to_remove"
    \/ confirm /\ (f.bucket = "probably_safe" \/ f.hint = "low")

\* The branches of preview_cleanup_items, in its order.
PreviewStatus(f, confirm, advanced) ==
    IF \/ f.type # "file_or_folder"
       \/ Protected(f)
       \/ f.bucket \in {"unknown", "ask_user"} /\ (~advanced \/ ~confirm)
       \/ ~CleanupEligible(f) /\ ~confirm
    THEN "blocked"
    ELSE IF f.path = "none" THEN "skipped"
    ELSE IF f.path = "critical" \/ ~BucketAdmitted(f, confirm) THEN "blocked"
    ELSE "will_quarantine"

\* Mutant: advanced visibility or the confirmation admits unknown items.
SkipsUnlessEither(f, confirm, advanced) ==
    \/ f.type # "file_or_folder"
    \/ ~CleanupEligible(f) /\ ~confirm
    \/ Protected(f)
    \/ f.path \in {"none", "critical"}
    \/ f.bucket \in {"unknown", "ask_user"} /\ ~advanced /\ ~confirm
    \/ ~BucketAdmitted(f, confirm)

\* assisted_cleanup goes on to the file system with an item that survives
\* all of its skips.
ExecuteSkips(f, confirm, advanced) ==
    \/ f.type # "file_or_folder"
    \/ ~CleanupEligible(f) /\ ~confirm
    \/ Protected(f)
    \/ f.path \in {"none", "critical"}
    \/ f.bucket \in {"unknown", "ask_user"} /\ (~advanced \/ ~confirm)
    \/ ~BucketAdmitted(f, confirm)
=============================================================================
