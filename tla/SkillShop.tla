----------------------------- MODULE SkillShop ------------------------------
(***************************************************************************)
(* Skills that are bought and sold.  /api/skillpay/fulfill asks alipay-bot *)
(* for the skill and installs what it answers with, /install installs from *)
(* a URL (alipay_client, skillpay_routes); skill_publisher packs a skill   *)
(* of the same directory for sale.  A skill is a directory of files; the   *)
(* one installed before is moved to a backup named by the second, then the *)
(* new one is copied file by file.  Requests run in threads and processes  *)
(* of their own, and nothing keeps two of them from the same directory.    *)
(***************************************************************************)
EXTENDS Integers, Sequences, FiniteSets

CONSTANTS
    Installer,    \* requests that install a version of the skill
    File,         \* the files of a skill
    SkillMd,      \* the one that has to be there
    MaxClock,     \* bound: seconds
    MaxShopFaults \* bound: processes that die

ASSUME SkillAssumption ==
    /\ SkillMd \in File
    /\ Installer \cap {"old", "missing", "publisher"} = {}
    /\ MaxClock \in Nat

VARIABLES
    live,         \* the installed directory, NoSkill if there is none
    backup,       \* what lies under name.backup-<second>: a sequence, the later nested in the first
    second,       \* int(time.time())
    job,          \* the requests and the publisher
    installed,    \* versions reported as installed
    package,      \* the .tar.gz for sale
    paid,         \* the order is paid, at Alipay
    crowded,      \* two jobs were in the directory at the same time
    shopFaults
shopVars == <<live, backup, second, job, installed, package, paid, crowded, shopFaults>>

NoSkill == [files |-> <<>>, price |-> -1]
NoFiles == [f \in File |-> "missing"]
Whole(files, version) == files = [f \in File |-> version]
Job == Installer \cup {"publisher"}
NoJob == [pc |-> "idle", left |-> File, failed |-> FALSE, read |-> NoSkill]

ShopInit ==
    /\ live = [files |-> [f \in File |-> "old"], price |-> 0]
    /\ backup = [s \in 0..MaxClock |-> <<>>]
    /\ second = 0
    /\ job = [i \in Job |-> NoJob]
    /\ installed = {}
    /\ package = NoSkill
    /\ paid \in BOOLEAN
    /\ crowded = FALSE
    /\ shopFaults = 0

InDirectory(i) == job[i].pc \notin {"idle", "done"}
Enters(i) == crowded' = (crowded \/ \E j \in Job \ {i} : InDirectory(j))
Goes(i, pc) == job' = [job EXCEPT ![i].pc = pc]

-----------------------------------------------------------------------------
(* Buying: _process_fulfillment_response sorts the answers of alipay-bot.  *)

\* What alipay-bot may answer: for an order that is not paid, a QR code, with
\* its URL or without; for a paid one a proof to download or plain success;
\* anything else, or nothing before the time is out.
BotAnswers ==
    {"timeout", "unknown"} \cup (IF paid THEN {"proof", "success"} ELSE {"pay", "pay_no_url"})
\* Only a proof is installed, "success" is not.
_process_fulfillment_response(reply) == IF reply = "proof" THEN "archive" ELSE "done"
fulfill(i) ==
    /\ job[i].pc = "idle"
    /\ \E reply \in BotAnswers : Goes(i, _process_fulfillment_response(reply))
    /\ IF job'[i].pc = "archive" THEN Enters(i) ELSE UNCHANGED crowded
    /\ UNCHANGED <<live, backup, second, installed, package, paid, shopFaults>>
\* /install downloads from the URL it was given, whatever is paid.
trigger_install(i) ==
    /\ job[i].pc = "idle"
    /\ Goes(i, "archive") /\ Enters(i)
    /\ UNCHANGED <<live, backup, second, installed, package, paid, shopFaults>>
\* The buyer pays; the webhook writes the event to the log and answers.
webhook ==
    /\ ~paid /\ paid' = TRUE
    /\ UNCHANGED <<live, backup, second, job, installed, package, crowded, shopFaults>>

-----------------------------------------------------------------------------
(* _install_from_url *)

\* Download, extraction, SKILL.md and its name: any of them may refuse.
Unpacked == BOOLEAN
Archive(i) ==
    /\ job[i].pc = "archive"
    /\ \E ok \in Unpacked : Goes(i, IF ok THEN "exists" ELSE "done")
    /\ UNCHANGED <<live, backup, second, installed, package, paid, crowded, shopFaults>>
\* _install_to: if there is a directory it is moved away first.
Exists(i) ==
    /\ job[i].pc = "exists"
    /\ Goes(i, IF live = NoSkill THEN "mkdir" ELSE "move")
    /\ UNCHANGED <<live, backup, second, installed, package, paid, crowded, shopFaults>>
\* Mutated form; no specification uses it: the backup of this second is replaced.
MoveAway_replaces(i) ==
    /\ job[i].pc = "move"
    /\ IF live # NoSkill THEN /\ backup' = [backup EXCEPT ![second] = <<live.files>>]
                              /\ live' = NoSkill
                              /\ Goes(i, "mkdir")
       ELSE Goes(i, "done") /\ UNCHANGED <<live, backup>>
    /\ UNCHANGED <<second, installed, package, paid, crowded, shopFaults>>
\* shutil.move: into the backup if there is one of this second, and an error if
\* there is already one in it or if there is nothing to move any more.
CanMove == live # NoSkill /\ Len(backup[second]) < 2
MoveAway(i) ==
    /\ job[i].pc = "move"
    /\ IF CanMove THEN /\ backup' = [backup EXCEPT ![second] = Append(@, live.files)]
                       /\ live' = NoSkill
                       /\ Goes(i, "mkdir")
       ELSE Goes(i, "done") /\ UNCHANGED <<live, backup>>
    /\ UNCHANGED <<second, installed, package, paid, crowded, shopFaults>>
\* shutil.copytree: an error if the directory exists; a file that cannot be
\* written is an error at the end.
MakeDirectory(i) ==
    /\ job[i].pc = "mkdir"
    /\ IF live = NoSkill THEN live' = [files |-> NoFiles, price |-> 0] /\ Goes(i, "copy")
       ELSE Goes(i, "done") /\ UNCHANGED live
    /\ UNCHANGED <<backup, second, installed, package, paid, crowded, shopFaults>>
CopyFile(i) ==
    /\ job[i].pc = "copy"
    /\ \E f \in job[i].left :
         /\ live' = IF live = NoSkill THEN live ELSE [live EXCEPT !.files[f] = i]
         /\ job' = [job EXCEPT ![i].left = @ \ {f}, ![i].failed = @ \/ live = NoSkill]
    /\ UNCHANGED <<backup, second, installed, package, paid, crowded, shopFaults>>
Copied(i) ==
    /\ job[i].pc = "copy" /\ job[i].left = {}
    /\ Goes(i, "done")
    /\ installed' = IF job[i].failed THEN installed ELSE installed \cup {i}
    /\ UNCHANGED <<live, backup, second, package, paid, crowded, shopFaults>>

-----------------------------------------------------------------------------
(* publish_skill: validate, write manifest.json into the skill, pack it.   *)

\* The price asked for holds only for a skill without a manifest.
AskedPrices == 1..2
PriceOf(dir, asked) == IF dir.price > 0 THEN dir.price ELSE asked
Validate ==
    /\ job["publisher"].pc = "idle"
    /\ live # NoSkill /\ live.files[SkillMd] # "missing"
    /\ Goes("publisher", "manifest") /\ Enters("publisher")
    /\ UNCHANGED <<live, backup, second, installed, package, paid, shopFaults>>
Manifest ==
    /\ job["publisher"].pc = "manifest"
    /\ IF live = NoSkill THEN Goes("publisher", "idle") /\ UNCHANGED live
       ELSE \E asked \in AskedPrices : live' = [live EXCEPT !.price = PriceOf(live, asked)] /\ Goes("publisher", "pack")
    /\ UNCHANGED <<backup, second, installed, package, paid, crowded, shopFaults>>
\* The archive is written in place: it is torn until it is closed.
Pack ==
    /\ job["publisher"].pc = "pack"
    /\ package' = NoSkill
    /\ job' = [job EXCEPT !["publisher"].pc = IF live = NoSkill THEN "idle" ELSE "close", !["publisher"].read = live]
    /\ UNCHANGED <<live, backup, second, installed, paid, crowded, shopFaults>>
ClosePackage ==
    /\ job["publisher"].pc = "close"
    /\ package' = job["publisher"].read
    /\ job' = [job EXCEPT !["publisher"] = NoJob]
    /\ UNCHANGED <<live, backup, second, installed, paid, crowded, shopFaults>>

-----------------------------------------------------------------------------
Dies(i) ==
    /\ InDirectory(i) /\ shopFaults < MaxShopFaults
    /\ shopFaults' = shopFaults + 1
    /\ Goes(i, "done")
    /\ UNCHANGED <<live, backup, second, installed, package, paid, crowded>>
Passes ==
    /\ second < MaxClock /\ second' = second + 1
    /\ UNCHANGED <<live, backup, job, installed, package, paid, crowded, shopFaults>>

ShopNext ==
    \/ \E i \in Installer :
         fulfill(i) \/ trigger_install(i) \/ Archive(i) \/ Exists(i) \/ MoveAway(i) \/ MakeDirectory(i) \/ CopyFile(i) \/ Copied(i)
    \/ Validate \/ Manifest \/ Pack \/ ClosePackage
    \/ \E i \in Job : Dies(i)
    \/ webhook \/ Passes

-----------------------------------------------------------------------------
(* Properties *)

OnDisk == {live.files} \cup UNION {{backup[s][k] : k \in DOMAIN backup[s]} : s \in 0..MaxClock}

\* "backing up existing version": whatever requests meet in the directory and
\* wherever one of them dies, the skill that was installed before is still
\* there as a whole; so is every version reported as installed, and a package
\* is one whole version, at the price of its manifest, unless two jobs were in
\* the directory together.
SkillsKept ==
    /\ \E files \in OnDisk : Whole(files, "old")
    /\ ~crowded =>
         /\ \A i \in installed : \E files \in OnDisk : Whole(files, i)
         /\ package # NoSkill /\ shopFaults = 0 => \E v \in Installer \cup {"old"} : Whole(package.files, v)
         /\ package # NoSkill /\ live.files = package.files /\ live.price > 0 => package.price = live.price
=============================================================================
