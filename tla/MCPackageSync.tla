---------------------------- MODULE MCPackageSync ----------------------------
(* Small instances of PackageSync: commands that install, uninstall and clean,  *)
(* the last of which may be a dry run.                                          *)
EXTENDS PackageSync

CONSTANTS c1, c2, c3, k1, k2, v1, v2

TwoPackages == <<k1, k2>>

OneInstalled == {(k1 :> v1) @@ (k2 :> None)}

Job(op, pkg, dry) == [op |-> op, pkg |-> pkg, dry |-> dry]

Given(j1, j2, j3) == (c1 :> j1) @@ (c2 :> j2) @@ (c3 :> j3)

Install(k) == Job("install", k, FALSE)
Uninstall(k) == Job("uninstall", k, FALSE)
Restore == Job("restore", k1, FALSE)
CleanLibs == Job("clean", k1, FALSE)
DryRun == Job("restore", k1, TRUE)

\* Two commands that both break the lock of a third; a dry run beside them, or
\* after them; two that change different packages.
MixedJobs ==
    {Given(CleanLibs, CleanLibs, CleanLibs),
     Given(Install(k1), CleanLibs, DryRun),
     Given(Uninstall(k1), Restore, DryRun),
     Given(Install(k1), Install(k2), None),
     Given(Uninstall(k1), Install(k2), None)}

\* One command, and a restore after it or beside it.
RestoreAfter == {Given(Install(k1), Restore, None), Given(Install(k2), Restore, None)}
==============================================================================
