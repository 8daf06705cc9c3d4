----------------------------- MODULE MCBundleSign -----------------------------
(***************************************************************************)
(* Small applications for BundleSign: a tree of three bundles and command  *)
(* lines to sign it with.                                                  *)
(***************************************************************************)
EXTENDS BundleSign, TLC

CONSTANTS app, ext, fw, lib, inj, res, ver, dev, adhoc, i0, i1

MCBundles == {app, ext, fw}
\* The framework sits in the extension, the extension in the application.
MCBelow == (app :> {app, ext, fw}) @@ (ext :> {ext, fw}) @@ (fw :> {fw})
\* The framework sits beside the extension.
MCBelowWide == (app :> {app, ext, fw}) @@ (ext :> {ext}) @@ (fw :> {fw})
MCOwner == (lib :> ext) @@ (inj :> app)
MCHolder == (res :> app) @@ (ver :> ext)

CommandLine(f, a, n, d, w) ==
  [force |-> f, asset |-> a, rename |-> n, ident |-> i1, inject |-> d, weak |-> w]

\* Signing and re-signing, forced or not, under a new name or identifier.
ResignOptions ==
  {CommandLine(FALSE, dev, "none", {}, FALSE), CommandLine(TRUE, dev, "none", {}, FALSE),
   CommandLine(FALSE, dev, "id", {}, FALSE), CommandLine(FALSE, dev, "name", {}, FALSE),
   CommandLine(FALSE, adhoc, "none", {}, FALSE)}
\* Signing and re-signing with and without a dylib to inject.
InjectOptions ==
  {CommandLine(FALSE, dev, "none", {}, FALSE), CommandLine(FALSE, dev, "none", {inj}, FALSE),
   CommandLine(TRUE, dev, "none", {inj}, TRUE)}
\* Re-signing with other assets, and nothing else.
AssetOptions == {CommandLine(FALSE, a, "none", {}, FALSE) : a \in {dev, adhoc}}
\* Changing the bundle identifier, and re-signing.
RenameOptions == {CommandLine(FALSE, dev, n, {}, FALSE) : n \in {"none", "id"}}
===============================================================================
