SPECIFICATION Spec
CONSTANTS
  app = app
  ext = ext
  fw = fw
  lib = lib
  inj = inj
  res = res
  ver = ver
  dev = dev
  adhoc = adhoc
  i0 = i0
  i1 = i1
  Missing = Missing
  Cut = Cut
  Root = app
  Bundles <- MCBundles
  Below <- MCBelow
  PlugIns = {ext}
  Dylibs = {lib, inj}
  Owner <- MCOwner
  Injectable = {inj}
  Resources = {res, ver}
  Holder <- MCHolder
  Strings = {res}
  Omitted = {ver}
  Assets = {dev, adhoc}
  Provisioned = {dev}
  Idents = {i0, i1}
  Original = i0
  Options <- RenameOptions
  Faults = {"crash"}
  MaxRuns = 3
CHECK_DEADLOCK FALSE
INVARIANT SignedIdentityIsCurrent
