SPECIFICATION Spec
CONSTANTS
  rename = rename
  unlink = unlink
  rmdir = rmdir
  create = create
  setxattr = setxattr
  Ops = {rename, unlink, rmdir, create, setxattr}
  Multi = {rename, unlink, rmdir}
  Size <- Sizes
  NoOp = NoOp
INVARIANTS
  Durable
