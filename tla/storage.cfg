SPECIFICATION Spec
CONSTANTS
  j1 = j1  j2 = j2  home = home  private = private  other = other  n1 = n1  n2 = n2
  db0 = db0  db1 = db1  sys = sys  usr = usr  gst = gst  new = new
  Jobs = {j1, j2}
  Privileged = {j2}
  Account <- MCAccount
  Folders = {home, private, other}
  Owner <- MCOwner
  PackOf <- MCPackOf
  Project <- MCProject
  Library = {sys}
  Names = {n1, n2}
  Files <- MCFiles
  Quota <- MCQuota
  Prots = {0, 62, 256}
  Packs = {db0, db1}
  SystemPack = db0
  PackIds = {"PAYROL", "SYSDSK"}
  NoId = NoId
  PayrolPack = db1
  PayrolId = "PAYROL"
  Lost = Lost
  NoJob = NoJob
  Users = {j1, j2}
  Operators = {j2}
  Printables = {n1}
  MaxRequests = 4
  Accounts = {sys, usr, gst, new}
  Structural = {sys}
  Stock = {sys, gst}
  Terms = {"stock", "set"}
  StockTerms = "stock"
  NoAccount = NoAccount
  Damaged = Damaged
  Scenarios <- MCScenarios
  MaxCrashes = 2
INVARIANTS TypeOK BootsAsLeft
PROPERTIES OthersKept QueueSpec
CHECK_DEADLOCK TRUE
