------------------------------- MODULE AccountDB -------------------------------
(* The accounts (accounts.go): those in memory, and accounts.json, to which     *)
(* every change is written before the mutex is released.  What HELLO compares   *)
(* and QUOTA sets - password, block and job quota - is one value here.          *)
EXTENDS Naturals

CONSTANTS Accounts,    \* the accounts there may be
          Structural,  \* [1,2] and [1,9]
          Stock,       \* the accounts of a new system, the structural ones too
          Terms,       \* passwords and quotas
          StockTerms,  \* those of the stock accounts
          NoAccount,   \* there is no such account
          Damaged      \* accounts.json cannot be parsed

ASSUME AccountAssumption ==
  /\ Structural \subseteq Stock /\ Stock \subseteq Accounts
  /\ StockTerms \in Terms /\ NoAccount \notin Terms

VARIABLES accounts,      \* db.Accounts
          accountsFile   \* accounts.json, or Damaged
accountVars == <<accounts, accountsFile>>

Defaults == [a \in Accounts |-> IF a \in Stock THEN StockTerms ELSE NoAccount]
Present(db) == {a \in Accounts : db[a] # NoAccount}

(* A save that fails would leave memory ahead of the file; it does not fail here. *)
SaveAs(db) == accounts' = db /\ accountsFile' = db
(* Names are not kept here: Create also refuses one that is in use.           *)
CreateAccount(a, v) == accounts[a] = NoAccount /\ SaveAs([accounts EXCEPT ![a] = v])
(* Mutant: the account goes from memory only. *)
DeleteInMemory(a) == /\ a \in Present(accounts) \ Structural
                     /\ accounts' = [accounts EXCEPT ![a] = NoAccount] /\ UNCHANGED accountsFile
DeleteAccount(a) ==
  a \in Present(accounts) \ Structural /\ SaveAs([accounts EXCEPT ![a] = NoAccount])
(* SetPassword and SetQuota. *)
SetTerms(a, v) == a \in Present(accounts) /\ SaveAs([accounts EXCEPT ![a] = v])

(* Load: a file that is damaged is set aside, one without accounts is        *)
(* replaced, and the structural accounts are put back where they are missing *)
(* and the file is written again then, as it is when [1,*] lacks privilege,   *)
(* which is not kept here.                                                   *)
WithStructural(db) ==
  [a \in Accounts |-> IF a \in Structural /\ db[a] = NoAccount THEN StockTerms ELSE db[a]]
Load ==
  IF accountsFile = Damaged THEN SaveAs(Defaults)
  ELSE IF Present(accountsFile) = {} THEN SaveAs(Defaults)
  ELSE IF WithStructural(accountsFile) # accountsFile THEN SaveAs(WithStructural(accountsFile))
  ELSE accounts' = accountsFile /\ UNCHANGED accountsFile
================================================================================
