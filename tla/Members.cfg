SPECIFICATION MembersMCSpec
CONSTANTS
  Founder = f
  Patron = p
  Newcomer = n
  Persons = {f, p, n, s}
  Nobody = Nobody
  Addresses = {"f@x", "p@x", "n@x", "s@x"}
  StrangerMail = "s@x"
  Texts = {t1, t2}
  LoginMail <- MC_LoginMail
  Patches <- MC_Patches
  Requests = {r1, r2}
  FirstText = t1
  SecondText = t2
  Scenarios = {"attribution", "profiles"}
SYMMETRY Symmetry
CHECK_DEADLOCK FALSE
INVARIANTS NoSilentSponsor
PROPERTIES LinkOnlyBeforePlacement NobodyErases
