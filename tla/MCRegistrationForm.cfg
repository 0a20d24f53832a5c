SPECIFICATION Spec
CONSTANTS
  Passwords = {a, b}
  Empty = Empty
  MonthDays = 2
  Births <- MCBirths
  Starts <- MCStarts
  MaxMidnights = 23
INVARIANTS
  FormInv
  PasswordsAgree
  AgeWithinOne
