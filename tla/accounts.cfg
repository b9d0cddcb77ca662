SPECIFICATION FairSpec
CONSTANTS
  Ana = Ana
  ana = ana
  bea = bea
  Addresses <- ThreeAddresses
  Lower <- ToLower
  Passwords = {pw}
  Requests = {r1, r2, r3}
  NoRow = NoRow
INVARIANTS
  TypeOK
  OneAccountPerEmail
  CreatedIsAlone
PROPERTIES
  RegistrationsEnd
