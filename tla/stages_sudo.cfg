\* A command with two flags behind sudo. An input of full length is not extended.
CHECK_DEADLOCK FALSE
SPECIFICATION Spec
CONSTANTS
  Word <- MCWords
  Flag = {"-y", "-t"}
  EnvAssign = {"foo=1"}
  Slashed = {"x/y"}
  NameOf <- MCNames
  ValidName = {"sudo", "apt", "install", "foo"}
  max = 2
  MaxWords = 6
  RequestLines <- MCLines
  HeaderLines <- MCHeaders
  MaxLines = 4
  Allowlist <- MCAllowlist
  BadHost <- MCBadHosts
  Addresses <- MCAddresses
  NoPort = NoPort
  BadPort = BadPort
  NoHead = NoHead
  NoAddress = NoAddress
INVARIANT
  SkipsSudoFlags
