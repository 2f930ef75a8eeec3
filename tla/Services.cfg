SPECIFICATION FairSpec
CONSTANTS
  Services = {"stackgres", "cnpg", "keycloak", "nextcloud", "redis", "mariadb", "forgejo", "minio",
              "openbao", "garage"}
  Instances = {1, 2}
  None = None
  Breaking = {"cnpg", "keycloak", "nextcloud", "redis", "forgejo", "minio", "openbao", "garage"}
  MaxEdits = 1
  MaxFaults = 1
INVARIANTS LockedOnlyIfKnown ReadyMeansReachable
PROPERTIES DataSurvives ReadyMeansServing DeployedInOrder InitOnce EventuallySettled
